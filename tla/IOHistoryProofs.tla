---- MODULE IOHistoryProofs ----
(***************************************************************************)
(* Proofs about Calculator and IOHistory, for any containers, loads,       *)
(* windows, periods and any number of missed rounds and restarts.          *)
(*                                                                         *)
(* What a number is worth is a statement about a sum of loads.  It is put  *)
(* without sums: for every m that is at least (at most) the load in each   *)
(* unit of a stretch of time, the counter rose by at most (at least) m     *)
(* for each of these units.                                                *)
(***************************************************************************)
EXTENDS IOHistory, SequenceTheorems, FiniteSetTheorems, WellFoundedInduction, TLAPS

----
(***************************************************************************)
(* Least and greatest numbers.  Induction is the principle of the least    *)
(* number of a set: a claim about all numbers is that no number is the     *)
(* least one to refute it.                                                 *)
(***************************************************************************)
Less == {pair \in Nat \X Nat : pair[1] < pair[2]}

LEMMA LeastNumber ==
    ASSUME NEW T \in SUBSET Nat, T # {}
    PROVE  \E x \in T : \A y \in T : x <= y
<1>1. IsWellFoundedOn(Less, Nat)
  BY NatLessThanWellFounded DEF OpToRel, Less
<1>2. PICK x \in T : \A y \in T : ~(<<y, x>> \in Less)
  BY <1>1, WFMin
<1>3. \A y \in T : x <= y
  <2> TAKE y \in T
  <2>1. x \in Nat /\ y \in Nat /\ ~(<<y, x>> \in Less)
    BY <1>2
  <2>2. ~(y < x)
    BY <2>1 DEF Less
  <2> QED BY <2>1, <2>2
<1> QED BY <1>2, <1>3

LEMMA MinOfNumbers ==
    ASSUME NEW T \in SUBSET Nat, T # {}
    PROVE  Min(T) \in T /\ \A y \in T : Min(T) <= y
BY LeastNumber DEF Min

LEMMA MaxOfNumbers ==
    ASSUME NEW T \in SUBSET Nat, T # {}, NEW b \in Nat, \A x \in T : x <= b
    PROVE  Max(T) \in T /\ \A y \in T : y <= Max(T)
<1> DEFINE U == {u \in Nat : \A x \in T : x <= u}
<1>1. PICK u \in U : \A w \in U : u <= w
  <2>1. U \in SUBSET Nat /\ b \in U
    OBVIOUS
  <2> HIDE DEF U
  <2> QED BY <2>1, LeastNumber
<1>2. u \in T
  <2> SUFFICES ASSUME u \notin T PROVE FALSE
    OBVIOUS
  <2>1. \A x \in T : x <= u - 1
    <3> TAKE x \in T
    <3>1. x \in Nat /\ u \in Nat /\ x <= u /\ x # u
      BY <1>1
    <3> QED BY <3>1
  <2>2. u - 1 \in U
    <3>1. PICK x \in T : TRUE
      OBVIOUS
    <3>2. u \in Nat /\ x \in Nat /\ x <= u - 1
      BY <1>1, <2>1, <3>1
    <3> QED BY <2>1, <3>2
  <2> QED BY <1>1, <2>2
<1>3. u \in T /\ \A y \in T : u >= y
  BY <1>1, <1>2
<1> QED BY <1>3 DEF Max

\* The loads logged so far have a bound.
LEMMA LogBounded ==
    ASSUME NEW l \in Seq(Nat)
    PROVE  \E b \in Nat : \A i \in 1 .. Len(l) : l[i] <= b
<1> DEFINE Bad == {n \in Nat : n <= Len(l) /\ ~ \E b \in Nat : \A i \in 1 .. n : l[i] <= b}
<1>0. Len(l) \in Nat /\ \A i \in 1 .. Len(l) : l[i] \in Nat
  OBVIOUS
<1>1. CASE Bad = {}
  <2>1. Len(l) \notin Bad
    BY <1>1
  <2> QED BY <1>0, <2>1
<1>2. CASE Bad # {}
  <2>1. PICK n \in Bad : \A m \in Bad : n <= m
    <3>1. Bad \in SUBSET Nat
      OBVIOUS
    <3> HIDE DEF Bad
    <3> QED BY <1>2, <3>1, LeastNumber
  <2>2. n \in Nat /\ n <= Len(l) /\ ~ \E b \in Nat : \A i \in 1 .. n : l[i] <= b
    BY <2>1
  <2>3. n # 0
    <3>1. \A i \in 1 .. 0 : l[i] <= 0
      OBVIOUS
    <3> QED BY <2>2, <3>1
  <2>4. PICK b \in Nat : \A i \in 1 .. n - 1 : l[i] <= b
    <3>1. n - 1 \in Nat /\ n - 1 <= Len(l) /\ ~(n <= n - 1)
      BY <1>0, <2>2, <2>3
    <3>2. n - 1 \notin Bad
      BY <2>1, <3>1
    <3> QED BY <3>1, <3>2
  <2>5. l[n] \in Nat
    BY <1>0, <2>2, <2>3
  <2> HIDE DEF Bad
  <2>6. \A i \in 1 .. n : l[i] <= b + l[n]
    <3> TAKE i \in 1 .. n
    <3>1. CASE i = n
      BY <2>4, <2>5, <3>1
    <3>2. CASE i # n
      <4>1. i \in 1 .. n - 1 /\ l[i] \in Nat
        BY <1>0, <2>2, <3>2
      <4>2. l[i] <= b /\ b \in Nat
        BY <2>4, <4>1
      <4> QED BY <2>5, <4>1, <4>2
    <3> QED BY <3>1, <3>2
  <2>7. b + l[n] \in Nat
    BY <2>5
  <2> QED BY <2>2, <2>6, <2>7
<1> QED BY <1>1, <1>2

----
(***************************************************************************)
(* The quotient.                                                           *)
(***************************************************************************)
LEMMA QuotientOf ==
    ASSUME NEW a \in Nat, NEW b \in Nat \ {0}
    PROVE  a \div b \in Nat /\ b * (a \div b) <= a /\ a < b * (a \div b) + b
OBVIOUS

LEMMA ProductGrows ==
    ASSUME NEW q \in Int, NEW m \in Int, NEW b \in Nat, q >= m + 1
    PROVE  b * q >= m * b + b
OBVIOUS

\* A rise is at most (at least) m for each unit: so is the quotient.
LEMMA TruncatedWithin ==
    ASSUME NEW a \in Int, NEW b \in Nat \ {0}, NEW m \in Nat
    PROVE  /\ Truncated(a, b) \in Int
           /\ a <= m * b => Truncated(a, b) <= m
           /\ a >= m * b => Truncated(a, b) >= m
<1>1. CASE a >= 0
  <2> DEFINE q == a \div b
  <2>1. q \in Nat /\ b * q <= a /\ a < b * q + b
    BY <1>1, QuotientOf
  <2>2. Truncated(a, b) = q
    BY <1>1 DEF Truncated
  <2> HIDE DEF q
  <2>3. a <= m * b => q <= m
    <3> SUFFICES ASSUME a <= m * b, q >= m + 1 PROVE FALSE
      BY <2>1
    <3>1. b * q >= m * b + b
      BY <2>1, ProductGrows
    <3>2. b * q \in Int /\ m * b \in Int
      BY <2>1
    <3> QED BY <2>1, <3>1, <3>2
  <2>4. a >= m * b => q >= m
    <3> SUFFICES ASSUME a >= m * b, m >= q + 1 PROVE FALSE
      BY <2>1
    <3>1. b * m >= q * b + b
      BY <2>1, ProductGrows
    <3>2. b * q \in Int /\ m * b \in Int /\ b * m = m * b /\ q * b = b * q
      BY <2>1
    <3> QED BY <2>1, <3>1, <3>2
  <2> QED BY <2>1, <2>2, <2>3, <2>4
<1>2. CASE a < 0
  <2> DEFINE q == (-a) \div b
  <2>1. q \in Nat
    BY <1>2, QuotientOf
  <2>2. Truncated(a, b) = -q
    BY <1>2 DEF Truncated
  <2>3. m * b >= 0
    OBVIOUS
  <2> HIDE DEF q
  <2> QED BY <1>2, <2>1, <2>2, <2>3
<1> QED BY <1>1, <1>2

----
(***************************************************************************)
(* Sums.                                                                   *)
(***************************************************************************)
LEMMA SumExists ==
    ASSUME NEW n \in Nat, NEW g \in [1 .. n -> Int]
    PROVE  \E f : f = [i \in 0 .. n |-> IF i = 0 THEN 0 ELSE f[i - 1] + g[i]]
<1> DEFINE IsSum(f, m) == f = [i \in 0 .. m |-> IF i = 0 THEN 0 ELSE f[i - 1] + g[i]]
           Bad == {m \in 0 .. n : ~ \E f : IsSum(f, m)}
<1>1. CASE Bad = {}
  <2> HIDE DEF IsSum
  <2>0. n \in 0 .. n
    OBVIOUS
  <2>1. n \notin Bad
    <3> HIDE DEF Bad
    <3> QED BY <1>1
  <2>2. PICK f : IsSum(f, n)
    BY <2>0, <2>1
  <2>3. f = [i \in 0 .. n |-> IF i = 0 THEN 0 ELSE f[i - 1] + g[i]]
    BY <2>2 DEF IsSum
  <2> QED BY <2>3, Zenon
<1>2. CASE Bad # {}
  <2>1. PICK m \in Bad : \A k \in Bad : m <= k
    <3>1. Bad \in SUBSET Nat
      OBVIOUS
    <3> HIDE DEF Bad
    <3> QED BY <1>2, <3>1, LeastNumber
  <2>2. m \in 0 .. n /\ ~ \E f : IsSum(f, m)
    BY <2>1
  <2>3. m # 0
    <3> DEFINE f == [i \in 0 .. 0 |-> 0]
    <3>1. f = [i \in 0 .. 0 |-> IF i = 0 THEN 0 ELSE f[i - 1] + g[i]]
      OBVIOUS
    <3> HIDE DEF f
    <3>2. IsSum(f, 0)
      BY <3>1
    <3> HIDE DEF IsSum
    <3> QED BY <2>2, <3>2
  <2>4. m - 1 \in 0 .. n /\ ~(m <= m - 1)
    BY <2>2, <2>3
  <2>5. PICK f : IsSum(f, m - 1)
    <3>1. m - 1 \notin Bad
      BY <2>1, <2>4
    <3> HIDE DEF IsSum
    <3> QED BY <2>4, <3>1
  <2> DEFINE h == [i \in 0 .. m |-> IF i < m THEN f[i] ELSE f[m - 1] + g[m]]
  <2>6. h = [i \in 0 .. m |-> IF i = 0 THEN 0 ELSE h[i - 1] + g[i]]
    <3>1. ASSUME NEW i \in 0 .. m
          PROVE  h[i] = IF i = 0 THEN 0 ELSE h[i - 1] + g[i]
      <4>1. CASE i = 0
        <5>1. h[i] = f[0] /\ f[0] = 0
          BY <2>2, <2>3, <2>5, <4>1
        <5> QED BY <4>1, <5>1
      <4>2. CASE i # 0 /\ i < m
        <5>1. i \in 0 .. m - 1 /\ i - 1 \in 0 .. m /\ i - 1 < m
          BY <2>2, <4>2
        <5>2. h[i] = f[i] /\ h[i - 1] = f[i - 1] /\ f[i] = f[i - 1] + g[i]
          BY <2>5, <4>2, <5>1
        <5> QED BY <4>2, <5>2
      <4>3. CASE i = m
        <5>1. m \in 0 .. m /\ ~(m < m) /\ m - 1 \in 0 .. m /\ m - 1 < m
          BY <2>2, <2>3
        <5>2. h[m] = f[m - 1] + g[m] /\ h[m - 1] = f[m - 1]
          BY <5>1
        <5> QED BY <2>3, <4>3, <5>2
      <4> QED BY <2>2, <4>1, <4>2, <4>3
    <3>2. h = [i \in 0 .. m |-> h[i]]
      OBVIOUS
    <3> HIDE DEF h
    <3> QED BY <3>1, <3>2
  <2> HIDE DEF h
  <2>7. IsSum(h, m)
    BY <2>6
  <2> HIDE DEF IsSum
  <2> QED BY <2>2, <2>7
<1> QED BY <1>1, <1>2

\* A sum in which each of some terms is at most (at least) m, and all others are 0.
LEMMA SumWithin ==
    ASSUME NEW n \in Nat, NEW g \in [1 .. n -> Int], NEW steps \in SUBSET (1 .. n), NEW m \in Nat,
           \A i \in (1 .. n) \ steps : g[i] = 0,
           NEW total, total = [i \in 0 .. n |-> IF i = 0 THEN 0 ELSE total[i - 1] + g[i]]
    PROVE  /\ (\A i \in steps : g[i] <= m) => total[n] <= m * Cardinality(steps)
           /\ (\A i \in steps : m <= g[i]) => m * Cardinality(steps) <= total[n]
<1> DEFINE first(i) == steps \cap (1 .. i)
           OK(i) == /\ total[i] \in Int /\ Cardinality(first(i)) \in Nat
                    /\ (\A k \in steps : g[k] <= m) => total[i] <= m * Cardinality(first(i))
                    /\ (\A k \in steps : m <= g[k]) => m * Cardinality(first(i)) <= total[i]
           Bad == {i \in 0 .. n : ~OK(i)}
<1>1. OK(0)
  <2>1. first(0) = {} /\ total[0] = 0
    OBVIOUS
  <2>2. Cardinality(first(0)) = 0 /\ m * 0 = 0
    BY <2>1, FS_EmptySet
  <2> HIDE DEF first
  <2> QED BY <2>1, <2>2
<1>2. ASSUME NEW i \in 1 .. n, OK(i - 1) PROVE OK(i)
  <2>1. total[i] = total[i - 1] + g[i] /\ g[i] \in Int /\ total[i - 1] \in Int
    BY <1>2
  <2>2. IsFiniteSet(first(i - 1)) /\ i \notin first(i - 1)
    <3>1. first(i - 1) \subseteq 1 .. n /\ IsFiniteSet(1 .. n)
      BY FS_Interval
    <3> QED BY <3>1, FS_Subset
  <2> DEFINE c == Cardinality(first(i - 1))
  <2>3. c \in Nat /\ m * (c + 1) = m * c + m /\ m * c \in Int
    <3>1. c \in Nat
      BY <1>2
    <3> HIDE DEF c
    <3> QED BY <3>1
  <2>4. CASE i \in steps
    <3>1. first(i) = first(i - 1) \cup {i}
      BY <2>4
    <3>2. Cardinality(first(i)) = c + 1
      <4> HIDE DEF first
      <4> QED BY <2>2, <3>1, FS_AddElement
    <3>3. (\A k \in steps : g[k] <= m) => total[i - 1] <= m * c /\ g[i] <= m
      BY <1>2, <2>4
    <3>4. (\A k \in steps : m <= g[k]) => m * c <= total[i - 1] /\ m <= g[i]
      BY <1>2, <2>4
    <3>5. m * Cardinality(first(i)) = m * c + m /\ c + 1 \in Nat
      BY <2>3, <3>2
    <3>6. Cardinality(first(i)) \in Nat /\ total[i] \in Int
      BY <2>1, <3>2, <3>5
    <3> HIDE DEF c, first
    <3>7. (\A k \in steps : g[k] <= m) => total[i] <= m * Cardinality(first(i))
      <4> SUFFICES ASSUME \A k \in steps : g[k] <= m
                   PROVE  total[i] <= m * Cardinality(first(i))
        OBVIOUS
      <4>1. total[i - 1] <= m * c /\ g[i] <= m
        BY <3>3
      <4> QED BY <2>1, <2>3, <3>5, <4>1
    <3>8. (\A k \in steps : m <= g[k]) => m * Cardinality(first(i)) <= total[i]
      <4> SUFFICES ASSUME \A k \in steps : m <= g[k]
                   PROVE  m * Cardinality(first(i)) <= total[i]
        OBVIOUS
      <4>1. m * c <= total[i - 1] /\ m <= g[i]
        BY <3>4
      <4> QED BY <2>1, <2>3, <3>5, <4>1
    <3> QED BY <3>6, <3>7, <3>8, Zenon
  <2>5. CASE i \notin steps
    <3>1. first(i) = first(i - 1)
      BY <2>5
    <3>2. g[i] = 0 /\ total[i] = total[i - 1]
      BY <2>1, <2>5
    <3> HIDE DEF first
    <3> QED BY <1>2, <3>1, <3>2
  <2> QED BY <2>4, <2>5
<1> HIDE DEF OK
<1>3. CASE Bad = {}
  <2>1. n \in 0 .. n
    OBVIOUS
  <2>2. OK(n)
    BY <1>3, <2>1
  <2>3. first(n) = steps
    OBVIOUS
  <2> QED BY <2>2, <2>3 DEF OK
<1>4. CASE Bad # {}
  <2>1. PICK i \in Bad : \A k \in Bad : i <= k
    <3>1. Bad \in SUBSET Nat
      OBVIOUS
    <3> HIDE DEF Bad
    <3> QED BY <1>4, <3>1, LeastNumber
  <2>2. i \in 0 .. n /\ ~OK(i)
    BY <2>1
  <2>3. i # 0
    BY <1>1, <2>2
  <2>4. i \in 1 .. n /\ i - 1 \in 0 .. n /\ ~(i <= i - 1)
    BY <2>2, <2>3
  <2>5. OK(i - 1)
    BY <2>1, <2>4
  <2> QED BY <1>2, <2>2, <2>4, <2>5
<1> QED BY <1>3, <1>4

----
(***************************************************************************)
(* Histories.                                                              *)
(***************************************************************************)

\* What cleanupContainerHistory leaves is an end of the history; what it cuts off had
\* expired, and unless all had, the first one that is left has not.
LEMMA CleanedIsAnEnd ==
    ASSUME NEW stats \in Seq(Point), stats # <<>>, NEW cutoff \in Int
    PROVE  LET new == Cleaned(stats, cutoff) IN
           /\ new \in Seq(Point)
           /\ \E o \in 0 .. Len(stats) - 1 :
                /\ Len(new) = Len(stats) - o
                /\ \A i \in 1 .. Len(new) : new[i] = stats[o + i]
                /\ \A i \in 1 .. o : stats[i].t <= cutoff
                /\ new[1].t > cutoff \/ \A i \in 1 .. Len(stats) : stats[i].t <= cutoff
<1> DEFINE fresh == {i \in DOMAIN stats : stats[i].t > cutoff}
<1>0. /\ Len(stats) \in Nat \ {0} /\ DOMAIN stats = 1 .. Len(stats)
      /\ \A i \in 1 .. Len(stats) : stats[i] \in Point /\ stats[i].t \in Nat
  <2>1. Len(stats) \in Nat \ {0} /\ DOMAIN stats = 1 .. Len(stats)
    BY EmptySeq, LenProperties
  <2>2. \A i \in 1 .. Len(stats) : stats[i] \in Point
    BY ElementOfSeq
  <2> QED BY <2>1, <2>2 DEF Point
<1>1. CASE fresh = {}
  <2>1. Cleaned(stats, cutoff) = stats
    BY <1>1 DEF Cleaned
  <2>2. \A i \in 1 .. Len(stats) : stats[i].t <= cutoff
    BY <1>0, <1>1
  <2>3. /\ 0 \in 0 .. Len(stats) - 1 /\ Len(stats) = Len(stats) - 0
        /\ \A i \in 1 .. Len(stats) : stats[i] = stats[0 + i]
        /\ \A i \in 1 .. 0 : stats[i].t <= cutoff
    BY <1>0
  <2> HIDE DEF fresh
  <2> QED BY <2>1, <2>2, <2>3
<1>2. CASE fresh # {}
  <2> DEFINE m == Min(fresh)
  <2>1. m \in fresh /\ \A y \in fresh : m <= y
    <3>1. fresh \in SUBSET Nat
      BY <1>0
    <3> HIDE DEF fresh
    <3> QED BY <1>2, <3>1, MinOfNumbers
  <2>2. Cleaned(stats, cutoff) = SubSeq(stats, m, Len(stats))
    BY <1>2 DEF Cleaned
  <2> HIDE DEF m
  <2>3. m \in 1 .. Len(stats) /\ stats[m].t > cutoff /\ \A i \in 1 .. m - 1 : stats[i].t <= cutoff
    BY <1>0, <2>1
  <2> HIDE DEF fresh
  <2> DEFINE new == SubSeq(stats, m, Len(stats))
  <2>4. /\ new \in Seq(Point) /\ Len(new) = Len(stats) - (m - 1)
        /\ \A i \in 1 .. Len(stats) - m + 1 : new[i] = stats[m + i - 1]
    <3>1. \A i \in m .. Len(stats) : stats[i] \in Point
      BY <1>0, <2>3
    <3>2. m \in Int /\ Len(stats) \in Int /\ m <= Len(stats)
      BY <1>0, <2>3
    <3> QED BY <3>1, <3>2, SubSeqProperties
  <2> HIDE DEF new
  <2>5. m - 1 \in 0 .. Len(stats) - 1
    BY <1>0, <2>3
  <2>6. \A i \in 1 .. Len(new) : new[i] = stats[(m - 1) + i]
    BY <1>0, <2>3, <2>4
  <2>7. new[1].t > cutoff
    BY <1>0, <2>3, <2>4
  <2> QED BY <2>2, <2>3, <2>4, <2>5, <2>6, <2>7 DEF new
<1> QED BY <1>1, <1>2

\* new is an end of old followed by sample.
Ends(new, old, sample) ==
    /\ new \in Seq(Point)
    /\ \E o \in 0 .. Len(old) :
         /\ Len(new) = Len(old) + 1 - o
         /\ \A i \in 1 .. Len(new) :
              new[i] = IF o + i <= Len(old) THEN old[o + i] ELSE sample

LEMMA AddedAtTheEnd ==
    ASSUME NEW old \in Seq(Point), NEW sample \in Point, now \in Nat
    PROVE  LET new == addIOStats(old, sample)
               cutoff == now - HistoryWindow
           IN /\ Ends(new, old, sample)
              /\ \A i \in 1 .. Len(old) : old[i].t > cutoff => \E j \in 1 .. Len(new) : new[j] = old[i]
              /\ new[1].t > cutoff \/ sample.t <= cutoff
<1> DEFINE all == Append(old, sample)
           cutoff == now - HistoryWindow
           new == Cleaned(all, cutoff)
<1>1. cutoff \in Int
  BY HistoryConstantsOK
<1>2. /\ all \in Seq(Point) /\ all # <<>> /\ Len(all) = Len(old) + 1 /\ Len(old) \in Nat
      /\ \A i \in 1 .. Len(old) : all[i] = old[i]
      /\ all[Len(old) + 1] = sample
  BY AppendProperties, LenProperties
<1> HIDE DEF all, cutoff
<1>3. /\ new \in Seq(Point)
      /\ \E o \in 0 .. Len(all) - 1 :
           /\ Len(new) = Len(all) - o
           /\ \A i \in 1 .. Len(new) : new[i] = all[o + i]
           /\ \A i \in 1 .. o : all[i].t <= cutoff
           /\ new[1].t > cutoff \/ \A i \in 1 .. Len(all) : all[i].t <= cutoff
  BY <1>1, <1>2, CleanedIsAnEnd
<1> HIDE DEF new
<1>4. PICK o \in 0 .. Len(old) :
           /\ Len(new) = Len(old) + 1 - o
           /\ \A i \in 1 .. Len(new) : new[i] = all[o + i]
           /\ \A i \in 1 .. o : all[i].t <= cutoff
           /\ new[1].t > cutoff \/ \A i \in 1 .. Len(all) : all[i].t <= cutoff
  BY <1>2, <1>3
<1>5. Ends(new, old, sample)
  <2>1. ASSUME NEW i \in 1 .. Len(new)
        PROVE  new[i] = IF o + i <= Len(old) THEN old[o + i] ELSE sample
    <3>1. new[i] = all[o + i] /\ o + i \in 1 .. Len(old) + 1
      BY <1>2, <1>4
    <3> QED BY <1>2, <3>1
  <2> QED BY <1>3, <1>4, <2>1 DEF Ends
<1>6. ASSUME NEW i \in 1 .. Len(old), old[i].t > cutoff
      PROVE  \E j \in 1 .. Len(new) : new[j] = old[i]
  <2>0. old[i] \in Point
    BY ElementOfSeq
  <2>1. old[i].t \in Nat
    BY <2>0 DEF Point
  <2>2. i > o
    <3> SUFFICES ASSUME i \in 1 .. o PROVE FALSE
      BY <1>2, <1>4
    <3>1. old[i].t <= cutoff
      BY <1>2, <1>4
    <3> QED BY <1>1, <1>6, <2>1, <3>1
  <2>3. i - o \in 1 .. Len(new) /\ o + (i - o) = i
    BY <1>2, <1>4, <2>2
  <2>4. new[i - o] = old[i]
    BY <1>2, <1>4, <2>3
  <2> QED BY <2>3, <2>4
<1>7. new[1].t > cutoff \/ sample.t <= cutoff
  BY <1>2, <1>4
<1> QED BY <1>5, <1>6, <1>7 DEF addIOStats, new, all, cutoff

\* AddMetricPoint keeps an end of the points, no longer than it may be.
LEMMA PointAtTheEnd ==
    ASSUME NEW old \in Seq(Point), NEW t \in Nat, NEW v \in Nat
    PROVE  LET new == AddMetricPoint(old, t, v)
           IN  Ends(new, old, [t |-> t, v |-> v]) /\ Len(new) <= MaxPoints /\ Len(new) >= 1
<1> DEFINE sample == [t |-> t, v |-> v]
           all == Append(old, sample)
           new == AddMetricPoint(old, t, v)
<1>1. sample \in Point
  BY DEF Point
<1> HIDE DEF sample
<1>2. /\ all \in Seq(Point) /\ Len(all) = Len(old) + 1 /\ Len(old) \in Nat
      /\ \A i \in 1 .. Len(old) : all[i] = old[i]
      /\ all[Len(old) + 1] = sample
      /\ \A i \in 1 .. Len(all) : all[i] \in Point
  BY <1>1, AppendProperties, LenProperties, ElementOfSeq
<1> HIDE DEF all
<1>3. CASE Len(all) > MaxPoints
  <2> DEFINE o == Len(all) - MaxPoints
  <2>1. new = SubSeq(all, o + 1, Len(all))
    BY <1>3 DEF AddMetricPoint, all, sample
  <2>2. o \in Nat /\ o >= 1 /\ o + 1 \in Int /\ o + 1 <= Len(all) /\ Len(all) \in Int /\ o <= Len(old)
    BY <1>2, <1>3, MaxPointsOK
  <2>3. /\ new \in Seq(Point) /\ Len(new) = Len(all) - (o + 1) + 1
        /\ \A i \in 1 .. Len(all) - (o + 1) + 1 : new[i] = all[(o + 1) + i - 1]
    <3>1. \A i \in o + 1 .. Len(all) : all[i] \in Point
      BY <1>2, <2>2
    <3> HIDE DEF o, new
    <3> QED BY <2>1, <2>2, <3>1, SubSeqProperties
  <2> HIDE DEF new
  <2>4. Len(new) = MaxPoints /\ Len(new) = Len(old) + 1 - o
    BY <1>2, <2>3, MaxPointsOK
  <2>6. o \in 0 .. Len(old) /\ Len(all) = MaxPoints + o
    BY <1>2, <2>2, MaxPointsOK
  <2> HIDE DEF o
  <2>5. ASSUME NEW i \in 1 .. Len(new)
        PROVE  new[i] = IF o + i <= Len(old) THEN old[o + i] ELSE sample
    <3>1. i \in 1 .. Len(all) - (o + 1) + 1 /\ (o + 1) + i - 1 = o + i /\ o + i \in 1 .. Len(old) + 1
      BY <1>2, <2>4, <2>6, MaxPointsOK
    <3>2. new[i] = all[o + i]
      BY <2>3, <3>1
    <3> QED BY <1>2, <3>1, <3>2
  <2>7. Ends(new, old, sample)
    BY <2>3, <2>4, <2>5, <2>6 DEF Ends
  <2>8. Len(new) <= MaxPoints /\ Len(new) >= 1
    BY <2>4, MaxPointsOK
  <2> QED BY <2>7, <2>8 DEF new, sample
<1>4. CASE Len(all) <= MaxPoints
  <2>1. new = all
    BY <1>2, <1>4, MaxPointsOK DEF AddMetricPoint, all, sample
  <2>2. \A i \in 1 .. Len(all) : all[i] = IF 0 + i <= Len(old) THEN old[0 + i] ELSE sample
    BY <1>2
  <2>3. Len(all) = Len(old) + 1 - 0 /\ 0 \in 0 .. Len(old)
    BY <1>2
  <2> HIDE DEF new
  <2> QED BY <1>2, <1>4, <2>1, <2>2, <2>3 DEF Ends, new, sample
<1> QED BY <1>2, <1>3, <1>4, MaxPointsOK

----
(***************************************************************************)
(* The inductive invariant.                                                *)
(***************************************************************************)

\* Over the units from + 1 .. to of the log l, rises of d are not too steep.
AtMost(l, from, to, d) ==
    \A m \in Nat : (\A k \in from + 1 .. to : l[k] <= m) => d <= m * (to - from)

\* They are not too flat.
AtLeast(l, from, to, d) ==
    \A m \in Nat : (\A k \in from + 1 .. to : m <= l[k]) => m * (to - from) <= d

\* The readings in stats are in order of time, none is later than n, and between
\* any two of them, and from any of them to the counter val at n, the counter rose
\* as the log says; at least that only for readings after since.
Tracks(l, n, val, stats, since) ==
    /\ \A i \in DOMAIN stats :
         /\ stats[i].t <= n
         /\ AtMost(l, stats[i].t, n, val - stats[i].v)
         /\ since < stats[i].t => AtLeast(l, stats[i].t, n, val - stats[i].v)
    /\ \A i, j \in DOMAIN stats : i < j =>
         /\ stats[i].t <= stats[j].t
         /\ AtMost(l, stats[i].t, stats[j].t, stats[j].v - stats[i].v)
         /\ since < stats[i].t => AtLeast(l, stats[i].t, stats[j].t, stats[j].v - stats[i].v)

\* A counter starts from zero with its container: what was read before is above it.
Since(c) == IF restarted[c] = 0 THEN -1 ELSE restarted[c]

Clock ==
    \A c \in Containers :
      /\ Len(log[c]) = now
      /\ restarted[c] <= now
      /\ now = 0 => counter[c] = 0

\* What is filed by the name of c and what may be filed next.
Summary(c) == Append(byName[nameOf[c]], reading[c])

Readings ==
    \A c \in Containers :
      /\ SoleName(c) => Tracks(log[c], now, counter[c], Summary(c), Since(c))
      /\ Tracks(log[c], now, counter[c], points[c], -1)

\* Every rate lies between any two bounds of the load of its window.
RateOK(l, n, sample) ==
    LET from == IF sample.t > RateWindow THEN sample.t - RateWindow ELSE 0 IN
    /\ 0 < RateWindow /\ 0 < sample.t /\ sample.t <= n
    /\ \A m \in Nat : (\A k \in from + 1 .. sample.t : l[k] <= m) => sample.v <= m
    /\ \A m \in Nat : (\A k \in from + 1 .. sample.t : m <= l[k]) => m <= sample.v

Rates == \A c \in Containers : \A i \in DOMAIN byId[c] : RateOK(log[c], now, byId[c][i])

\* What is filed by the id was read, and computed, since the container started.
Younger ==
    \A c \in Containers :
      /\ \A i \in DOMAIN points[c] : restarted[c] <= points[c][i].t
      /\ \A i \in DOMAIN byId[c] : restarted[c] < byId[c][i].t

IOInv == TypeOK /\ Clock /\ Readings /\ Rates /\ Younger /\ ExpiredDropped

----
(***************************************************************************)
(* What keeps readings and log in step.                                    *)
(***************************************************************************)
\* Ends, sample by sample: each is one of the old, o places on, or is the one added.
EndsFrom(o, new, old, sample) ==
    \A i \in 1 .. Len(new) :
      \/ o + i \in 1 .. Len(old) /\ new[i] = old[o + i]
      \/ i = Len(new) /\ new[i] = sample

LEMMA EndsAt ==
    ASSUME NEW old \in Seq(Point), NEW new, NEW sample, Ends(new, old, sample)
    PROVE  \E o \in 0 .. Len(old) : EndsFrom(o, new, old, sample)
<1>0. Len(old) \in Nat
  BY LenProperties
<1>1. PICK o \in 0 .. Len(old) :
         /\ Len(new) = Len(old) + 1 - o
         /\ \A i \in 1 .. Len(new) : new[i] = IF o + i <= Len(old) THEN old[o + i] ELSE sample
  BY DEF Ends
<1>2. ASSUME NEW i \in 1 .. Len(new)
      PROVE  \/ o + i \in 1 .. Len(old) /\ new[i] = old[o + i]
             \/ i = Len(new) /\ new[i] = sample
  <2>1. CASE o + i <= Len(old)
    <3>1. new[i] = old[o + i]
      BY <1>1, <2>1
    <3>2. o + i \in 1 .. Len(old)
      BY <1>0, <1>1, <2>1
    <3> QED BY <3>1, <3>2
  <2>2. CASE ~(o + i <= Len(old))
    <3>1. new[i] = sample
      BY <1>1, <2>2
    <3>2. i = Len(new)
      BY <1>0, <1>1, <2>2
    <3> QED BY <3>1, <3>2
  <2> QED BY <2>1, <2>2
<1> QED BY <1>2 DEF EndsFrom

LEMMA OneMoreUnit ==
    ASSUME NEW l \in Seq(Nat), NEW x \in Nat, NEW from \in 0 .. Len(l), NEW d \in Int
    PROVE  /\ AtMost(l, from, Len(l), d) => AtMost(Append(l, x), from, Len(l) + 1, d + x)
           /\ AtLeast(l, from, Len(l), d) => AtLeast(Append(l, x), from, Len(l) + 1, d + x)
<1> DEFINE n == Len(l)
           ll == Append(l, x)
<1>1. n \in Nat /\ ll[n + 1] = x /\ \A k \in 1 .. n : ll[k] = l[k]
  BY AppendProperties, LenProperties
<1>2. \A k \in from + 1 .. n : k \in from + 1 .. n + 1 /\ ll[k] = l[k]
  BY <1>1
<1>3. n + 1 \in from + 1 .. n + 1
  BY <1>1
<1> HIDE DEF n, ll
<1>4. \A m \in Nat : m * ((n + 1) - from) = m * (n - from) + m /\ m * (n - from) \in Int
  BY <1>1
<1>5. ASSUME AtMost(l, from, n, d) PROVE AtMost(ll, from, n + 1, d + x)
  <2> SUFFICES ASSUME NEW m \in Nat, \A k \in from + 1 .. n + 1 : ll[k] <= m
               PROVE  d + x <= m * ((n + 1) - from)
    BY Zenon DEF AtMost
  <2>1. d <= m * (n - from)
    BY <1>2, <1>5 DEF AtMost
  <2>2. x <= m
    BY <1>1, <1>3
  <2> QED BY <1>4, <2>1, <2>2
<1>6. ASSUME AtLeast(l, from, n, d) PROVE AtLeast(ll, from, n + 1, d + x)
  <2> SUFFICES ASSUME NEW m \in Nat, \A k \in from + 1 .. n + 1 : m <= ll[k]
               PROVE  m * ((n + 1) - from) <= d + x
    BY Zenon DEF AtLeast
  <2>1. m * (n - from) <= d
    BY <1>2, <1>6 DEF AtLeast
  <2>2. m <= x
    BY <1>1, <1>3
  <2> QED BY <1>4, <2>1, <2>2
<1> QED BY <1>5, <1>6 DEF n, ll

LEMMA PastIsPast ==
    ASSUME NEW l \in Seq(Nat), NEW x \in Nat, NEW from \in Nat, NEW to \in 0 .. Len(l), NEW d \in Int
    PROVE  /\ AtMost(l, from, to, d) => AtMost(Append(l, x), from, to, d)
           /\ AtLeast(l, from, to, d) => AtLeast(Append(l, x), from, to, d)
<1>1. \A k \in 1 .. Len(l) : Append(l, x)[k] = l[k]
  BY AppendProperties
<1>2. \A k \in from + 1 .. to : Append(l, x)[k] = l[k]
  <2>1. Len(l) \in Nat
    BY LenProperties
  <2> QED BY <1>1, <2>1
<1> QED BY <1>2 DEF AtMost, AtLeast

LEMMA NoTime ==
    ASSUME NEW l, NEW n \in Nat
    PROVE  AtMost(l, n, n, 0) /\ AtLeast(l, n, n, 0)
BY DEF AtMost, AtLeast

LEMMA StatsTyped ==
    ASSUME NEW stats \in Seq(Point)
    PROVE  /\ Len(stats) \in Nat /\ DOMAIN stats = 1 .. Len(stats)
           /\ \A i \in DOMAIN stats : stats[i] \in Point /\ stats[i].t \in Nat /\ stats[i].v \in Nat
<1>1. Len(stats) \in Nat /\ DOMAIN stats = 1 .. Len(stats)
  BY LenProperties
<1>2. \A i \in DOMAIN stats : stats[i] \in Point
  BY <1>1, ElementOfSeq
<1> QED BY <1>1, <1>2 DEF Point

\* Time passes: the counter rises by the load, which the log records.
LEMMA TracksTime ==
    ASSUME NEW l \in Seq(Nat), NEW val \in Nat, NEW stats \in Seq(Point), NEW since \in Int, NEW x \in Nat,
           Tracks(l, Len(l), val, stats, since)
    PROVE  Tracks(Append(l, x), Len(l) + 1, val + x, stats, since)
<1> DEFINE n == Len(l)
<1>0. n \in Nat
  BY LenProperties
<1>1. ASSUME NEW i \in DOMAIN stats
      PROVE  /\ stats[i].t <= n + 1
             /\ AtMost(Append(l, x), stats[i].t, n + 1, (val + x) - stats[i].v)
             /\ since < stats[i].t => AtLeast(Append(l, x), stats[i].t, n + 1, (val + x) - stats[i].v)
  <2>1. /\ stats[i].t <= n /\ AtMost(l, stats[i].t, n, val - stats[i].v)
        /\ since < stats[i].t => AtLeast(l, stats[i].t, n, val - stats[i].v)
    BY DEF Tracks
  <2>2. /\ stats[i].t \in 0 .. n /\ val - stats[i].v \in Int
        /\ val - stats[i].v + x = (val + x) - stats[i].v
    BY <1>0, <2>1, StatsTyped
  <2>3. /\ AtMost(Append(l, x), stats[i].t, n + 1, (val - stats[i].v) + x)
        /\ since < stats[i].t => AtLeast(Append(l, x), stats[i].t, n + 1, (val - stats[i].v) + x)
    <3>1. \A from \in 0 .. n, d \in Int :
            /\ AtMost(l, from, n, d) => AtMost(Append(l, x), from, n + 1, d + x)
            /\ AtLeast(l, from, n, d) => AtLeast(Append(l, x), from, n + 1, d + x)
      BY OneMoreUnit
    <3> HIDE DEF n
    <3> QED BY <2>1, <2>2, <3>1, Zenon
  <2>4. (val - stats[i].v) + x = (val + x) - stats[i].v /\ stats[i].t <= n + 1
    <3> HIDE DEF n
    <3> QED BY <1>0, <2>2
  <2> QED BY <2>3, <2>4, Zenon
<1>2. ASSUME NEW i \in DOMAIN stats, NEW j \in DOMAIN stats, i < j
      PROVE  /\ stats[i].t <= stats[j].t
             /\ AtMost(Append(l, x), stats[i].t, stats[j].t, stats[j].v - stats[i].v)
             /\ since < stats[i].t
                => AtLeast(Append(l, x), stats[i].t, stats[j].t, stats[j].v - stats[i].v)
  <2>1. /\ stats[i].t <= stats[j].t /\ stats[j].t <= n
        /\ AtMost(l, stats[i].t, stats[j].t, stats[j].v - stats[i].v)
        /\ since < stats[i].t => AtLeast(l, stats[i].t, stats[j].t, stats[j].v - stats[i].v)
    BY <1>2 DEF Tracks
  <2>2. stats[i].t \in Nat /\ stats[j].t \in 0 .. n /\ stats[j].v - stats[i].v \in Int
    BY <1>0, <2>1, StatsTyped
  <2> QED BY <2>1, <2>2, PastIsPast
<1> QED BY <1>1, <1>2, Zenon DEF Tracks

\* A new reading of the counter, or the last one again.
LEMMA TracksReading ==
    ASSUME NEW l \in Seq(Nat), NEW val \in Nat, NEW stats \in Seq(Point), NEW since \in Int, NEW new,
           Tracks(l, Len(l), val, stats, since), NEW sample \in Point, Ends(new, stats, sample),
           \/ sample = [t |-> Len(l), v |-> val]
           \/ stats # <<>> /\ sample = stats[Len(stats)]
    PROVE  Tracks(l, Len(l), val, new, since)
<1>1. PICK o \in 0 .. Len(stats) : EndsFrom(o, new, stats, sample)
  BY EndsAt
<1>2. \A i \in 1 .. Len(new) : new[i] = sample \/ \E a \in 1 .. Len(stats) : new[i] = stats[a]
  BY <1>1 DEF EndsFrom
<1>3. ASSUME NEW i \in 1 .. Len(new), NEW j \in 1 .. Len(new), i < j
      PROVE  \E a \in 1 .. Len(stats) :
                /\ new[i] = stats[a]
                /\ new[j] = sample \/ \E b \in 1 .. Len(stats) : a < b /\ new[j] = stats[b]
  <2>1. i # Len(new)
    BY <1>3
  <2>2. o + i \in 1 .. Len(stats) /\ new[i] = stats[o + i]
    BY <1>1, <2>1 DEF EndsFrom
  <2>3. new[j] = sample \/ (o + j \in 1 .. Len(stats) /\ o + i < o + j /\ new[j] = stats[o + j])
    BY <1>3, <1>1 DEF EndsFrom
  <2> QED BY <2>2, <2>3
<1> DEFINE n == Len(l)
           FromTo(a, b) ==
             /\ a.t <= b.t /\ AtMost(l, a.t, b.t, b.v - a.v)
             /\ since < a.t => AtLeast(l, a.t, b.t, b.v - a.v)
           ToNow(a) ==
             /\ a.t <= n /\ AtMost(l, a.t, n, val - a.v)
             /\ since < a.t => AtLeast(l, a.t, n, val - a.v)
<1>4. n \in Nat /\ new \in Seq(Point) /\ DOMAIN new = 1 .. Len(new) /\ DOMAIN stats = 1 .. Len(stats)
  BY LenProperties DEF Ends
<1>5. \A a \in 1 .. Len(stats) : ToNow(stats[a])
  BY <1>4 DEF Tracks
<1>6. \A a, b \in 1 .. Len(stats) : a < b => FromTo(stats[a], stats[b])
  BY <1>4 DEF Tracks
<1>7. \A a \in Point : FromTo(a, a)
  <2> TAKE a \in Point
  <2>1. a.t \in Nat /\ a.v - a.v = 0 /\ a.t <= a.t
    BY DEF Point
  <2> QED BY <2>1, NoTime
<1>8. CASE sample = [t |-> n, v |-> val]
  <2>1. sample.t = n /\ sample.v = val /\ val - val = 0 /\ n <= n
    BY <1>4, <1>8
  <2>2. ToNow(sample)
    BY <1>4, <2>1, NoTime
  <2>3. \A a \in 1 .. Len(stats) : FromTo(stats[a], sample)
    BY <1>5, <2>1
  <2> HIDE DEF ToNow, FromTo
  <2>4. /\ \A i \in 1 .. Len(new) : ToNow(new[i])
        /\ \A i, j \in 1 .. Len(new) : i < j => FromTo(new[i], new[j])
    BY <1>5, <1>6, <1>2, <1>3, <2>2, <2>3
  <2> QED BY <1>4, <2>4, Zenon DEF Tracks, ToNow, FromTo
<1>9. CASE stats # <<>> /\ sample = stats[Len(stats)]
  <2>1. Len(stats) \in 1 .. Len(stats) /\ Len(stats) \in Nat
    BY <1>9, EmptySeq
  <2>2. ToNow(sample)
    BY <1>5, <1>9, <2>1
  <2>3. ASSUME NEW a \in 1 .. Len(stats) PROVE FromTo(stats[a], sample)
    <3>1. CASE a = Len(stats)
      BY <1>7, <1>9, <3>1
    <3>2. CASE a # Len(stats)
      <4>1. a < Len(stats)
        BY <2>1, <3>2
      <4> QED BY <1>6, <1>9, <2>1, <4>1
    <3> QED BY <3>1, <3>2
  <2> HIDE DEF ToNow, FromTo
  <2>4. /\ \A i \in 1 .. Len(new) : ToNow(new[i])
        /\ \A i, j \in 1 .. Len(new) : i < j => FromTo(new[i], new[j])
    BY <1>5, <1>6, <1>2, <1>3, <2>2, <2>3
  <2> QED BY <1>4, <2>4, Zenon DEF Tracks, ToNow, FromTo
<1> QED BY <1>8, <1>9

\* A restart: what was read before says nothing against a smaller counter.
LEMMA TracksRestart ==
    ASSUME NEW l \in Seq(Nat), NEW val \in Nat, NEW stats \in Seq(Point), NEW since \in Int,
           Tracks(l, Len(l), val, stats, since)
    PROVE  Tracks(l, Len(l), 0, stats, Len(l))
<1>0. Len(l) \in Nat
  BY LenProperties
<1>1. ASSUME NEW i \in DOMAIN stats
      PROVE  stats[i].t <= Len(l) /\ AtMost(l, stats[i].t, Len(l), 0 - stats[i].v) /\ ~(Len(l) < stats[i].t)
  <2>1. stats[i].t <= Len(l) /\ AtMost(l, stats[i].t, Len(l), val - stats[i].v)
    BY DEF Tracks
  <2>2. stats[i].t \in Nat /\ stats[i].v \in Nat /\ 0 - stats[i].v <= val - stats[i].v
    BY StatsTyped
  <2>3. ASSUME NEW m \in Nat, \A k \in stats[i].t + 1 .. Len(l) : l[k] <= m
        PROVE  0 - stats[i].v <= m * (Len(l) - stats[i].t)
    <3>1. val - stats[i].v <= m * (Len(l) - stats[i].t)
      BY <2>1, <2>3 DEF AtMost
    <3>2. m * (Len(l) - stats[i].t) \in Int
      BY <1>0, <2>2
    <3> QED BY <2>2, <3>1, <3>2
  <2>4. AtMost(l, stats[i].t, Len(l), 0 - stats[i].v)
    BY <2>3, Zenon DEF AtMost
  <2>5. ~(Len(l) < stats[i].t)
    BY <1>0, <2>1, <2>2
  <2> QED BY <2>1, <2>4, <2>5
<1> QED BY <1>1 DEF Tracks

\* A sequence tracks if it does so with a reading more.
LEMMA TracksShorter ==
    ASSUME NEW l, NEW n, NEW val, NEW since, NEW stats \in Seq(Point), NEW sample \in Point,
           Tracks(l, n, val, Append(stats, sample), since)
    PROVE  Tracks(l, n, val, stats, since)
<1> DEFINE all == Append(stats, sample)
<1>1. /\ DOMAIN stats \subseteq DOMAIN all
      /\ \A i \in DOMAIN stats : all[i] = stats[i]
  <2>1. /\ Len(stats) \in Nat /\ Len(all) = Len(stats) + 1 /\ all \in Seq(Point)
        /\ \A i \in 1 .. Len(stats) : all[i] = stats[i]
    BY AppendProperties, LenProperties
  <2>2. DOMAIN stats = 1 .. Len(stats) /\ DOMAIN all = 1 .. Len(all)
    BY <2>1, StatsTyped
  <2> QED BY <2>1, <2>2
<1>2. Tracks(l, n, val, all, since)
  OBVIOUS
<1> HIDE DEF all
<1> QED BY <1>1, <1>2 DEF Tracks

\* Steps are later than the reading before, so every slope is a number.
LEMMA StepsTyped ==
    ASSUME NEW stats \in Seq(Point), NEW cutoff \in Int
    PROVE  /\ Steps(stats, cutoff) \in SUBSET (1 .. Len(stats))
           /\ \A i \in Steps(stats, cutoff) :
                /\ i - 1 \in 1 .. Len(stats) /\ i \in 1 .. Len(stats)
                /\ stats[i - 1].t < stats[i].t /\ cutoff < stats[i].t
                /\ stats[i].t - stats[i - 1].t \in Nat \ {0}
                /\ stats[i].v - stats[i - 1].v \in Int
                /\ Slope(stats, i) \in Int
<1>1. Len(stats) \in Nat /\ \A i \in 1 .. Len(stats) : stats[i].t \in Nat /\ stats[i].v \in Nat
  BY StatsTyped
<1>2. ASSUME NEW i \in Steps(stats, cutoff)
      PROVE  /\ i - 1 \in 1 .. Len(stats) /\ i \in 1 .. Len(stats)
             /\ stats[i - 1].t < stats[i].t /\ cutoff < stats[i].t
             /\ stats[i].t - stats[i - 1].t \in Nat \ {0}
             /\ stats[i].v - stats[i - 1].v \in Int
             /\ Slope(stats, i) \in Int
  <2>1. i \in 2 .. Len(stats) /\ stats[i].t > cutoff /\ stats[i].t > stats[i - 1].t
    BY DEF Steps
  <2>2. i - 1 \in 1 .. Len(stats) /\ i \in 1 .. Len(stats)
    BY <1>1, <2>1
  <2>3. /\ stats[i].t \in Nat /\ stats[i - 1].t \in Nat
        /\ stats[i].v \in Nat /\ stats[i - 1].v \in Nat
    BY <1>1, <2>2
  <2>4. stats[i].t - stats[i - 1].t \in Nat \ {0} /\ stats[i].v - stats[i - 1].v \in Int
    BY <2>1, <2>3
  <2>5. Slope(stats, i) \in Int
    BY <2>4, TruncatedWithin DEF Slope
  <2>6. stats[i - 1].t < stats[i].t /\ cutoff < stats[i].t
    BY <2>1, <2>3
  <2> QED BY <2>2, <2>4, <2>5, <2>6
<1> QED BY <1>1, <1>2

\* What is true of every slope of a window is true of their sum.
LEMMA TotalWithin ==
    ASSUME NEW stats \in Seq(Point), NEW cutoff \in Int, NEW m \in Nat
    PROVE  LET steps == Steps(stats, cutoff) IN
           /\ (\A i \in steps : Slope(stats, i) <= m) => Total(stats, cutoff) <= m * Cardinality(steps)
           /\ (\A i \in steps : m <= Slope(stats, i)) => m * Cardinality(steps) <= Total(stats, cutoff)
<1> DEFINE steps == Steps(stats, cutoff)
           n == Len(stats)
           g == [i \in 1 .. n |-> IF i \in steps THEN Slope(stats, i) ELSE 0]
           Sum(f) == f = [i \in 0 .. n |-> IF i = 0 THEN 0 ELSE f[i - 1] + g[i]]
           Partial(f) == f = [i \in 0 .. n |-> IF i = 0 THEN 0
                                ELSE f[i - 1] + (IF i \in steps THEN Slope(stats, i) ELSE 0)]
           total == CHOOSE f : Partial(f)
<1>1. n \in Nat /\ steps \in SUBSET (1 .. n) /\ g \in [1 .. n -> Int]
  BY StatsTyped, StepsTyped
<1>2. /\ \A i \in (1 .. n) \ steps : g[i] = 0
      /\ \A i \in steps : g[i] = Slope(stats, i)
  BY <1>1
<1>3. \A f : Sum(f) <=> Partial(f)
  OBVIOUS
<1>4. Total(stats, cutoff) = total[n]
  BY DEF Total
<1> HIDE DEF steps, n, g
<1>5. \E f : Sum(f)
  BY <1>1, SumExists
<1> HIDE DEF Sum, Partial
<1>6. Sum(total)
  BY <1>3, <1>5
<1> HIDE DEF total
<1>7. total = [i \in 0 .. n |-> IF i = 0 THEN 0 ELSE total[i - 1] + g[i]]
  BY <1>6 DEF Sum
<1>8. /\ (\A i \in steps : g[i] <= m) => total[n] <= m * Cardinality(steps)
      /\ (\A i \in steps : m <= g[i]) => m * Cardinality(steps) <= total[n]
  BY <1>1, <1>2, <1>7, SumWithin
<1>9. /\ (\A i \in steps : Slope(stats, i) <= m) => total[n] <= m * Cardinality(steps)
      /\ (\A i \in steps : m <= Slope(stats, i)) => m * Cardinality(steps) <= total[n]
  BY <1>2, <1>8, Zenon
<1> QED BY <1>4, <1>9, Zenon DEF steps

LEMMA LastIsSample ==
    ASSUME NEW old \in Seq(Point), NEW new, NEW sample, Ends(new, old, sample)
    PROVE  Len(new) \in Nat \ {0} /\ new[Len(new)] = sample /\ new # <<>>
<1>0. Len(old) \in Nat
  BY LenProperties
<1>1. PICK o \in 0 .. Len(old) :
         /\ Len(new) = Len(old) + 1 - o
         /\ \A i \in 1 .. Len(new) : new[i] = IF o + i <= Len(old) THEN old[o + i] ELSE sample
  BY DEF Ends
<1>2. Len(new) \in 1 .. Len(new) /\ Len(new) \in Nat \ {0} /\ ~(o + Len(new) <= Len(old))
  BY <1>0, <1>1
<1>3. new # <<>>
  BY <1>2
<1> QED BY <1>1, <1>2, <1>3

LEMMA EndsAppended ==
    ASSUME NEW old \in Seq(Point), NEW sample \in Point
    PROVE  Ends(Append(old, sample), old, sample)
<1> DEFINE new == Append(old, sample)
<1>1. /\ Len(old) \in Nat /\ new \in Seq(Point) /\ Len(new) = Len(old) + 1
      /\ \A i \in 1 .. Len(old) : new[i] = old[i]
      /\ new[Len(old) + 1] = sample
  BY AppendProperties, LenProperties
<1> HIDE DEF new
<1>2. 0 \in 0 .. Len(old) /\ Len(new) = Len(old) + 1 - 0
  BY <1>1
<1>3. \A i \in 1 .. Len(new) : new[i] = IF 0 + i <= Len(old) THEN old[0 + i] ELSE sample
  BY <1>1
<1> QED BY <1>1, <1>2, <1>3 DEF Ends, new

\* An end of old and a sample, and the sample once more.
LEMMA EndsTwice ==
    ASSUME NEW old \in Seq(Point), NEW sample \in Point, NEW new, Ends(new, old, sample)
    PROVE  Ends(Append(new, sample), Append(old, sample), sample)
<1> DEFINE longer == Append(new, sample)
           all == Append(old, sample)
<1>1. /\ Len(old) \in Nat /\ all \in Seq(Point) /\ Len(all) = Len(old) + 1
      /\ \A i \in 1 .. Len(old) : all[i] = old[i]
      /\ all[Len(old) + 1] = sample
  BY AppendProperties, LenProperties
<1>2. new \in Seq(Point)
  BY DEF Ends
<1>3. /\ Len(new) \in Nat /\ longer \in Seq(Point) /\ Len(longer) = Len(new) + 1
      /\ \A i \in 1 .. Len(new) : longer[i] = new[i]
      /\ longer[Len(new) + 1] = sample
  BY <1>2, AppendProperties, LenProperties
<1>4. PICK o \in 0 .. Len(old) :
         /\ Len(new) = Len(old) + 1 - o
         /\ \A i \in 1 .. Len(new) : new[i] = IF o + i <= Len(old) THEN old[o + i] ELSE sample
  BY DEF Ends
<1> HIDE DEF longer, all
<1>5. o \in 0 .. Len(all) /\ Len(longer) = Len(all) + 1 - o
  BY <1>1, <1>3, <1>4
<1>6. ASSUME NEW i \in 1 .. Len(longer)
      PROVE  longer[i] = IF o + i <= Len(all) THEN all[o + i] ELSE sample
  <2>1. CASE i \in 1 .. Len(new)
    <3>1. longer[i] = IF o + i <= Len(old) THEN old[o + i] ELSE sample
      BY <1>3, <1>4, <2>1
    <3>2. o + i \in 1 .. Len(old) + 1
      BY <1>1, <1>3, <1>4, <2>1
    <3> QED BY <1>1, <3>1, <3>2
  <2>2. CASE i = Len(new) + 1
    BY <1>1, <1>3, <1>4, <2>2
  <2> QED BY <1>3, <2>1, <2>2
<1> QED BY <1>3, <1>5, <1>6 DEF Ends, longer, all

LEMMA NoReadings ==
    ASSUME NEW l, NEW n, NEW val, NEW since
    PROVE  <<>> \in Seq(Point) /\ Len(<<>>) = 0 /\ DOMAIN <<>> = {} /\ Tracks(l, n, val, <<>>, since)
<1>1. <<>> \in Seq(Point) /\ Len(<<>>) = 0
  OBVIOUS
<1>2. DOMAIN <<>> = {}
  OBVIOUS
<1> QED BY <1>1, <1>2 DEF Tracks

\* The rate of a window is worth what its readings are.
LEMMA RateOfReadings ==
    ASSUME NEW l \in Seq(Nat), NEW val \in Nat, NEW stats \in Seq(Point),
           Tracks(l, Len(l), val, stats, -1), HasRate(stats, Len(l) - RateWindow)
    PROVE  LET sample == [t |-> Len(l), v |-> CalculateIORate(stats, Len(l) - RateWindow)]
           IN  sample \in Point /\ RateOK(l, Len(l), sample)
<1> DEFINE n == Len(l)
           window == Window(stats, n - RateWindow)
           i == Min(window)
           j == Max(window)
           b == stats[j].t - stats[i].t
           d == stats[j].v - stats[i].v
           from == IF n > RateWindow THEN n - RateWindow ELSE 0
           rate == CalculateIORate(stats, n - RateWindow)
<1>1. n \in Nat /\ RateWindow \in Nat
  BY LenProperties, HistoryConstantsOK
<1>2. /\ Len(stats) \in Nat /\ DOMAIN stats = 1 .. Len(stats)
      /\ \A k \in DOMAIN stats : stats[k].t \in Nat /\ stats[k].v \in Nat
  BY StatsTyped
<1>3. window # {} /\ stats[j].t > stats[i].t /\ rate = Truncated(d, b)
  BY DEF HasRate, CalculateIORate
<1>4. window \in SUBSET Nat /\ \A k \in window : k <= Len(stats)
  BY <1>2 DEF Window
<1>5. i \in window /\ j \in window /\ i <= j
  <2> HIDE DEF window
  <2>1. i \in window /\ \A y \in window : i <= y
    BY <1>3, <1>4, MinOfNumbers
  <2>2. j \in window /\ \A y \in window : y <= j
    BY <1>2, <1>3, <1>4, MaxOfNumbers
  <2> QED BY <2>1, <2>2
<1>6. /\ i \in DOMAIN stats /\ j \in DOMAIN stats
      /\ stats[i].t > n - RateWindow
  BY <1>5 DEF Window
<1> HIDE DEF window, i, j
<1>7. i < j /\ i \in Nat /\ j \in Nat
  BY <1>2, <1>3, <1>5, <1>6
<1>8. /\ stats[i].t \in Nat /\ stats[j].t \in Nat /\ d \in Int /\ b \in Nat \ {0}
      /\ stats[j].t <= n /\ -1 < stats[i].t
  <2>1. /\ stats[i].t \in Nat /\ stats[j].t \in Nat
        /\ stats[i].v \in Nat /\ stats[j].v \in Nat
    BY <1>2, <1>6
  <2>2. stats[j].t <= n
    BY <1>6 DEF Tracks
  <2>3. \A x, y \in Nat : x - y \in Int /\ -1 < y /\ (x > y => x - y \in Nat \ {0})
    OBVIOUS
  <2> QED BY <1>3, <2>1, <2>2, <2>3
<1>9. AtMost(l, stats[i].t, stats[j].t, d) /\ AtLeast(l, stats[i].t, stats[j].t, d)
  BY <1>6, <1>7, <1>8 DEF Tracks
<1>10. /\ from \in Nat /\ from <= stats[i].t
       /\ \A k \in stats[i].t + 1 .. stats[j].t : k \in from + 1 .. n
       /\ 0 < RateWindow /\ 0 < n
  <2> HIDE DEF n
  <2>1. from \in Nat /\ from <= stats[i].t
    BY <1>1, <1>6, <1>8
  <2> HIDE DEF from
  <2>2. \A k \in stats[i].t + 1 .. stats[j].t : k \in from + 1 .. n
    <3>1. \A x, y \in Nat : from <= x /\ y <= n => \A k \in x + 1 .. y : k \in from + 1 .. n
      BY <1>1, <2>1
    <3> QED BY <1>8, <2>1, <3>1
  <2>3. 0 < RateWindow /\ 0 < n
    BY <1>1, <1>3, <1>6, <1>8
  <2> QED BY <2>1, <2>2, <2>3
<1>11. ASSUME NEW m \in Nat, \A k \in from + 1 .. n : l[k] <= m PROVE rate <= m
  <2>1. d <= m * b
    BY <1>9, <1>10, <1>11 DEF AtMost
  <2> HIDE DEF d, b
  <2> QED BY <1>3, <1>8, <2>1, TruncatedWithin
<1>12. ASSUME NEW m \in Nat, \A k \in from + 1 .. n : m <= l[k] PROVE m <= rate
  <2>1. m * b <= d
    BY <1>9, <1>10, <1>12 DEF AtLeast
  <2> HIDE DEF d, b
  <2>2. d >= m * b
    BY <1>8, <2>1
  <2>3. Truncated(d, b) >= m /\ Truncated(d, b) \in Int
    BY <1>8, <2>2, TruncatedWithin
  <2> QED BY <1>3, <2>3
<1>13. \A k \in from + 1 .. n : 0 <= l[k]
  <2>1. \A k \in 1 .. n : l[k] \in Nat
    BY ElementOfSeq
  <2> QED BY <1>1, <1>10, <2>1
<1>14. rate \in Nat
  <2>1. rate \in Int
    <3> HIDE DEF d, b
    <3> QED BY <1>3, <1>8, TruncatedWithin
  <2>2. 0 <= rate
    BY <1>12, <1>13
  <2> QED BY <2>1, <2>2
<1> HIDE DEF rate, from
<1> DEFINE sample == [t |-> n, v |-> rate]
<1>15. sample.t = n /\ sample.v = rate /\ sample \in Point
  BY <1>1, <1>14 DEF Point
<1> HIDE DEF sample
<1>16. RateOK(l, n, sample)
  BY <1>1, <1>10, <1>11, <1>12, <1>15 DEF RateOK, from
<1> QED BY <1>15, <1>16 DEF sample, rate

\* What is logged later does not change what a rate is worth.
LEMMA RateStays ==
    ASSUME NEW l \in Seq(Nat), NEW x \in Nat, NEW sample \in Point, RateOK(l, Len(l), sample)
    PROVE  RateOK(Append(l, x), Len(l) + 1, sample)
<1> DEFINE from == IF sample.t > RateWindow THEN sample.t - RateWindow ELSE 0
           ll == Append(l, x)
<1>1. Len(l) \in Nat /\ sample.t \in Nat /\ sample.v \in Nat /\ RateWindow \in Nat
  BY LenProperties, HistoryConstantsOK DEF Point
<1>2. /\ 0 < RateWindow /\ 0 < sample.t /\ sample.t <= Len(l)
      /\ \A m \in Nat : (\A k \in from + 1 .. sample.t : l[k] <= m) => sample.v <= m
      /\ \A m \in Nat : (\A k \in from + 1 .. sample.t : m <= l[k]) => m <= sample.v
  BY DEF RateOK
<1>3. \A k \in 1 .. Len(l) : ll[k] = l[k]
  BY AppendProperties
<1>4. \A k \in from + 1 .. sample.t : ll[k] = l[k]
  BY <1>1, <1>2, <1>3
<1> HIDE DEF ll, from
<1>5. /\ \A m \in Nat : (\A k \in from + 1 .. sample.t : ll[k] <= m) => sample.v <= m
      /\ \A m \in Nat : (\A k \in from + 1 .. sample.t : m <= ll[k]) => m <= sample.v
  BY <1>2, <1>4, Zenon
<1>6. sample.t <= Len(l) + 1
  BY <1>1, <1>2
<1> QED BY <1>2, <1>5, <1>6, Zenon DEF RateOK, ll, from

----
(***************************************************************************)
(* The invariant holds.                                                    *)
(***************************************************************************)
LEMMA FirstState == ASSUME Init PROVE IOInv
<1> DEFINE none == [c \in Containers |-> <<>>]
<1>1. /\ none \in [Containers -> Seq(Point)] /\ none \in [Containers -> Seq(Nat)]
      /\ \A c \in Containers : none[c] = <<>> /\ Len(none[c]) = 0 /\ DOMAIN none[c] = {}
  <2>1. <<>> \in Seq(Nat) /\ <<>> \in Seq(Point) /\ Len(<<>>) = 0 /\ DOMAIN <<>> = {}
    BY NoReadings
  <2> QED BY <2>1
<1> HIDE DEF none
<1>2. /\ now = 0 /\ next = 0 /\ todo = {} /\ pending = {} /\ nameOf \in [Containers -> Names]
      /\ byId = none /\ points = none /\ log = none
      /\ byName = [n \in Names |-> <<>>]
      /\ reading = [c \in Containers |-> [t |-> 0, v |-> 0]]
      /\ \A c \in Containers : counter[c] = 0 /\ restarted[c] = 0
  BY DEF Init, none
<1>9. /\ byName \in [Names -> Seq(Point)] /\ reading \in [Containers -> Point]
      /\ \A c \in Containers : nameOf[c] \in Names /\ byName[nameOf[c]] = <<>>
  <2>1. <<>> \in Seq(Point) /\ [t |-> 0, v |-> 0] \in Point
    BY DEF Point
  <2> QED BY <1>2, <2>1
<1>3. TypeOK
  <2>1. /\ updated \in [Names -> Nat] /\ restarted \in [Containers -> Nat]
        /\ counter \in [Containers -> Nat]
    BY DEF Init
  <2>2. used \in [changes: Nat, restarts: Nat] /\ named \in BOOLEAN /\ load \in [Containers -> Loads]
    BY DEF Init
  <2>3. \A c \in Containers : Len(points[c]) <= MaxPoints
    BY <1>1, <1>2, MaxPointsOK
  <2> QED BY <1>1, <1>2, <1>9, <2>1, <2>2, <2>3 DEF TypeOK
<1>4. Clock
  BY <1>1, <1>2 DEF Clock
<1>5. Readings
  <2>1. ASSUME NEW c \in Containers
        PROVE  /\ Tracks(log[c], now, counter[c], Summary(c), Since(c))
               /\ Tracks(log[c], now, counter[c], points[c], -1)
    <3> DEFINE zero == [t |-> 0, v |-> 0]
    <3>1. /\ log[c] = <<>> /\ points[c] = <<>> /\ counter[c] = 0 /\ Since(c) = -1
          /\ Summary(c) = Append(<<>>, zero)
      BY <1>1, <1>2, <1>9 DEF Since, Summary
    <3>2. /\ <<>> \in Seq(Nat) /\ <<>> \in Seq(Point) /\ Len(<<>>) = 0 /\ zero \in Point
          /\ 0 \in Nat /\ -1 \in Int
      BY DEF Point
    <3>3. Tracks(<<>>, 0, 0, <<>>, -1)
      BY NoReadings
    <3> HIDE DEF zero
    <3>4. Ends(Append(<<>>, zero), <<>>, zero)
      BY <3>2, EndsAppended
    <3>5. Tracks(<<>>, Len(<<>>), 0, Append(<<>>, zero), -1)
      BY <3>2, <3>3, <3>4, TracksReading DEF zero
    <3> QED BY <1>2, <3>1, <3>2, <3>3, <3>5
  <2> QED BY <2>1 DEF Readings
<1>6. Rates
  BY <1>1, <1>2 DEF Rates
<1>7. ExpiredDropped
  BY <1>9 DEF ExpiredDropped
<1>8. Younger
  BY <1>1, <1>2 DEF Younger
<1> QED BY <1>3, <1>4, <1>5, <1>6, <1>7, <1>8 DEF IOInv

\* What is added at the end leaves nothing new but itself.
LEMMA EndsOf ==
    ASSUME NEW old \in Seq(Point), NEW new, NEW sample, Ends(new, old, sample)
    PROVE  /\ new \in Seq(Point) /\ DOMAIN new = 1 .. Len(new) /\ DOMAIN old = 1 .. Len(old)
           /\ \A i \in 1 .. Len(new) : new[i] = sample \/ \E a \in 1 .. Len(old) : new[i] = old[a]
<1>1. new \in Seq(Point)
  BY DEF Ends
<1>2. DOMAIN new = 1 .. Len(new) /\ DOMAIN old = 1 .. Len(old)
  BY <1>1, StatsTyped
<1>3. PICK o \in 0 .. Len(old) : EndsFrom(o, new, old, sample)
  BY EndsAt
<1>4. \A i \in 1 .. Len(new) : new[i] = sample \/ \E a \in 1 .. Len(old) : new[i] = old[a]
  BY <1>3 DEF EndsFrom
<1> QED BY <1>1, <1>2, <1>4

\* What the type invariant says of one container.
LEMMA OfOne ==
    ASSUME IOInv, NEW c \in Containers
    PROVE  /\ now \in Nat /\ next \in Nat /\ counter[c] \in Nat /\ load[c] \in Nat
           /\ restarted[c] \in Nat /\ Since(c) \in Int
           /\ nameOf[c] \in Names /\ byName[nameOf[c]] \in Seq(Point) /\ reading[c] \in Point
           /\ Summary(c) \in Seq(Point) /\ byId[c] \in Seq(Point) /\ points[c] \in Seq(Point)
           /\ log[c] \in Seq(Nat) /\ Len(log[c]) = now
           /\ HistoryWindow \in Nat /\ RateWindow \in Nat /\ Period \in Nat
<1>1. load[c] \in Loads /\ Loads \subseteq Nat
  BY HistoryConstantsOK DEF IOInv, TypeOK
<1>2. HistoryWindow \in Nat /\ RateWindow \in Nat /\ Period \in Nat
  BY HistoryConstantsOK
<1>3. restarted[c] \in Nat /\ counter[c] \in Nat /\ now \in Nat /\ next \in Nat
  BY DEF IOInv, TypeOK
<1>4. Since(c) \in Int
  BY <1>3 DEF Since
<1>6. nameOf[c] \in Names /\ byName[nameOf[c]] \in Seq(Point) /\ reading[c] \in Point
  BY DEF IOInv, TypeOK
<1>7. Summary(c) \in Seq(Point)
  BY <1>6, AppendProperties DEF Summary
<1>5. /\ byId[c] \in Seq(Point) /\ points[c] \in Seq(Point)
      /\ log[c] \in Seq(Nat) /\ Len(log[c]) = now
  BY DEF IOInv, TypeOK, Clock
<1> QED BY <1>1, <1>2, <1>3, <1>4, <1>5, <1>6, <1>7

\* A reading is filed by the name of a container that no other has.
LEMMA NameSampled ==
    ASSUME IOInv, NEW c \in Containers, SoleName(c)
    PROVE  LET new == addIOStats(byName[nameOf[c]], reading[c]) IN
           /\ Tracks(log[c], now, counter[c], Append(new, reading[c]), Since(c))
           /\ new[Len(new)].t > now - HistoryWindow =>
                \A i \in DOMAIN new : new[i].t > now - HistoryWindow
<1> DEFINE old == byName[nameOf[c]]
           sample == reading[c]
           new == addIOStats(old, sample)
           cutoff == now - HistoryWindow
<1>1. /\ now \in Nat /\ counter[c] \in Nat /\ Since(c) \in Int /\ HistoryWindow \in Nat
      /\ old \in Seq(Point) /\ sample \in Point /\ Summary(c) \in Seq(Point)
      /\ log[c] \in Seq(Nat) /\ Len(log[c]) = now
  BY OfOne
<1>2. Tracks(log[c], now, counter[c], Summary(c), Since(c))
  BY DEF IOInv, Readings
<1>3. Summary(c) = Append(old, sample)
  BY DEF Summary
<1>4. Ends(new, old, sample) /\ (new[1].t > cutoff \/ sample.t <= cutoff)
  <2> HIDE DEF old, sample
  <2> QED BY <1>1, AddedAtTheEnd
<1> HIDE DEF new, old, sample
<1>5. Ends(Append(new, sample), Summary(c), sample)
  BY <1>1, <1>3, <1>4, EndsTwice
<1>6. Summary(c) # <<>> /\ sample = Summary(c)[Len(Summary(c))]
  <2>1. /\ Len(old) \in Nat /\ Len(Append(old, sample)) = Len(old) + 1
        /\ Append(old, sample)[Len(old) + 1] = sample /\ Append(old, sample) # <<>>
    BY <1>1, AppendProperties, LenProperties
  <2> QED BY <1>3, <2>1
<1>7. Tracks(log[c], now, counter[c], Append(new, sample), Since(c))
  BY <1>1, <1>2, <1>5, <1>6, TracksReading
<1>8. new \in Seq(Point)
  BY <1>4 DEF Ends
<1>9. Tracks(log[c], now, counter[c], new, Since(c))
  BY <1>1, <1>7, <1>8, TracksShorter
<1>10. /\ DOMAIN new = 1 .. Len(new) /\ Len(new) \in Nat \ {0}
       /\ new[Len(new)] = sample /\ \A i \in DOMAIN new : new[i].t \in Nat
  BY <1>1, <1>4, <1>8, LastIsSample, StatsTyped
<1>11. ASSUME sample.t > cutoff, NEW i \in DOMAIN new PROVE new[i].t > cutoff
  <2>1. cutoff \in Int /\ sample.t \in Nat /\ new[1].t > cutoff
    BY <1>1, <1>4, <1>11 DEF Point
  <2>2. CASE i = 1
    BY <2>1, <2>2
  <2>3. CASE i # 1
    <3>1. 1 \in DOMAIN new /\ 1 < i
      BY <1>10, <2>3
    <3>2. new[1].t <= new[i].t
      BY <1>9, <3>1 DEF Tracks
    <3>3. new[1].t \in Nat /\ new[i].t \in Nat
      BY <1>10, <3>1
    <3> HIDE DEF cutoff
    <3> QED BY <2>1, <3>2, <3>3
  <2> QED BY <2>2, <2>3
<1> QED BY <1>7, <1>10, <1>11 DEF new, old, sample

LEMMA FileStep ==
    ASSUME IOInv, NEW c \in Containers, FileReading(c)
    PROVE  IOInv'
<1> DEFINE name == nameOf[c]
           new == addIOStats(byName[name], reading[c])
<1>1. /\ pending' = pending \ {c}
      /\ byName' = [byName EXCEPT ![name] = new]
      /\ updated' = [updated EXCEPT ![name] = now]
      /\ UNCHANGED <<now, next, todo, reading, byId, points, nameOf, named, counter, load, restarted, used, log>>
  BY DEF FileReading, containers
<1>2. /\ TypeOK /\ Clock /\ Readings /\ Rates /\ Younger /\ ExpiredDropped
  BY DEF IOInv
<1>3. /\ now \in Nat /\ name \in Names /\ byName \in [Names -> Seq(Point)]
      /\ updated \in [Names -> Nat] /\ byName[name] \in Seq(Point) /\ reading[c] \in Point
  BY <1>2, OfOne DEF TypeOK
<1>4. new \in Seq(Point)
  <2> HIDE DEF name
  <2>1. Ends(new, byName[name], reading[c])
    BY <1>3, AddedAtTheEnd
  <2> QED BY <2>1 DEF Ends
<1>5. /\ byName'[name] = new /\ updated'[name] = now
      /\ \A n \in Names \ {name} : byName'[n] = byName[n] /\ updated'[n] = updated[n]
  <2> HIDE DEF name, new
  <2> QED BY <1>1, <1>3
<1>6. SoleName(c) =>
        /\ Tracks(log[c], now, counter[c], Append(new, reading[c]), Since(c))
        /\ new[Len(new)].t > now - HistoryWindow =>
             \A i \in DOMAIN new : new[i].t > now - HistoryWindow
  BY NameSampled
<1>7. \A d \in Containers : SoleName(d)' <=> SoleName(d)
  BY <1>1 DEF SoleName
<1>8. \A d \in Containers \ {c} : SoleName(d) =>
        byName'[nameOf[d]] = byName[nameOf[d]] /\ updated'[nameOf[d]] = updated[nameOf[d]]
  <2> SUFFICES ASSUME NEW d \in Containers \ {c}, SoleName(d)
               PROVE  byName'[nameOf[d]] = byName[nameOf[d]] /\ updated'[nameOf[d]] = updated[nameOf[d]]
    OBVIOUS
  <2>1. nameOf[d] \in Names /\ nameOf[d] # name
    BY <1>2, OfOne DEF SoleName
  <2> HIDE DEF name, new
  <2> QED BY <1>5, <2>1
<1> HIDE DEF new
<1>9. TypeOK'
  <2>1. byName' \in [Names -> Seq(Point)] /\ updated' \in [Names -> Nat]
    <3> HIDE DEF name
    <3> QED BY <1>1, <1>3, <1>4
  <2>2. todo' \cup pending' \subseteq Containers
    BY <1>1, <1>2 DEF TypeOK
  <2> QED BY <1>1, <1>2, <2>1, <2>2 DEF TypeOK
<1>10. Clock'
  BY <1>1, <1>2 DEF Clock
<1>11. Readings'
  <2>1. ASSUME NEW d \in Containers
        PROVE  /\ SoleName(d) => Tracks(log[d], now, counter[d], Summary(d)', Since(d))
               /\ Tracks(log[d], now, counter[d], points[d], -1)
    <3>1. CASE d = c
      BY <1>1, <1>2, <1>5, <1>6, <3>1 DEF Readings, Summary
    <3>2. CASE d # c
      <4>1. SoleName(d) => Summary(d)' = Summary(d)
        BY <1>1, <1>8, <3>2 DEF Summary
      <4> QED BY <1>2, <4>1 DEF Readings
    <3> QED BY <3>1, <3>2
  <2> QED BY <1>1, <1>7, <2>1 DEF Readings, Since
<1>12. Rates'
  BY <1>1, <1>2 DEF Rates
<1>13. ExpiredDropped'
  <2>1. ASSUME NEW d \in Containers, SoleName(d), byName'[nameOf[d]] # <<>>
        PROVE  LET stats == byName'[nameOf[d]]
                   cutoff == updated'[nameOf[d]] - HistoryWindow
               IN stats[Len(stats)].t > cutoff => \A i \in DOMAIN stats : stats[i].t > cutoff
    <3>1. CASE d = c
      BY <1>5, <1>6, <2>1, <3>1
    <3>2. CASE d # c
      BY <1>2, <1>8, <2>1, <3>2 DEF ExpiredDropped
    <3> QED BY <3>1, <3>2
  <2> QED BY <1>1, <1>7, <2>1 DEF ExpiredDropped
<1>14. Younger'
  BY <1>1, <1>2 DEF Younger
<1> QED BY <1>9, <1>10, <1>11, <1>12, <1>13, <1>14 DEF IOInv

\* The kubelet reads some counters anew.
LEMMA SummaryStep ==
    ASSUME IOInv, NEW seen, NEW fresh, SummaryRound(seen, fresh)
    PROVE  IOInv'
<1>1. /\ Begins /\ seen \subseteq Monitored /\ pending' = seen
      /\ reading' = [c \in Containers |-> IF c \in fresh THEN [t |-> now, v |-> counter[c]] ELSE reading[c]]
      /\ UNCHANGED <<now, todo, byName, updated, byId, points, nameOf, named, counter, load, restarted, used, log>>
  BY DEF SummaryRound, histories, containers
<1>2. /\ TypeOK /\ Clock /\ Readings /\ Rates /\ Younger /\ ExpiredDropped
  BY DEF IOInv
<1>3. now \in Nat /\ next' = now + Period /\ Period \in Nat /\ Monitored \subseteq Containers
  BY <1>1, <1>2, HistoryConstantsOK DEF TypeOK, Begins
<1>4. ASSUME NEW c \in Containers
      PROVE  /\ reading'[c] \in Point
             /\ SoleName(c) => Tracks(log[c], now, counter[c], Summary(c)', Since(c))
  <2> DEFINE old == byName[nameOf[c]]
  <2>1. /\ now \in Nat /\ counter[c] \in Nat /\ Since(c) \in Int /\ old \in Seq(Point)
        /\ reading[c] \in Point /\ log[c] \in Seq(Nat) /\ Len(log[c]) = now
    BY OfOne
  <2>2. SoleName(c) => Tracks(log[c], now, counter[c], Append(old, reading[c]), Since(c))
    BY <1>2 DEF Readings, Summary
  <2>3. Summary(c)' = Append(old, reading'[c])
    BY <1>1 DEF Summary
  <2> HIDE DEF old
  <2>4. CASE c \in fresh
    <3> DEFINE sample == [t |-> now, v |-> counter[c]]
    <3>1. reading'[c] = sample /\ sample \in Point
      BY <1>1, <2>1, <2>4 DEF Point
    <3>2. ASSUME SoleName(c) PROVE Tracks(log[c], now, counter[c], Append(old, sample), Since(c))
      <4>1. Tracks(log[c], now, counter[c], old, Since(c))
        BY <2>1, <2>2, <3>2, TracksShorter
      <4>2. Ends(Append(old, sample), old, sample)
        BY <2>1, <3>1, EndsAppended
      <4> QED BY <2>1, <3>1, <4>1, <4>2, TracksReading
    <3> HIDE DEF sample
    <3> QED BY <2>3, <3>1, <3>2
  <2>5. CASE c \notin fresh
    <3>1. reading'[c] = reading[c]
      BY <1>1, <2>5
    <3> QED BY <2>1, <2>2, <2>3, <3>1
  <2> QED BY <2>4, <2>5
<1>5. TypeOK'
  <2>1. reading' \in [Containers -> Point]
    <3>1. reading' = [c \in Containers |-> reading'[c]]
      BY <1>1
    <3> QED BY <1>4, <3>1
  <2>2. now' \in Nat /\ next' \in Nat /\ todo' \cup pending' \subseteq Containers
    BY <1>1, <1>2, <1>3 DEF TypeOK
  <2> QED BY <1>1, <1>2, <2>1, <2>2 DEF TypeOK
<1>6. Clock' /\ Rates' /\ Younger'
  BY <1>1, <1>2 DEF Clock, Rates, Younger
<1>7. Readings'
  BY <1>1, <1>2, <1>4 DEF Readings, Since, SoleName
<1>8. ExpiredDropped'
  BY <1>1, <1>2 DEF ExpiredDropped, SoleName
<1> QED BY <1>5, <1>6, <1>7, <1>8 DEF IOInv

LEMMA PointsApart ==
    ASSUME NEW stats \in Seq(Point), NEW cutoff, HasRate(stats, cutoff)
    PROVE  \E i, j \in DOMAIN stats : stats[j].t > stats[i].t
<1> DEFINE window == Window(stats, cutoff)
<1>1. window # {} /\ stats[Max(window)].t > stats[Min(window)].t
  BY DEF HasRate
<1>2. Len(stats) \in Nat /\ window \in SUBSET Nat /\ \A k \in window : k <= Len(stats)
  BY StatsTyped DEF Window
<1>3. window \subseteq DOMAIN stats
  BY DEF Window
<1> HIDE DEF window
<1>4. Min(window) \in window /\ Max(window) \in window
  BY <1>1, <1>2, MinOfNumbers, MaxOfNumbers
<1> QED BY <1>1, <1>3, <1>4

LEMMA ConvertStep ==
    ASSUME IOInv, NEW c \in Containers, ConvertCadvisorToIOStats(c)
    PROVE  IOInv'
<1> DEFINE cutoff == now - RateWindow
           sample == [t |-> now, v |-> CalculateIORate(points'[c], cutoff)]
<1>1. /\ c \in todo /\ todo' = todo \ {c}
      /\ points' = [d \in Containers |-> IF d \in ParseCadvisorMetrics
                                         THEN AddMetricPoint(points[d], now, counter[d]) ELSE points[d]]
      /\ byId' = IF HasRate(points'[c], cutoff)
                 THEN [byId EXCEPT ![c] = addIOStats(@, sample)] ELSE byId
      /\ UNCHANGED <<now, next, pending, reading, byName, updated, nameOf, named, counter, load, restarted, used, log>>
  BY DEF ConvertCadvisorToIOStats, containers
<1>2. TypeOK /\ Clock /\ Readings /\ Rates /\ Younger /\ ExpiredDropped
  BY DEF IOInv
<1>3. ASSUME NEW d \in Containers
      PROVE  /\ points'[d] \in Seq(Point) /\ Len(points'[d]) <= MaxPoints
             /\ Tracks(log[d], now, counter[d], points'[d], -1)
             /\ \A i \in DOMAIN points'[d] : restarted[d] <= points'[d][i].t
  <2>1. /\ now \in Nat /\ counter[d] \in Nat /\ points[d] \in Seq(Point)
        /\ log[d] \in Seq(Nat) /\ Len(log[d]) = now /\ -1 \in Int
    BY OfOne
  <2>2. /\ Tracks(log[d], now, counter[d], points[d], -1) /\ Len(points[d]) <= MaxPoints
        /\ restarted[d] <= now /\ \A i \in DOMAIN points[d] : restarted[d] <= points[d][i].t
    BY <1>2 DEF Readings, TypeOK, Clock, Younger
  <2>3. CASE d \in ParseCadvisorMetrics
    <3> DEFINE new == AddMetricPoint(points[d], now, counter[d])
               point == [t |-> now, v |-> counter[d]]
    <3>1. points'[d] = new /\ point \in Point
      BY <1>1, <2>1, <2>3 DEF Point
    <3>2. Ends(new, points[d], point) /\ Len(new) <= MaxPoints
      BY <2>1, PointAtTheEnd
    <3> HIDE DEF new
    <3>3. Tracks(log[d], now, counter[d], new, -1)
      BY <2>1, <2>2, <3>1, <3>2, TracksReading
    <3>4. \A i \in DOMAIN new : restarted[d] <= new[i].t
      <4>1. points[d] \in Seq(Point) /\ point.t = now
        BY <2>1
      <4> HIDE DEF point
      <4>2. Ends(new, points[d], point)
        BY <3>2
      <4>3. /\ DOMAIN new = 1 .. Len(new) /\ DOMAIN points[d] = 1 .. Len(points[d])
            /\ \A i \in 1 .. Len(new) : new[i] = point \/ \E a \in 1 .. Len(points[d]) : new[i] = points[d][a]
        BY <4>1, <4>2, EndsOf
      <4> QED BY <2>2, <4>1, <4>3
    <3> QED BY <3>1, <3>2, <3>3, <3>4 DEF Ends
  <2>4. CASE d \notin ParseCadvisorMetrics
    <3>1. points'[d] = points[d]
      BY <1>1, <2>4
    <3> QED BY <2>1, <2>2, <3>1
  <2> QED BY <2>3, <2>4
<1>4. ASSUME NEW d \in Containers
      PROVE  /\ byId'[d] \in Seq(Point)
             /\ \A i \in DOMAIN byId'[d] : RateOK(log[d], now, byId'[d][i]) /\ restarted[d] < byId'[d][i].t
  <2>1. /\ now \in Nat /\ byId[d] \in Seq(Point) /\ byId \in [Containers -> Seq(Point)]
        /\ \A i \in DOMAIN byId[d] : RateOK(log[d], now, byId[d][i]) /\ restarted[d] < byId[d][i].t
    BY <1>2, OfOne DEF Rates, TypeOK, Younger
  <2>2. CASE HasRate(points'[c], cutoff) /\ d = c
    <3> DEFINE new == addIOStats(byId[c], sample)
    <3>1. byId'[c] = new
      BY <1>1, <2>1, <2>2
    <3>2. /\ now \in Nat /\ counter[c] \in Nat /\ points'[c] \in Seq(Point)
          /\ log[c] \in Seq(Nat) /\ Len(log[c]) = now
          /\ Tracks(log[c], now, counter[c], points'[c], -1)
      BY <1>3, OfOne
    <3>3. sample \in Point /\ RateOK(log[c], now, sample)
      BY <2>2, <3>2, RateOfReadings
    <3>6. restarted[c] < sample.t
      <4>1. PICK i, j \in DOMAIN points'[c] : points'[c][j].t > points'[c][i].t
        BY <2>2, <3>2, PointsApart
      <4>2. /\ restarted[c] <= points'[c][i].t /\ points'[c][j].t <= now
            /\ points'[c][i].t \in Nat /\ points'[c][j].t \in Nat
        BY <1>3, <3>2, StatsTyped DEF Tracks
      <4>3. restarted[c] \in Nat /\ sample.t = now
        BY OfOne
      <4> QED BY <3>2, <4>1, <4>2, <4>3
    <3> HIDE DEF sample
    <3>4. Ends(new, byId[c], sample)
      BY <2>1, <2>2, <3>3, AddedAtTheEnd
    <3> HIDE DEF new
    <3>5. /\ new \in Seq(Point) /\ DOMAIN new = 1 .. Len(new) /\ DOMAIN byId[c] = 1 .. Len(byId[c])
          /\ \A i \in 1 .. Len(new) : new[i] = sample \/ \E a \in 1 .. Len(byId[c]) : new[i] = byId[c][a]
      <4>1. byId[c] \in Seq(Point)
        BY <2>1, <2>2
      <4> QED BY <3>4, <4>1, EndsOf
    <3>7. \A a \in 1 .. Len(byId[c]) :
             RateOK(log[c], now, byId[c][a]) /\ restarted[c] < byId[c][a].t
      BY <2>1, <2>2, <3>5
    <3>8. \A i \in 1 .. Len(new) : RateOK(log[c], now, new[i]) /\ restarted[c] < new[i].t
      <4> SUFFICES ASSUME NEW i \in 1 .. Len(new)
                   PROVE  RateOK(log[c], now, new[i]) /\ restarted[c] < new[i].t
        OBVIOUS
      <4>1. CASE new[i] = sample
        BY <4>1, <3>3, <3>6
      <4>2. CASE \E a \in 1 .. Len(byId[c]) : new[i] = byId[c][a]
        BY <4>2, <3>7
      <4> QED BY <4>1, <4>2, <3>5
    <3>9. byId'[d] = new /\ DOMAIN new = 1 .. Len(new) /\ new \in Seq(Point) /\ d = c
      BY <2>2, <3>1, <3>5
    <3>10. \A i \in DOMAIN byId'[d] : RateOK(log[d], now, byId'[d][i]) /\ restarted[d] < byId'[d][i].t
      BY <3>8, <3>9
    <3> QED BY <3>9, <3>10
  <2>3. CASE ~(HasRate(points'[c], cutoff) /\ d = c)
    <3>1. byId'[d] = byId[d]
      BY <1>1, <2>1, <2>3
    <3> QED BY <2>1, <3>1
  <2> QED BY <2>2, <2>3
<1> HIDE DEF sample, cutoff
<1>5. TypeOK'
  <2>1. points' \in [Containers -> Seq(Point)]
    <3>1. points' = [d \in Containers |-> points'[d]]
      BY <1>1
    <3> QED BY <1>3, <3>1
  <2>2. byId' \in [Containers -> Seq(Point)]
    <3>1. byId' = [d \in Containers |-> byId'[d]]
      BY <1>1, <1>2 DEF TypeOK
    <3> QED BY <1>4, <3>1
  <2>3. todo' \cup pending' \subseteq Containers
    BY <1>1, <1>2 DEF TypeOK
  <2> QED BY <1>1, <1>2, <1>3, <2>1, <2>2, <2>3 DEF TypeOK
<1>6. Clock'
  BY <1>1, <1>2 DEF Clock
<1>7. Readings'
  BY <1>1, <1>2, <1>3 DEF Readings, Since, SoleName, Summary
<1>8. Rates'
  BY <1>1, <1>4 DEF Rates
<1>9. ExpiredDropped'
  BY <1>1, <1>2 DEF ExpiredDropped, SoleName
<1>10. Younger'
  BY <1>1, <1>3, <1>4 DEF Younger
<1> QED BY <1>5, <1>6, <1>7, <1>8, <1>9, <1>10 DEF IOInv

LEMMA TickStep == ASSUME IOInv, Tick PROVE IOInv'
<1>1. /\ now' = now + 1
      /\ counter' = [c \in Containers |-> counter[c] + load[c]]
      /\ log' = [c \in Containers |-> Append(log[c], load[c])]
      /\ UNCHANGED <<next, todo, pending, reading, byName, updated, byId, points, nameOf, named, load, restarted, used>>
  BY DEF Tick, histories
<1>2. TypeOK /\ Clock /\ Readings /\ Rates /\ Younger /\ ExpiredDropped
  BY DEF IOInv
<1>3. ASSUME NEW c \in Containers
      PROVE  /\ counter'[c] = counter[c] + load[c] /\ counter'[c] \in Nat
             /\ log'[c] = Append(log[c], load[c]) /\ log'[c] \in Seq(Nat) /\ Len(log'[c]) = now + 1
             /\ restarted[c] <= now + 1
  <2>1. /\ now \in Nat /\ counter[c] \in Nat /\ load[c] \in Nat /\ log[c] \in Seq(Nat)
        /\ Len(log[c]) = now /\ restarted[c] \in Nat
    BY OfOne
  <2>2. restarted[c] <= now
    BY <1>2 DEF Clock
  <2>3. Append(log[c], load[c]) \in Seq(Nat) /\ Len(Append(log[c], load[c])) = now + 1
    BY <2>1, AppendProperties
  <2>4. counter'[c] = counter[c] + load[c] /\ log'[c] = Append(log[c], load[c])
    BY <1>1
  <2>5. counter[c] + load[c] \in Nat /\ restarted[c] <= now + 1
    BY <2>1, <2>2
  <2> QED BY <2>3, <2>4, <2>5
<1>4. now \in Nat /\ now + 1 \in Nat /\ now + 1 # 0
  BY <1>2 DEF TypeOK
<1>5. TypeOK'
  <2>1. counter' \in [Containers -> Nat]
    <3>1. counter' = [c \in Containers |-> counter'[c]]
      BY <1>1
    <3> QED BY <1>3, <3>1
  <2>2. log' \in [Containers -> Seq(Nat)]
    <3>1. log' = [c \in Containers |-> log'[c]]
      BY <1>1
    <3> QED BY <1>3, <3>1
  <2> QED BY <1>1, <1>2, <1>4, <2>1, <2>2 DEF TypeOK
<1>6. Clock'
  BY <1>1, <1>3, <1>4 DEF Clock
<1>7. Readings'
  <2>1. ASSUME NEW c \in Containers
        PROVE  /\ SoleName(c) => Tracks(log'[c], now', counter'[c], Summary(c)', Since(c)')
               /\ Tracks(log'[c], now', counter'[c], points'[c], -1)
    <3>1. /\ counter[c] \in Nat /\ load[c] \in Nat /\ log[c] \in Seq(Nat) /\ Len(log[c]) = now
          /\ Summary(c) \in Seq(Point) /\ points[c] \in Seq(Point) /\ Since(c) \in Int /\ -1 \in Int
      BY OfOne
    <3>2. /\ SoleName(c) => Tracks(log[c], now, counter[c], Summary(c), Since(c))
          /\ Tracks(log[c], now, counter[c], points[c], -1)
      BY <1>2 DEF Readings
    <3>3. /\ SoleName(c) =>
               Tracks(Append(log[c], load[c]), now + 1, counter[c] + load[c], Summary(c), Since(c))
          /\ Tracks(Append(log[c], load[c]), now + 1, counter[c] + load[c], points[c], -1)
      BY <3>1, <3>2, TracksTime
    <3>4. Since(c)' = Since(c) /\ Summary(c)' = Summary(c)
      BY <1>1 DEF Since, Summary
    <3> QED BY <1>1, <1>3, <3>3, <3>4
  <2> QED BY <1>1, <2>1 DEF Readings, SoleName
<1>8. Rates'
  <2>1. ASSUME NEW c \in Containers, NEW i \in DOMAIN byId[c]
        PROVE  RateOK(Append(log[c], load[c]), now + 1, byId[c][i])
    <3>1. /\ load[c] \in Nat /\ log[c] \in Seq(Nat) /\ Len(log[c]) = now /\ byId[c] \in Seq(Point)
      BY OfOne
    <3>2. byId[c][i] \in Point /\ RateOK(log[c], now, byId[c][i])
      BY <1>2, <3>1, StatsTyped DEF Rates
    <3> QED BY <3>1, <3>2, RateStays
  <2> QED BY <1>1, <1>3, <2>1 DEF Rates
<1>9. ExpiredDropped'
  BY <1>1, <1>2 DEF ExpiredDropped, SoleName
<1>10. Younger'
  BY <1>1, <1>2 DEF Younger
<1> QED BY <1>5, <1>6, <1>7, <1>8, <1>9, <1>10 DEF IOInv

LEMMA RestartStep ==
    ASSUME IOInv, NEW c \in Containers, ContainerRestarts(c)
    PROVE  IOInv'
<1>1. /\ counter' = [counter EXCEPT ![c] = 0]
      /\ byId' = [byId EXCEPT ![c] = <<>>]
      /\ points' = [points EXCEPT ![c] = <<>>]
      /\ restarted' = [restarted EXCEPT ![c] = now]
      /\ used' = [used EXCEPT !.restarts = @ + 1]
      /\ UNCHANGED <<now, next, todo, pending, reading, byName, updated, nameOf, named, load, log>>
  BY DEF ContainerRestarts
<1>2. TypeOK /\ Clock /\ Readings /\ Rates /\ Younger /\ ExpiredDropped
  BY DEF IOInv
<1>3. /\ now \in Nat
      /\ counter \in [Containers -> Nat] /\ restarted \in [Containers -> Nat]
      /\ byId \in [Containers -> Seq(Point)] /\ points \in [Containers -> Seq(Point)]
      /\ used \in [changes: Nat, restarts: Nat]
  BY <1>2 DEF TypeOK
<1>4. <<>> \in Seq(Point) /\ Len(<<>>) = 0 /\ DOMAIN <<>> = {}
  BY NoReadings
<1>5. /\ counter'[c] = 0 /\ restarted'[c] = now /\ byId'[c] = <<>> /\ points'[c] = <<>>
      /\ \A d \in Containers \ {c} :
           /\ counter'[d] = counter[d] /\ restarted'[d] = restarted[d]
           /\ byId'[d] = byId[d] /\ points'[d] = points[d]
  BY <1>1, <1>3
<1>6. TypeOK'
  <2>1. /\ counter' \in [Containers -> Nat] /\ restarted' \in [Containers -> Nat]
        /\ byId' \in [Containers -> Seq(Point)] /\ points' \in [Containers -> Seq(Point)]
    BY <1>1, <1>3, <1>4
  <2>2. used' \in [changes: Nat, restarts: Nat]
    <3>1. used.restarts + 1 \in Nat
      BY <1>3
    <3> QED BY <1>1, <1>3, <3>1
  <2>3. ASSUME NEW d \in Containers PROVE Len(points'[d]) <= MaxPoints
    <3>1. Len(points[d]) <= MaxPoints /\ 0 <= MaxPoints
      BY <1>2, MaxPointsOK DEF TypeOK
    <3> QED BY <1>4, <1>5, <3>1
  <2> QED BY <1>1, <1>2, <2>1, <2>2, <2>3 DEF TypeOK
<1>7. Clock'
  BY <1>1, <1>2, <1>3, <1>5 DEF Clock
<1>8. Readings'
  <2>1. ASSUME NEW d \in Containers
        PROVE  /\ SoleName(d) => Tracks(log[d], now, counter'[d], Summary(d), Since(d)')
               /\ Tracks(log[d], now, counter'[d], points'[d], -1)
    <3>1. /\ SoleName(d) => Tracks(log[d], now, counter[d], Summary(d), Since(d))
          /\ Tracks(log[d], now, counter[d], points[d], -1)
      BY <1>2 DEF Readings
    <3>2. CASE d # c
      <4>1. Since(d)' = Since(d)
        BY <1>5, <3>2 DEF Since
      <4> QED BY <1>5, <3>1, <3>2, <4>1
    <3>3. CASE d = c
      <4>1. Tracks(log[d], now, counter'[d], points'[d], -1)
        BY <1>5, <3>3, NoReadings
      <4>2. CASE now = 0
        <5>1. restarted[c] = 0 /\ counter[c] = 0 /\ restarted'[c] = 0
          BY <1>2, <1>3, <1>5, <4>2 DEF Clock
        <5>2. Since(c)' = Since(c) /\ counter'[c] = counter[c]
          BY <1>5, <5>1 DEF Since
        <5> QED BY <3>1, <3>3, <4>1, <5>2
      <4>3. CASE now # 0
        <5>1. Since(c)' = now
          BY <1>5, <4>3 DEF Since
        <5>2. /\ log[c] \in Seq(Nat) /\ Len(log[c]) = now /\ counter[c] \in Nat
              /\ Summary(c) \in Seq(Point) /\ Since(c) \in Int
          BY OfOne
        <5>3. SoleName(c) => Tracks(log[c], now, 0, Summary(c), now)
          BY <3>1, <3>3, <5>2, TracksRestart
        <5> QED BY <1>5, <3>3, <4>1, <5>1, <5>3
      <4> QED BY <4>2, <4>3
    <3> QED BY <3>2, <3>3
  <2>2. \A d \in Containers : Summary(d)' = Summary(d) /\ (SoleName(d)' <=> SoleName(d))
    BY <1>1 DEF Summary, SoleName
  <2> QED BY <1>1, <2>1, <2>2 DEF Readings
<1>9. Rates'
  BY <1>1, <1>2, <1>4, <1>5 DEF Rates
<1>10. ExpiredDropped'
  BY <1>1, <1>2 DEF ExpiredDropped, SoleName
<1>11. Younger'
  BY <1>1, <1>2, <1>4, <1>5 DEF Younger
<1> QED BY <1>6, <1>7, <1>8, <1>9, <1>10, <1>11 DEF IOInv

LEMMA OtherSteps ==
    ASSUME IOInv,
           \/ CadvisorRound \/ NoRound
           \/ \E c \in Containers : GetCadvisorMetricsFails(c) \/ LoadChanges(c)
           \/ UNCHANGED vars
    PROVE  IOInv' /\ UNCHANGED <<byName, byId>>
<1> DEFINE Silent ==
             /\ UNCHANGED <<now, pending, reading, byName, updated, byId, points, nameOf, named, counter,
                            restarted, log>>
             /\ todo' \subseteq Containers /\ next' \in Nat /\ load' \in [Containers -> Loads]
             /\ used' \in [changes: Nat, restarts: Nat]
<1>1. Silent
  <2>0. /\ todo \subseteq Containers /\ now \in Nat /\ next \in Nat /\ Period \in Nat
        /\ load \in [Containers -> Loads] /\ used \in [changes: Nat, restarts: Nat]
    BY HistoryConstantsOK DEF IOInv, TypeOK
  <2>1. CASE CadvisorRound
    BY <2>0, <2>1 DEF CadvisorRound, Begins, histories, containers
  <2>2. CASE NoRound
    BY <2>0, <2>2 DEF NoRound, Begins, histories, containers
  <2>3. ASSUME NEW c \in Containers, GetCadvisorMetricsFails(c)
        PROVE  Silent
    BY <2>0, <2>3 DEF GetCadvisorMetricsFails, histories, containers
  <2>4. ASSUME NEW c \in Containers, LoadChanges(c)
        PROVE  Silent
    <3>1. PICK l \in Loads \ {load[c]} : load' = [load EXCEPT ![c] = l]
      BY <2>4 DEF LoadChanges
    <3>2. used' = [used EXCEPT !.changes = @ + 1] /\ used.changes + 1 \in Nat
      BY <2>0, <2>4 DEF LoadChanges
    <3>3. used' \in [changes: Nat, restarts: Nat] /\ load' \in [Containers -> Loads]
      BY <2>0, <3>1, <3>2
    <3> QED BY <2>0, <2>4, <3>3 DEF LoadChanges, histories
  <2>5. CASE UNCHANGED vars
    BY <2>0, <2>5 DEF vars, histories, containers
  <2> QED BY <2>1, <2>2, <2>3, <2>4, <2>5
<1>2. TypeOK /\ Clock /\ Readings /\ Rates /\ Younger /\ ExpiredDropped
  BY DEF IOInv
<1>3. TypeOK'
  BY <1>1, <1>2 DEF TypeOK
<1>4. Clock' /\ Rates' /\ Younger' /\ ExpiredDropped'
  BY <1>1, <1>2 DEF Clock, Rates, Younger, ExpiredDropped, SoleName
<1>5. Readings'
  BY <1>1, <1>2 DEF Readings, Since, SoleName, Summary
<1> QED BY <1>1, <1>3, <1>4, <1>5 DEF IOInv

LEMMA EveryStep == IOInv /\ [Next]_vars => IOInv'
<1> SUFFICES ASSUME IOInv, [Next]_vars PROVE IOInv'
  OBVIOUS
<1>1. ASSUME NEW seen \in SUBSET Containers, NEW fresh \in SUBSET Containers, SummaryRound(seen, fresh)
      PROVE  IOInv'
  BY <1>1, SummaryStep
<1>6. ASSUME NEW c \in Containers, FileReading(c) PROVE IOInv'
  BY <1>6, FileStep
<1>2. ASSUME NEW c \in Containers, ConvertCadvisorToIOStats(c) PROVE IOInv'
  BY <1>2, ConvertStep
<1>3. ASSUME NEW c \in Containers, ContainerRestarts(c) PROVE IOInv'
  BY <1>3, RestartStep
<1>4. CASE Tick
  BY <1>4, TickStep
<1>5. CASE \/ CadvisorRound \/ NoRound
           \/ \E c \in Containers : GetCadvisorMetricsFails(c) \/ LoadChanges(c)
           \/ UNCHANGED vars
  BY <1>5, OtherSteps
<1> QED BY <1>1, <1>2, <1>3, <1>4, <1>5, <1>6, Zenon DEF Next

LEMMA HistoryInvariant == Spec => []IOInv
BY FirstState, EveryStep, PTL DEF Spec

----
(***************************************************************************)
(* The theorems.                                                           *)
(***************************************************************************)

\* Every variable has its type: among the rest no container has more points than
\* AddMetricPoint may keep and no rate is negative (calculator.go:40-60, 81-128).
THEOREM TypeCorrect == Spec => []TypeOK
<1>1. IOInv => TypeOK
  BY DEF IOInv
<1> QED BY <1>1, HistoryInvariant, PTL

\* A history that one container fills never holds, along with samples that had not, a
\* sample that had expired when its last one was added, be it that this was a repeated
\* one (metrics_collector.go:140-157).
THEOREM ExpiredAreDropped == Spec => []ExpiredDropped
<1>1. IOInv => ExpiredDropped
  BY DEF IOInv
<1> QED BY <1>1, HistoryInvariant, PTL

\* The loads of a stretch of time have a least and a greatest one.
LEMMA LoadsOf ==
    ASSUME IOInv, NEW c \in Containers, NEW from \in Nat, NEW to \in Nat, from < to, to <= now
    PROVE  LET done == Done(c, from, to) IN
           /\ Min(done) \in Nat /\ Max(done) \in Nat
           /\ \A k \in from + 1 .. to : Min(done) <= log[c][k] /\ log[c][k] <= Max(done)
           /\ \E k \in from + 1 .. to : Min(done) = log[c][k]
           /\ \E k \in from + 1 .. to : Max(done) = log[c][k]
<1> DEFINE l == log[c]
           done == {l[i] : i \in from + 1 .. to}
<1>1. now \in Nat /\ l \in Seq(Nat) /\ Len(l) = now
  BY OfOne
<1>2. \A k \in from + 1 .. to : k \in 1 .. Len(l)
  BY <1>1
<1>3. PICK b \in Nat : \A i \in 1 .. Len(l) : l[i] <= b
  <2> HIDE DEF l
  <2> QED BY <1>1, LogBounded
<1>4. \A k \in 1 .. Len(l) : l[k] \in Nat
  BY <1>1, ElementOfSeq
<1>5. from + 1 \in from + 1 .. to
  OBVIOUS
<1> HIDE DEF l
<1>6. done \in SUBSET Nat /\ done # {} /\ \A x \in done : x <= b
  BY <1>2, <1>3, <1>4, <1>5
<1>7. /\ \A k \in from + 1 .. to : l[k] \in done
      /\ \A x \in done : \E k \in from + 1 .. to : x = l[k]
  OBVIOUS
<1>8. Done(c, from, to) = done
  BY DEF Done, l
<1> HIDE DEF done
<1>9. Min(done) \in done /\ \A y \in done : Min(done) <= y
  BY <1>6, MinOfNumbers
<1>10. Max(done) \in done /\ \A y \in done : y <= Max(done)
  BY <1>6, MaxOfNumbers
<1> QED BY <1>6, <1>7, <1>8, <1>9, <1>10 DEF l

\* A rate of the calculator lies between the lowest and the highest load of the
\* window it was asked for, whatever points are missing, however often the container
\* started anew and whatever MaxPoints is (calculator.go:81-128).
THEOREM RateIsWithinLoad == Spec => []RateWithinLoad
<1>1. ASSUME IOInv PROVE RateWithinLoad
  <2> SUFFICES ASSUME NEW c \in Containers, NEW i \in DOMAIN byId[c]
               PROVE  LET sample == byId[c][i]
                          done == Done(c, Max({0, sample.t - RateWindow}), sample.t)
                      IN Min(done) <= sample.v /\ sample.v <= Max(done)
    BY Zenon DEF RateWithinLoad
  <2> DEFINE sample == byId[c][i]
             from == IF sample.t > RateWindow THEN sample.t - RateWindow ELSE 0
             done == Done(c, from, sample.t)
  <2>1. /\ now \in Nat /\ RateWindow \in Nat
        /\ sample.t \in Nat /\ sample.v \in Nat /\ RateOK(log[c], now, sample)
    BY <1>1, OfOne, StatsTyped DEF IOInv, Rates
  <2> HIDE DEF sample
  <2>2. /\ 0 < RateWindow /\ 0 < sample.t /\ sample.t <= now
        /\ \A m \in Nat : (\A k \in from + 1 .. sample.t : log[c][k] <= m) => sample.v <= m
        /\ \A m \in Nat : (\A k \in from + 1 .. sample.t : m <= log[c][k]) => m <= sample.v
    BY <2>1 DEF RateOK
  <2>3. Max({0, sample.t - RateWindow}) = from
    <3>1. \A e \in Int : Max({0, e}) = IF e > 0 THEN e ELSE 0
      BY DEF Max
    <3>2. sample.t - RateWindow \in Int /\ (sample.t - RateWindow > 0 <=> sample.t > RateWindow)
      BY <2>1
    <3> QED BY <3>1, <3>2
  <2>4. from \in Nat /\ from < sample.t
    BY <2>1, <2>2
  <2> HIDE DEF from
  <2>5. /\ Min(done) \in Nat /\ Max(done) \in Nat
        /\ \A k \in from + 1 .. sample.t : Min(done) <= log[c][k] /\ log[c][k] <= Max(done)
    BY <1>1, <2>1, <2>2, <2>4, LoadsOf
  <2> HIDE DEF done
  <2>6. Min(done) <= sample.v /\ sample.v <= Max(done)
    BY <2>2, <2>5
  <2> QED BY <2>3, <2>6 DEF done, sample
<1> QED BY <1>1, HistoryInvariant, PTL

\* If no other container has its name, the mean of a window is not above the highest
\* load of a container in the time it stands for, and not below the lowest one if the
\* container did not start anew in it, whatever rounds were missed or repeated and
\* whatever the windows are (metrics_analysis.go:50-79, metrics_collector.go:61).
THEOREM MeanIsWithinLoad == Spec => []MeanWithinLoad
<1>1. ASSUME IOInv, NEW c \in Containers, SoleName(c), NEW w \in Windows,
             Steps(byName[nameOf[c]], now - w) # {}
      PROVE  LET stats == byName[nameOf[c]]
                 steps == Steps(stats, now - w)
                 from == stats[Min(steps) - 1].t
                 done == Done(c, from, stats[Max(steps)].t)
             IN /\ Total(stats, now - w) <= Max(done) * Cardinality(steps)
                /\ restarted[c] = 0 \/ restarted[c] < from
                     => Total(stats, now - w) >= Min(done) * Cardinality(steps)
  <2> DEFINE stats == byName[nameOf[c]]
             l == log[c]
             cutoff == now - w
             steps == Steps(stats, cutoff)
             from == stats[Min(steps) - 1].t
             to == stats[Max(steps)].t
             done == Done(c, from, to)
  <2>1. /\ now \in Nat /\ stats \in Seq(Point) /\ l \in Seq(Nat) /\ restarted[c] \in Nat
        /\ cutoff \in Int /\ Tracks(l, now, counter[c], stats, Since(c))
    <3>1. w \in Nat
      BY HistoryConstantsOK
    <3>2. /\ now \in Nat /\ stats \in Seq(Point) /\ l \in Seq(Nat) /\ restarted[c] \in Nat
          /\ reading[c] \in Point
      BY <1>1, OfOne
    <3>3. Tracks(l, now, counter[c], Append(stats, reading[c]), Since(c))
      BY <1>1 DEF IOInv, Readings, Summary
    <3>4. Tracks(l, now, counter[c], stats, Since(c))
      <4> HIDE DEF stats, l
      <4> QED BY <3>2, <3>3, TracksShorter
    <3> QED BY <3>1, <3>2, <3>4
  <2>2. /\ Len(stats) \in Nat /\ DOMAIN stats = 1 .. Len(stats)
        /\ \A i \in DOMAIN stats : stats[i].t \in Nat /\ stats[i].v \in Nat
    BY <2>1, StatsTyped
  <2> HIDE DEF cutoff, stats, l
  <2>3. /\ steps \in SUBSET (1 .. Len(stats))
        /\ \A i \in steps :
             /\ i - 1 \in 1 .. Len(stats) /\ i \in 1 .. Len(stats)
             /\ stats[i - 1].t < stats[i].t
             /\ stats[i].t - stats[i - 1].t \in Nat \ {0}
             /\ stats[i].v - stats[i - 1].v \in Int
             /\ Slope(stats, i) \in Int
    BY <2>1, StepsTyped
  <2>4. steps # {}
    BY <1>1 DEF stats, cutoff
  <2> HIDE DEF steps
  <2>5. /\ Min(steps) \in steps /\ Max(steps) \in steps
        /\ \A i \in steps : Min(steps) <= i /\ i <= Max(steps)
    <3>1. steps \in SUBSET Nat /\ \A i \in steps : i <= Len(stats)
      BY <2>2, <2>3
    <3> QED BY <2>2, <2>4, <3>1, MinOfNumbers, MaxOfNumbers
  <2>6. \A i, j \in 1 .. Len(stats) : i <= j => stats[i].t <= stats[j].t
    <3> SUFFICES ASSUME NEW i \in 1 .. Len(stats), NEW j \in 1 .. Len(stats), i <= j
                 PROVE  stats[i].t <= stats[j].t
      OBVIOUS
    <3>1. CASE i = j
      BY <2>2, <3>1
    <3>2. CASE i # j
      <4>1. i < j
        BY <3>2
      <4> QED BY <2>1, <2>2, <4>1 DEF Tracks
    <3> QED BY <3>1, <3>2
  <2>7. \A i \in steps : from <= stats[i - 1].t /\ stats[i].t <= to
    <3> SUFFICES ASSUME NEW i \in steps PROVE from <= stats[i - 1].t /\ stats[i].t <= to
      OBVIOUS
    <3>1. /\ Min(steps) - 1 \in 1 .. Len(stats) /\ i - 1 \in 1 .. Len(stats)
          /\ i \in 1 .. Len(stats) /\ Max(steps) \in 1 .. Len(stats)
          /\ Min(steps) - 1 <= i - 1 /\ i <= Max(steps)
      <4>1. /\ Min(steps) - 1 \in 1 .. Len(stats) /\ Min(steps) \in 1 .. Len(stats)
            /\ i - 1 \in 1 .. Len(stats) /\ i \in 1 .. Len(stats) /\ Max(steps) \in 1 .. Len(stats)
            /\ Min(steps) <= i /\ i <= Max(steps)
        BY <2>3, <2>5
      <4> QED BY <4>1
    <3> QED BY <2>6, <3>1
  <2>8. from \in Nat /\ to \in Nat /\ from < to /\ to <= now
    <3>1. /\ Min(steps) - 1 \in 1 .. Len(stats) /\ Min(steps) \in 1 .. Len(stats)
          /\ Max(steps) \in 1 .. Len(stats)
      BY <2>3, <2>5
    <3>2. from < stats[Min(steps)].t /\ stats[Min(steps)].t <= to /\ to <= now
      BY <2>1, <2>2, <2>3, <2>5, <2>7, <3>1 DEF Tracks
    <3>3. from \in Nat /\ to \in Nat /\ stats[Min(steps)].t \in Nat
      BY <2>2, <3>1
    <3> QED BY <3>2, <3>3
  <2> HIDE DEF from, to
  <2>9. /\ Min(done) \in Nat /\ Max(done) \in Nat
        /\ \A k \in from + 1 .. to : Min(done) <= l[k] /\ l[k] <= Max(done)
    BY <1>1, <2>8, LoadsOf DEF l
  <2> HIDE DEF done
  <2>10. ASSUME NEW i \in steps
         PROVE  /\ \A k \in stats[i - 1].t + 1 .. stats[i].t : k \in from + 1 .. to
                /\ AtMost(l, stats[i - 1].t, stats[i].t, stats[i].v - stats[i - 1].v)
                /\ Since(c) < stats[i - 1].t
                     => AtLeast(l, stats[i - 1].t, stats[i].t, stats[i].v - stats[i - 1].v)
    <3>1. i - 1 \in DOMAIN stats /\ i \in DOMAIN stats /\ i - 1 < i
      <4>1. i - 1 \in 1 .. Len(stats) /\ i \in 1 .. Len(stats)
        BY <2>3
      <4> QED BY <2>2, <4>1
    <3>2. \A x, y \in Nat : from <= x /\ y <= to => \A k \in x + 1 .. y : k \in from + 1 .. to
      BY <2>8
    <3>3. \A k \in stats[i - 1].t + 1 .. stats[i].t : k \in from + 1 .. to
      BY <2>2, <2>7, <3>1, <3>2
    <3> QED BY <2>1, <3>1, <3>3 DEF Tracks
  <2>11. \A i \in steps : Slope(stats, i) <= Max(done)
    <3> SUFFICES ASSUME NEW i \in steps PROVE Slope(stats, i) <= Max(done)
      OBVIOUS
    <3> DEFINE d == stats[i].v - stats[i - 1].v
               b == stats[i].t - stats[i - 1].t
    <3>1. d <= Max(done) * b
      BY <2>9, <2>10 DEF AtMost
    <3>2. d \in Int /\ b \in Nat \ {0} /\ Slope(stats, i) = Truncated(d, b)
      BY <2>3 DEF Slope
    <3> HIDE DEF d, b
    <3> QED BY <2>9, <3>1, <3>2, TruncatedWithin
  <2>12. ASSUME restarted[c] = 0 \/ restarted[c] < from
         PROVE  \A i \in steps : Min(done) <= Slope(stats, i)
    <3> SUFFICES ASSUME NEW i \in steps PROVE Min(done) <= Slope(stats, i)
      OBVIOUS
    <3> DEFINE d == stats[i].v - stats[i - 1].v
               b == stats[i].t - stats[i - 1].t
    <3>1. Since(c) < stats[i - 1].t
      <4>1. stats[i - 1].t \in Nat /\ from <= stats[i - 1].t
        BY <2>2, <2>3, <2>7
      <4> QED BY <2>1, <2>8, <2>12, <4>1 DEF Since
    <3>2. Min(done) * b <= d
      BY <2>9, <2>10, <3>1 DEF AtLeast
    <3>3. d \in Int /\ b \in Nat \ {0} /\ Slope(stats, i) = Truncated(d, b)
      BY <2>3 DEF Slope
    <3> HIDE DEF d, b
    <3>4. Min(done) * b \in Int /\ d >= Min(done) * b
      BY <2>9, <3>2, <3>3
    <3>5. Truncated(d, b) \in Int /\ Truncated(d, b) >= Min(done)
      BY <2>9, <3>3, <3>4, TruncatedWithin
    <3> QED BY <2>9, <3>3, <3>5
  <2>13. Total(stats, cutoff) <= Max(done) * Cardinality(steps)
    BY <2>1, <2>9, <2>11, TotalWithin DEF steps
  <2>14. ASSUME restarted[c] = 0 \/ restarted[c] < from
         PROVE  Min(done) * Cardinality(steps) <= Total(stats, cutoff)
    BY <2>1, <2>9, <2>12, <2>14, TotalWithin DEF steps
  <2> QED BY <2>13, <2>14 DEF stats, steps, cutoff, from, to, done
<1>2. IOInv => MeanWithinLoad
  BY <1>1, Zenon DEF MeanWithinLoad
<1> QED BY <1>2, HistoryInvariant, PTL

\* addIOStats takes away no sample that has not expired.
LEMMA FreshOfAdded ==
    ASSUME NEW old \in Seq(Point), NEW sample \in Point, now \in Nat
    PROVE  LET new == addIOStats(old, sample) IN
           \A i \in DOMAIN old : old[i].t > now - HistoryWindow =>
             \E j \in DOMAIN new : new[j] = old[i]
<1> DEFINE new == addIOStats(old, sample)
<1>1. /\ Ends(new, old, sample)
      /\ \A i \in 1 .. Len(old) : old[i].t > now - HistoryWindow => \E j \in 1 .. Len(new) : new[j] = old[i]
  BY AddedAtTheEnd
<1> HIDE DEF new
<1>2. DOMAIN old = 1 .. Len(old) /\ DOMAIN new = 1 .. Len(new)
  BY <1>1, StatsTyped DEF Ends
<1> QED BY <1>1, <1>2 DEF new

\* No step takes away a sample that has not expired, unless its container is gone:
\* neither a repeated reading nor a late one makes cleanupContainerHistory cut off
\* more, and a container that is started twice within a unit of time has no sample
\* yet (metrics_collector.go:112-157).
THEOREM FreshAreKept == Spec => FreshKept
<1> DEFINE Kept(new, old) == \A i \in DOMAIN old : old[i].t > now - HistoryWindow =>
                               \E j \in DOMAIN new : new[j] = old[i]
           P == /\ \A n \in Names : \A i \in DOMAIN byName[n] : byName[n][i].t > now - HistoryWindow =>
                     \E j \in DOMAIN byName'[n] : byName'[n][j] = byName[n][i]
                /\ \A c \in Containers : restarted'[c] = restarted[c] =>
                     \A i \in DOMAIN byId[c] : byId[c][i].t > now - HistoryWindow =>
                       \E j \in DOMAIN byId'[c] : byId'[c][j] = byId[c][i]
           ByNameKept == \A n \in Names : Kept(byName'[n], byName[n])
<1>1. ASSUME IOInv, [Next]_vars, NEW c \in Containers
      PROVE  restarted'[c] = restarted[c] => Kept(byId'[c], byId[c])
  <2>0. /\ now \in Nat /\ byId[c] \in Seq(Point)
        /\ byId \in [Containers -> Seq(Point)] /\ restarted \in [Containers -> Nat]
    BY <1>1, OfOne DEF IOInv, TypeOK
  <2>9. \A new : Kept(new, new)
    OBVIOUS
  <2>1. ASSUME \/ \E seen, fresh \in SUBSET Containers : SummaryRound(seen, fresh)
               \/ \E d \in Containers : FileReading(d)
        PROVE  byId' = byId
    BY <2>1 DEF SummaryRound, FileReading, histories
  <2>2. ASSUME NEW d \in Containers, ConvertCadvisorToIOStats(d)
        PROVE  Kept(byId'[c], byId[c])
    <3> DEFINE sample == [t |-> now, v |-> CalculateIORate(points'[d], now - RateWindow)]
    <3>1. byId' = IF HasRate(points'[d], now - RateWindow)
                  THEN [byId EXCEPT ![d] = addIOStats(@, sample)] ELSE byId
      BY <2>2 DEF ConvertCadvisorToIOStats
    <3>2. CASE d = c /\ HasRate(points'[d], now - RateWindow)
      <4>1. /\ points'[d] \in Seq(Point) /\ log[d] \in Seq(Nat) /\ Len(log[d]) = now
            /\ counter[d] \in Nat /\ Tracks(log[d], now, counter[d], points'[d], -1)
        <5>1. IOInv' /\ UNCHANGED <<now, log, counter>>
          BY <1>1, <2>2, ConvertStep DEF ConvertCadvisorToIOStats, containers
        <5> QED BY <1>1, <5>1, OfOne DEF IOInv, TypeOK, Readings
      <4>2. sample \in Point
        BY <3>2, <4>1, RateOfReadings
      <4>3. byId'[c] = addIOStats(byId[c], sample)
        BY <2>0, <3>1, <3>2
      <4> HIDE DEF sample
      <4> QED BY <2>0, <3>1, <4>2, <4>3, FreshOfAdded
    <3>3. CASE ~(d = c /\ HasRate(points'[d], now - RateWindow))
      <4>1. byId'[c] = byId[c]
        BY <2>0, <3>1, <3>3
      <4> QED BY <2>9, <3>1, <4>1, Zenon
    <3> QED BY <3>2, <3>3
  <2>3. ASSUME NEW d \in Containers, ContainerRestarts(d)
        PROVE  restarted'[c] = restarted[c] => Kept(byId'[c], byId[c])
    <3>1. /\ byId' = [byId EXCEPT ![d] = <<>>]
          /\ restarted' = [restarted EXCEPT ![d] = now]
      BY <2>3 DEF ContainerRestarts
    <3>2. CASE d # c
      <4>1. byId'[c] = byId[c]
        BY <2>0, <3>1, <3>2
      <4> QED BY <2>9, <3>1, <4>1, Zenon
    <3>3. CASE d = c
      <4>1. ASSUME restarted'[c] = restarted[c] PROVE DOMAIN byId[c] = {}
        <5>1. restarted[c] = now
          BY <2>0, <3>1, <3>3, <4>1
        <5>2. \A i \in DOMAIN byId[c] :
                restarted[c] < byId[c][i].t /\ byId[c][i].t <= now /\ byId[c][i].t \in Nat
          BY <1>1, <2>0, StatsTyped DEF IOInv, Younger, Rates, RateOK
        <5> SUFFICES ASSUME NEW i \in DOMAIN byId[c] PROVE FALSE
          OBVIOUS
        <5>3. now < byId[c][i].t /\ byId[c][i].t <= now /\ byId[c][i].t \in Nat
          BY <5>1, <5>2
        <5> QED BY <2>0, <5>3
      <4> QED BY <3>1, <4>1
    <3> QED BY <3>2, <3>3
  <2>4. CASE Tick
    <3>1. byId' = byId
      BY <2>4 DEF Tick, histories
    <3> QED BY <2>9, <3>1, Zenon
  <2>5. CASE \/ CadvisorRound \/ NoRound
             \/ \E d \in Containers : GetCadvisorMetricsFails(d) \/ LoadChanges(d)
             \/ UNCHANGED vars
    <3>1. UNCHANGED <<byName, byId>>
      BY <1>1, <2>5, OtherSteps
    <3> QED BY <2>9, <3>1, Zenon
  <2> HIDE DEF Kept
  <2>6. CASE \/ \E seen, fresh \in SUBSET Containers : SummaryRound(seen, fresh)
             \/ \E d \in Containers : FileReading(d)
    BY <2>1, <2>6, <2>9, Zenon
  <2>7. CASE \E d \in Containers : ConvertCadvisorToIOStats(d)
    BY <2>2, <2>7, <2>9, Zenon
  <2>8. CASE \E d \in Containers : ContainerRestarts(d)
    BY <2>3, <2>8, <2>9, Zenon
  <2> QED BY <1>1, <2>4, <2>5, <2>6, <2>7, <2>8, Zenon DEF Next
<1>3. ASSUME IOInv, [Next]_vars PROVE ByNameKept
  <2>0. now \in Nat /\ byName \in [Names -> Seq(Point)]
    BY <1>3 DEF IOInv, TypeOK
  <2>9. \A new : Kept(new, new)
    OBVIOUS
  <2>1. ASSUME NEW d \in Containers, FileReading(d) PROVE ByNameKept
    <3> SUFFICES ASSUME NEW n \in Names PROVE Kept(byName'[n], byName[n])
      OBVIOUS
    <3>1. byName' = [byName EXCEPT ![nameOf[d]] = addIOStats(@, reading[d])]
      BY <2>1 DEF FileReading
    <3>2. reading[d] \in Point /\ byName[n] \in Seq(Point)
      BY <1>3, <2>0, OfOne
    <3>3. CASE n = nameOf[d]
      <4>1. byName'[n] = addIOStats(byName[n], reading[d])
        BY <2>0, <3>1, <3>3
      <4> QED BY <2>0, <3>2, <4>1, FreshOfAdded
    <3>4. CASE n # nameOf[d]
      <4>1. byName'[n] = byName[n]
        BY <2>0, <3>1, <3>4
      <4> QED BY <2>9, <4>1, Zenon
    <3> QED BY <3>3, <3>4
  <2>2. CASE byName' = byName
    BY <2>2, <2>9, Zenon
  <2>3. ASSUME \/ \E seen, fresh \in SUBSET Containers : SummaryRound(seen, fresh)
               \/ \E d \in Containers : ConvertCadvisorToIOStats(d) \/ ContainerRestarts(d)
               \/ Tick
        PROVE  byName' = byName
    BY <2>3 DEF SummaryRound, ConvertCadvisorToIOStats, ContainerRestarts, Tick, histories
  <2>4. ASSUME \/ CadvisorRound \/ NoRound
               \/ \E d \in Containers : GetCadvisorMetricsFails(d) \/ LoadChanges(d)
               \/ UNCHANGED vars
        PROVE  byName' = byName
    BY <1>3, <2>4, OtherSteps
  <2> HIDE DEF ByNameKept
  <2>5. CASE \/ \E seen, fresh \in SUBSET Containers : SummaryRound(seen, fresh)
             \/ \E d \in Containers : ConvertCadvisorToIOStats(d) \/ ContainerRestarts(d)
             \/ Tick
    BY <2>2, <2>3, <2>5, Zenon
  <2>6. CASE \/ CadvisorRound \/ NoRound
             \/ \E d \in Containers : GetCadvisorMetricsFails(d) \/ LoadChanges(d)
             \/ UNCHANGED vars
    BY <2>2, <2>4, <2>6, Zenon
  <2> QED BY <1>3, <2>1, <2>5, <2>6, Zenon DEF Next
<1>2. IOInv /\ [Next]_vars => [P]_vars
  BY <1>1, <1>3, Zenon
<1> QED BY <1>2, HistoryInvariant, PTL DEF Spec, FreshKept
====
