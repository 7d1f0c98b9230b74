---------------------------- MODULE JudgementProofs ----------------------------
(***************************************************************************)
(* What alerts, gates and policies keep, each by itself, for all values of     *)
(* their constants: warnings are held, no judgement is better for worse           *)
(* evidence, and nothing is hidden.  PerceptionProofs has what is sensed and       *)
(* shown, and carries all of it over to the run.                                    *)
(*                                                                                   *)
(* First the folds and the lists that the code works with, then the parts, one        *)
(* after the other: what its operators do, the invariant of the part, and what         *)
(* follows from it.                                                                      *)
(***************************************************************************)
EXTENDS AlertPipeline, SotifMonitor, AssuranceGates, HistoryPolicies,
        SequenceTheorems, FiniteSetTheorems, WellFoundedInduction, TLAPS

-----------------------------------------------------------------------------
(* Numbers, and folds over lists *)

\* Of some natural numbers one is the least.
LEMMA LeastExists ==
    ASSUME NEW T \in SUBSET Nat, T # {}
    PROVE  \E x \in T : \A y \in T : x <= y
<1>1. IsWellFoundedOn(OpToRel(<, Nat), Nat)
  BY NatLessThanWellFounded
<1>2. PICK x \in T : \A y \in T : ~(<<y, x>> \in OpToRel(<, Nat))
  BY <1>1, WFMin
<1>3. ASSUME NEW y \in T, y < x PROVE FALSE
  <2>1. y \in Nat /\ x \in Nat
    OBVIOUS
  <2>2. <<y, x>> \in OpToRel(<, Nat)
    BY <2>1, <1>3, Zenon DEF OpToRel
  <2> QED
    BY <1>2, <2>2
<1> QED
  BY <1>3

\* What holds of no step yet and is kept by each step holds of all of them.
LEMMA StepByStep ==
    ASSUME NEW n \in Nat, NEW P, 0 \in P, \A i \in 1..n : i - 1 \in P => i \in P
    PROVE  \A i \in 0..n : i \in P
<1> DEFINE T == {i \in 0..n : i \notin P}
<1> SUFFICES ASSUME T # {} PROVE FALSE
  OBVIOUS
<1>1. T \in SUBSET Nat
  OBVIOUS
<1>2. PICK x \in T : \A y \in T : x <= y
  BY <1>1, LeastExists
<1>3. x \in 0..n /\ x \notin P
  OBVIOUS
<1>4. x # 0 /\ x \in 1..n /\ x - 1 \in 0..n
  BY <1>3
<1>5. x - 1 \notin T
  <2>1. ~(x <= x - 1)
    BY <1>3
  <2> QED
    BY <1>2, <2>1
<1>6. x - 1 \in P
  BY <1>4, <1>5
<1> QED
  BY <1>3, <1>4, <1>6

\* The greatest of some of the numbers up to n.
LEMMA GreatestIsMax ==
    ASSUME NEW n \in Nat, NEW s \in SUBSET (1..n), s # {}
    PROVE  Max(s) \in s /\ \A y \in s : Max(s) >= y
<1> DEFINE T == {n - y : y \in s}
<1>1. T \in SUBSET Nat /\ T # {}
  <2>1. \A y \in s : y \in 1..n
    OBVIOUS
  <2>2. \A y \in 1..n : n - y \in Nat
    OBVIOUS
  <2> QED
    BY <2>1, <2>2, Zenon
<1>2. PICK x \in T : \A y \in T : x <= y
  BY <1>1, LeastExists
<1>3. PICK m \in s : x = n - m
  OBVIOUS
<1>4. \A y \in s : m >= y
  <2> SUFFICES ASSUME NEW y \in s PROVE m >= y
    OBVIOUS
  <2>1. x <= n - y
    <3>1. n - y \in T
      BY Zenon
    <3> HIDE DEF T
    <3> QED
      BY <1>2, <3>1
  <2>2. y \in 1..n /\ m \in 1..n
    OBVIOUS
  <2>3. y \in Nat /\ m \in Nat
    BY <2>2
  <2> QED
    BY <1>3, <2>1, <2>3
<1> QED
  BY <1>4 DEF Max

\* The greater of two numbers.
LEMMA MaxOfTwo ==
    ASSUME NEW a \in Int, NEW b \in Int
    PROVE  Max({a, b}) = IF a >= b THEN a ELSE b
BY DEF Max

\* The greatest of the numbers up to i, and what is left without it.
LEMMA MaxOfFirst ==
    ASSUME NEW i \in Nat \ {0}
    PROVE  1..i # {} /\ Max(1..i) = i /\ (1..i) \ {Max(1..i)} = 1..(i - 1)
<1>1. i \in 1..i /\ \A y \in 1..i : i >= y
  OBVIOUS
<1>2. Max(1..i) \in 1..i /\ \A y \in 1..i : Max(1..i) >= y
  BY <1>1, GreatestIsMax
<1>3. Max(1..i) = i
  BY <1>1, <1>2
<1>4. (1..i) \ {i} = 1..(i - 1)
  OBVIOUS
<1> QED
  BY <1>1, <1>3, <1>4

\* Steps over some of the places up to n, from base, the last place last.
IsFold(g, n, St, base, next) ==
    /\ g \in [SUBSET (1..n) -> St]
    /\ \A s \in SUBSET (1..n) :
          g[s] = IF s = {} THEN base ELSE next[Max(s)][g[s \ {Max(s)}]]

\* The same steps over the places up to n in their order.
IsRun(h, n, St, base, next) ==
    /\ h \in [0..n -> St] /\ h[0] = base
    /\ \A i \in 1..n : h[i] = next[i][h[i - 1]]

\* From base f takes those steps as long as it is in St.
Follows(f, n, St, base, next) ==
    /\ f[{}] = base
    /\ \A s \in SUBSET (1..n) : s # {} /\ f[s \ {Max(s)}] \in St
          => f[s] = next[Max(s)][f[s \ {Max(s)}]]

\* Steps that stay in St can be folded.
LEMMA FoldExists ==
    ASSUME NEW n \in Nat, NEW St, NEW base \in St, NEW next \in [1..n -> [St -> St]]
    PROVE  \E g : IsFold(g, n, St, base, next)
<1> DEFINE Folds(g, k) == \A s \in SUBSET (1..k) :
               g[s] = IF s = {} THEN base ELSE next[Max(s)][g[s \ {Max(s)}]]
           Ok(k) == \E g \in [SUBSET (1..k) -> St] : Folds(g, k)
           P == {k \in 0..n : Ok(k)}
<1>1. 0 \in P
  <2>1. SUBSET (1..0) = {{}}
    <3>1. 1..0 = {}
      OBVIOUS
    <3>2. SUBSET {} = {{}}
      BY Zenon
    <3> QED
      BY <3>1, <3>2, Zenon
  <2> DEFINE g == [s \in SUBSET (1..0) |-> base]
  <2>2. g \in [SUBSET (1..0) -> St]
    BY Zenon
  <2>3. Folds(g, 0)
    BY <2>1
  <2>4. Ok(0)
    <3> HIDE DEF g, Folds
    <3> QED
      BY <2>2, <2>3
  <2> HIDE DEF Ok
  <2> QED
    BY <2>4
<1>2. ASSUME NEW i \in 1..n, i - 1 \in P PROVE i \in P
  <2>1. PICK g \in [SUBSET (1..(i - 1)) -> St] : Folds(g, i - 1)
    <3>1. Ok(i - 1)
      BY <1>2
    <3> QED
      BY <3>1
  <2> DEFINE g2 == [s \in SUBSET (1..i) |->
                       IF i \in s THEN next[i][g[s \ {i}]] ELSE g[s]]
  <2>2. \A s \in SUBSET (1..i) : /\ s \ {i} \in SUBSET (1..(i - 1))
                                 /\ i \notin s => s \in SUBSET (1..(i - 1))
    OBVIOUS
  <2>3. g2 \in [SUBSET (1..i) -> St]
    BY <2>2
  <2>4. ASSUME NEW s \in SUBSET (1..i)
        PROVE  g2[s] = IF s = {} THEN base ELSE next[Max(s)][g2[s \ {Max(s)}]]
    <3>1. CASE i \in s
      <4>1. Max(s) = i
        <5>1. \A y \in s : y \in 1..i
          OBVIOUS
        <5>2. i \in Nat /\ \A y \in s : y <= i /\ y \in Nat
          BY <5>1
        <5>3. s # {}
          BY <3>1
        <5>4. Max(s) \in s /\ \A y \in s : Max(s) >= y
          BY <5>2, <5>3, GreatestIsMax
        <5>5. Max(s) \in Nat /\ Max(s) <= i /\ Max(s) >= i
          BY <3>1, <5>2, <5>4
        <5> QED
          BY <5>2, <5>5
      <4>2. s \ {i} \in SUBSET (1..i) /\ i \notin s \ {i}
        OBVIOUS
      <4>3. g2[s \ {i}] = g[s \ {i}]
        BY <4>2
      <4>4. g2[s] = next[i][g[s \ {i}]]
        BY <3>1
      <4> QED
        BY <3>1, <4>1, <4>3, <4>4
    <3>2. CASE i \notin s
      <4>1. g2[s] = g[s] /\ s \in SUBSET (1..(i - 1))
        BY <2>2, <3>2
      <4>2. g[s] = IF s = {} THEN base ELSE next[Max(s)][g[s \ {Max(s)}]]
        BY <2>1, <4>1
      <4>3. g2[s \ {Max(s)}] = g[s \ {Max(s)}]
        BY <3>2
      <4> QED
        BY <4>1, <4>2, <4>3
    <3> QED
      BY <3>1, <3>2
  <2>5. Folds(g2, i)
    BY <2>4
  <2>6. Ok(i)
    <3> HIDE DEF g2, Folds
    <3> QED
      BY <2>3, <2>5
  <2> HIDE DEF Ok
  <2> QED
    BY <2>6
<1>3. n \in P
  <2> HIDE DEF P
  <2>1. \A i \in 0..n : i \in P
    BY <1>1, <1>2, StepByStep
  <2>2. n \in 0..n
    OBVIOUS
  <2> QED
    BY <2>1, <2>2
<1>4. Ok(n)
  <2> HIDE DEF Ok
  <2> QED
    BY <1>3
<1>5. PICK g \in [SUBSET (1..n) -> St] : Folds(g, n)
  BY <1>4
<1>6. IsFold(g, n, St, base, next)
  BY <1>5 DEF IsFold
<1> QED
  BY <1>6

\* What has been folded so, whoever folded it, is what the steps make one after the other.
LEMMA FoldSteps ==
    ASSUME NEW n \in Nat, NEW St, NEW base \in St, NEW next \in [1..n -> [St -> St]],
           NEW f, Follows(f, n, St, base, next)
    PROVE  \E h : IsRun(h, n, St, base, next) /\ h[n] = f[1..n]
<1>1. \A i \in 1..n : f[1..(i - 1)] \in St => f[1..i] = next[i][f[1..(i - 1)]]
  <2> SUFFICES ASSUME NEW i \in 1..n, f[1..(i - 1)] \in St
               PROVE  f[1..i] = next[i][f[1..(i - 1)]]
    OBVIOUS
  <2> DEFINE s == 1..i
  <2>1. s \in SUBSET (1..n) /\ i \in Nat \ {0}
    OBVIOUS
  <2>2. s # {} /\ Max(s) = i /\ s \ {Max(s)} = 1..(i - 1)
    BY <2>1, MaxOfFirst
  <2> QED
    BY <2>1, <2>2 DEF Follows
<1> DEFINE h == [i \in 0..n |-> f[1..i]]
<1>2. h[0] = base /\ h[n] = f[1..n]
  <2>1. 1..0 = {} /\ 0 \in 0..n /\ n \in 0..n
    OBVIOUS
  <2>2. h[0] = f[1..0] /\ h[n] = f[1..n]
    BY <2>1
  <2> QED
    BY <2>1, <2>2 DEF Follows
<1>3. \A i \in 1..n : h[i] = f[1..i] /\ h[i - 1] = f[1..(i - 1)] /\ i - 1 \in 0..n
  OBVIOUS
<1> DEFINE P == {i \in 0..n : h[i] \in St}
<1>4. \A i \in 0..n : h[i] \in St
  <2> HIDE DEF h
  <2>1. 0 \in P
    BY <1>2
  <2>2. \A i \in 1..n : i - 1 \in P => i \in P
    BY <1>1, <1>3
  <2>3. \A i \in 0..n : i \in P
    <3> HIDE DEF P
    <3> QED
      BY <2>1, <2>2, StepByStep
  <2> QED
    BY <2>3
<1>5. h \in [0..n -> St]
  BY <1>4
<1>6. \A i \in 1..n : h[i] = next[i][h[i - 1]]
  <2> HIDE DEF h
  <2> QED
    BY <1>1, <1>3, <1>4
<1>7. IsRun(h, n, St, base, next)
  <2> HIDE DEF h
  <2> QED
    BY <1>2, <1>5, <1>6 DEF IsRun
<1> QED
  <2> HIDE DEF h
  <2> QED
    BY <1>2, <1>7

\* f folds steps that stay in St.
FoldsOf(f, n, St, base, next) ==
    n \in Nat /\ base \in St /\ next \in [1..n -> [St -> St]] /\ Follows(f, n, St, base, next)

\* What f has made of all of them was made one after the other.
MadeBySteps(f, n, St, base, next) == \E h : IsRun(h, n, St, base, next) /\ h[n] = f[1..n]

\* FoldSteps, in these words.
LEMMA FoldsAreMade ==
    ASSUME NEW f, NEW n, NEW St, NEW base, NEW next, FoldsOf(f, n, St, base, next)
    PROVE  MadeBySteps(f, n, St, base, next)
<1>1. n \in Nat /\ base \in St /\ next \in [1..n -> [St -> St]] /\ Follows(f, n, St, base, next)
  BY DEF FoldsOf
<1> QED
  BY <1>1, FoldSteps DEF MadeBySteps

-----------------------------------------------------------------------------
(* Lists made of other lists *)

\* R orders I: of two places one comes before the other.
Totally(R, I) ==
    /\ \A i \in I : <<i, i>> \notin R
    /\ \A i, j \in I : i # j => <<i, j>> \in R \/ <<j, i>> \in R
    /\ \A i, j, k \in I : <<i, j>> \in R /\ <<j, k>> \in R => <<i, k>> \in R

Foregoing(R, I, i) == {j \in I : <<j, i>> \in R}

\* The places of I in their order.
InOrder(p, R, I) ==
    /\ p \in [1..Cardinality(I) -> I]
    /\ \A i \in I : \E k \in 1..Cardinality(I) : p[k] = i
    /\ \A k, l \in 1..Cardinality(I) : k < l <=> <<p[k], p[l]>> \in R

\* Counting those before it tells each place from every other, and from 0 on.
LEMMA RanksAreApart ==
    ASSUME NEW I, IsFiniteSet(I), NEW R, Totally(R, I)
    PROVE  /\ \A i \in I : Cardinality(Foregoing(R, I, i)) \in 0..(Cardinality(I) - 1)
           /\ \A i, j \in I : <<i, j>> \in R => Cardinality(Foregoing(R, I, i)) < Cardinality(Foregoing(R, I, j))
           /\ \A n \in 0..(Cardinality(I) - 1) : \E i \in I : Cardinality(Foregoing(R, I, i)) = n
<1>1. \A i \in I : /\ IsFiniteSet(Foregoing(R, I, i)) /\ Cardinality(Foregoing(R, I, i)) \in Nat
                   /\ Foregoing(R, I, i) \subseteq I \ {i}
  <2> SUFFICES ASSUME NEW i \in I
               PROVE  /\ IsFiniteSet(Foregoing(R, I, i)) /\ Cardinality(Foregoing(R, I, i)) \in Nat
                      /\ Foregoing(R, I, i) \subseteq I \ {i}
    OBVIOUS
  <2>1. Foregoing(R, I, i) \in SUBSET I /\ Foregoing(R, I, i) \subseteq I \ {i}
    BY DEF Foregoing, Totally
  <2> QED
    BY <2>1, FS_Subset, FS_CardinalityType
<1>2. Cardinality(I) \in Nat
  BY FS_CardinalityType
<1>3. ASSUME NEW i \in I PROVE Cardinality(Foregoing(R, I, i)) \in 0..(Cardinality(I) - 1)
  <2>1. IsFiniteSet(I \ {i}) /\ Cardinality(I \ {i}) = Cardinality(I) - 1
    BY FS_RemoveElement
  <2>2. Cardinality(Foregoing(R, I, i)) <= Cardinality(I \ {i})
    BY <1>1, <2>1, FS_Subset
  <2> QED
    BY <1>1, <1>2, <2>1, <2>2
<1>4. ASSUME NEW i \in I, NEW j \in I, <<i, j>> \in R
      PROVE  Cardinality(Foregoing(R, I, i)) < Cardinality(Foregoing(R, I, j))
  <2>1. Foregoing(R, I, i) \cup {i} \subseteq Foregoing(R, I, j) /\ i \notin Foregoing(R, I, i)
    BY <1>4 DEF Foregoing, Totally
  <2>2. /\ IsFiniteSet(Foregoing(R, I, i) \cup {i})
        /\ Cardinality(Foregoing(R, I, i) \cup {i}) = Cardinality(Foregoing(R, I, i)) + 1
    BY <1>1, <2>1, FS_AddElement
  <2>3. Cardinality(Foregoing(R, I, i) \cup {i}) <= Cardinality(Foregoing(R, I, j))
    BY <1>1, <2>1, FS_Subset
  <2> QED
    BY <1>1, <2>2, <2>3
<1> DEFINE f == [i \in I |-> Cardinality(Foregoing(R, I, i))]
           T == 0..(Cardinality(I) - 1)
<1>5. f \in Injection(I, T)
  <2>1. f \in [I -> T]
    BY <1>3
  <2>2. \A i, j \in I : f[i] = f[j] => i = j
    <3> SUFFICES ASSUME NEW i \in I, NEW j \in I, i # j PROVE f[i] # f[j]
      OBVIOUS
    <3>1. <<i, j>> \in R \/ <<j, i>> \in R
      BY DEF Totally
    <3>2. Cardinality(Foregoing(R, I, i)) \in Nat /\ Cardinality(Foregoing(R, I, j)) \in Nat
      BY <1>1
    <3> QED
      BY <1>4, <3>1, <3>2
  <2> QED
    BY <2>1, <2>2 DEF Injection, IsInjective
<1>6. IsFiniteSet(T) /\ Cardinality(T) = Cardinality(I)
  BY <1>2, FS_Interval
<1>7. f \in Surjection(I, T)
  <2> HIDE DEF f, T
  <2> QED
    BY <1>5, <1>6, FS_Injection
<1>8. \A n \in T : \E i \in I : f[i] = n
  <2> HIDE DEF f, T
  <2> QED
    BY <1>7 DEF Surjection
<1> QED
  BY <1>3, <1>4, <1>8

\* To take the place with as many before it as were taken is to take them in order.
LEMMA RanksAreInOrder ==
    ASSUME NEW I, IsFiniteSet(I), NEW R, Totally(R, I)
    PROVE  InOrder([k \in 1..Cardinality(I) |->
                      CHOOSE i \in I : Cardinality(Foregoing(R, I, i)) = k - 1], R, I)
<1> DEFINE n == Cardinality(I)
           rank(i) == Cardinality(Foregoing(R, I, i))
           p == [k \in 1..n |-> CHOOSE i \in I : rank(i) = k - 1]
<1>1. n \in Nat
  BY FS_CardinalityType
<1>2. /\ \A i \in I : rank(i) \in 0..(n - 1)
      /\ \A i, j \in I : <<i, j>> \in R => rank(i) < rank(j)
      /\ \A m \in 0..(n - 1) : \E i \in I : rank(i) = m
  BY RanksAreApart
<1> HIDE DEF n, rank
<1>3. \A k \in 1..n : p[k] \in I /\ rank(p[k]) = k - 1
  <2> SUFFICES ASSUME NEW k \in 1..n PROVE p[k] \in I /\ rank(p[k]) = k - 1
    OBVIOUS
  <2>1. k - 1 \in 0..(n - 1)
    BY <1>1
  <2>2. \E i \in I : rank(i) = k - 1
    BY <1>2, <2>1
  <2> QED
    BY <2>2
<1>4. p \in [1..n -> I]
  BY <1>3
<1> HIDE DEF p
<1>5. \A i, j \in I : rank(i) = rank(j) => i = j
  <2> SUFFICES ASSUME NEW i \in I, NEW j \in I, i # j PROVE rank(i) # rank(j)
    OBVIOUS
  <2>1. <<i, j>> \in R \/ <<j, i>> \in R
    BY DEF Totally
  <2>2. rank(i) \in Int /\ rank(j) \in Int
    BY <1>1, <1>2
  <2> QED
    BY <1>2, <2>1, <2>2
<1>6. ASSUME NEW i \in I PROVE \E k \in 1..n : p[k] = i
  <2>1. PICK k \in 1..n : k - 1 = rank(i)
    <3>1. ASSUME NEW m \in 0..(n - 1) PROVE \E k \in 1..n : k - 1 = m
      <4>1. m + 1 \in 1..n /\ (m + 1) - 1 = m
        BY <1>1
      <4> QED
        BY <4>1
    <3> QED
      BY <1>2, <3>1
  <2>2. p[k] \in I /\ rank(p[k]) = rank(i)
    BY <1>3, <2>1
  <2>3. p[k] = i
    BY <1>5, <2>2
  <2> QED
    BY <2>3
<1>7. ASSUME NEW k \in 1..n, NEW l \in 1..n PROVE k < l <=> <<p[k], p[l]>> \in R
  <2>1. p[k] \in I /\ p[l] \in I /\ rank(p[k]) = k - 1 /\ rank(p[l]) = l - 1
    BY <1>3
  <2>2. CASE <<p[k], p[l]>> \in R
    <3>1. rank(p[k]) < rank(p[l])
      BY <1>2, <2>1, <2>2
    <3> QED
      BY <1>1, <2>1, <2>2, <3>1
  <2>3. CASE <<p[k], p[l]>> \notin R
    <3>1. p[k] = p[l] \/ rank(p[l]) < rank(p[k])
      BY <1>2, <2>1, <2>3 DEF Totally
    <3> QED
      BY <1>1, <2>1, <2>3, <3>1
  <2> QED
    BY <2>2, <2>3
<1>8. InOrder(p, R, I)
  BY <1>4, <1>6, <1>7 DEF InOrder, n
<1> QED
  BY <1>8 DEF p, rank, n

\* Places that follow one another upwards.
Upwards(p, n, I) ==
    /\ p \in [1..n -> I]
    /\ \A i \in I : \E k \in 1..n : p[k] = i
    /\ \A k, l \in 1..n : k < l <=> p[k] < p[l]

\* What Kept keeps: as many elements as places, in their order.
LEMMA KeptIs ==
    ASSUME NEW X, NEW list \in Seq(X), NEW I \in SUBSET DOMAIN list
    PROVE  /\ IsFiniteSet(I) /\ Cardinality(I) \in Nat
           /\ Kept(list, I) \in Seq(X) /\ Len(Kept(list, I)) = Cardinality(I)
           /\ \E p : Upwards(p, Cardinality(I), I) /\ \A k \in 1..Cardinality(I) : Kept(list, I)[k] = list[p[k]]
<1> DEFINE R == {r \in I \X I : r[1] < r[2]}
           n == Cardinality(I)
<1>1. DOMAIN list = 1..Len(list) /\ Len(list) \in Nat
  BY LenProperties
<1>2. IsFiniteSet(I) /\ n \in Nat
  <2>1. IsFiniteSet(DOMAIN list)
    BY <1>1, FS_Interval
  <2> QED
    BY <2>1, FS_Subset, FS_CardinalityType
<1>3. \A i \in I : i \in Int
  BY <1>1
<1>4. Totally(R, I)
  BY <1>3 DEF Totally
<1>5. \A i, j \in I : <<i, j>> \in R <=> i < j
  OBVIOUS
<1>6. \A i \in I : Foregoing(R, I, i) = {j \in I : j < i}
  BY <1>5 DEF Foregoing
<1> HIDE DEF R
<1> DEFINE p == [k \in 1..n |-> CHOOSE i \in I : Cardinality(Foregoing(R, I, i)) = k - 1]
           q == [k \in 1..n |-> CHOOSE i \in I : Cardinality({j \in I : j < i}) = k - 1]
<1>7. InOrder(p, R, I)
  BY <1>2, <1>4, RanksAreInOrder
<1>8. p = q
  <2> SUFFICES ASSUME NEW k \in 1..n PROVE p[k] = q[k]
    BY Zenon
  <2>1. \A i \in I : Cardinality(Foregoing(R, I, i)) = k - 1 <=> Cardinality({j \in I : j < i}) = k - 1
    BY <1>6
  <2>2. p[k] = CHOOSE i \in I : Cardinality(Foregoing(R, I, i)) = k - 1
    OBVIOUS
  <2>3. q[k] = CHOOSE i \in I : Cardinality({j \in I : j < i}) = k - 1
    OBVIOUS
  <2> HIDE DEF p, q
  <2> QED
    BY <2>1, <2>2, <2>3
<1>9. Kept(list, I) = [k \in 1..n |-> list[q[k]]]
  BY DEF Kept, Arranged
<1> HIDE DEF p, q
<1>10. Upwards(p, n, I)
  <2>1. p \in [1..n -> I] /\ \A i \in I : \E k \in 1..n : p[k] = i
    BY <1>7 DEF InOrder, n
  <2>2. \A k, l \in 1..n : k < l <=> p[k] < p[l]
    BY <1>5, <1>7, <2>1 DEF InOrder, n
  <2> QED
    BY <2>1, <2>2 DEF Upwards
<1>11. \A k \in 1..n : p[k] \in I /\ list[p[k]] \in X
  <2>1. \A k \in 1..n : p[k] \in DOMAIN list
    BY <1>10 DEF Upwards
  <2> QED
    BY <1>1, <1>10, <2>1, ElementOfSeq DEF Upwards
<1>12. Kept(list, I) \in [1..n -> X]
  BY <1>8, <1>9, <1>11
<1>13. Kept(list, I) \in Seq(X) /\ Len(Kept(list, I)) = n
  BY <1>2, <1>12, SeqDef, LenProperties
<1> QED
  BY <1>2, <1>8, <1>9, <1>10, <1>13

\* What a sequence of things holds, and how many at most.
LEMMA SeqSet ==
    ASSUME NEW S, NEW q \in Seq(S)
    PROVE  /\ DOMAIN q = 1..Len(q) /\ Len(q) \in Nat /\ \A i \in DOMAIN q : q[i] \in S
           /\ ToSet(q) \subseteq S /\ IsFiniteSet(ToSet(q))
           /\ Cardinality(ToSet(q)) \in Nat /\ Cardinality(ToSet(q)) <= Len(q)
<1>1. DOMAIN q = 1..Len(q) /\ Len(q) \in Nat /\ q \in [1..Len(q) -> S]
  BY LenProperties
<1>2. \A i \in DOMAIN q : q[i] \in S
  BY <1>1
<1>3. q \in Surjection(1..Len(q), ToSet(q))
  BY <1>1 DEF Surjection, ToSet
<1>4. IsFiniteSet(1..Len(q)) /\ Cardinality(1..Len(q)) = Len(q)
  BY <1>1, FS_Interval
<1>5. IsFiniteSet(ToSet(q)) /\ Cardinality(ToSet(q)) <= Len(q)
  BY <1>3, <1>4, FS_Surjection
<1>6. Cardinality(ToSet(q)) \in Nat
  BY <1>5, FS_CardinalityType
<1> QED
  BY <1>1, <1>2, <1>5, <1>6 DEF ToSet

\* The arrangements of a finite set are sequences of all of it.
LEMMA ArrangementHoldsAll ==
    ASSUME NEW S, IsFiniteSet(S), NEW q \in SetToSeqs(S)
    PROVE  q \in Seq(S) /\ Len(q) = Cardinality(S) /\ ToSet(q) = S
<1> DEFINE D == 1..Cardinality(S)
<1>1. Cardinality(S) \in Nat
  BY FS_CardinalityType
<1>2. q \in [D -> S] /\ \A i, j \in D : i # j => q[i] # q[j]
  BY DEF SetToSeqs
<1>3. q \in Seq(S) /\ Len(q) = Cardinality(S) /\ DOMAIN q = D
  BY <1>1, <1>2, SeqDef
<1>4. q \in Injection(D, S)
  BY <1>2 DEF Injection, IsInjective
<1>5. Cardinality(D) = Cardinality(S)
  BY <1>1, FS_Interval
<1>6. q \in Surjection(D, S)
  BY <1>4, <1>5, FS_Injection
<1>7. ToSet(q) = S
  BY <1>3, <1>6 DEF Surjection, ToSet
<1> QED
  BY <1>3, <1>7

-----------------------------------------------------------------------------
(* AlertStabilizer: the fold over a frame *)

Entries == [severity : Severities, age : 0..LongAgo, changed : 0..LongAgo]

\* What the stabilizer may hold.
ActiveMaps ==
    {m \in UNION {[K -> Entries] : K \in SUBSET Keys} : IsFiniteSet(DOMAIN m)}

\* What a frame has noted so far is noted for one key at a time.
LEMMA NotedStays ==
    ASSUME PipelineAssumption, NEW m \in ActiveMaps, NEW a \in Alerts
    PROVE  /\ Noted(m, a) \in ActiveMaps
           /\ DOMAIN Noted(m, a) = DOMAIN m \cup {a.key}
           /\ \A k \in DOMAIN m \ {a.key} : Noted(m, a)[k] = m[k]
           /\ Noted(m, a)[a.key] = IF a.key \in DOMAIN m THEN Smoothed(m[a.key], a) ELSE Fresh(a)
<1> USE DEF Severities, Entries
<1>1. a.key \in Keys /\ a.severity \in Severities
  BY DEF Alerts
<1>2. DOMAIN m \subseteq Keys /\ IsFiniteSet(DOMAIN m) /\ \A k \in DOMAIN m : m[k] \in Entries
  BY DEF ActiveMaps
<1>3. LongAgo \in Nat
  BY DEF PipelineAssumption, LongAgo
<1>4. Fresh(a) \in Entries
  BY <1>1, <1>3 DEF Fresh
<1>5. ASSUME a.key \in DOMAIN m PROVE Smoothed(m[a.key], a) \in Entries
  BY <1>1, <1>2, <1>3, <1>5 DEF Smoothed
<1>6. IsFiniteSet(DOMAIN m \cup {a.key})
  BY <1>2, FS_AddElement
<1>7. Noted(m, a) \in [DOMAIN m \cup {a.key} -> Entries]
  BY <1>2, <1>4, <1>5 DEF Noted
<1>8. Noted(m, a) \in ActiveMaps
  BY <1>1, <1>2, <1>6, <1>7, SMTT(30) DEF ActiveMaps
<1> QED
  BY <1>8 DEF Noted

\* The fold goes through the frame, one alert after the other.
LEMMA NotedFolds ==
    ASSUME PipelineAssumption, NEW m \in ActiveMaps, NEW frame \in Seq(Alerts)
    PROVE  \E h \in [0..Len(frame) -> ActiveMaps] :
               /\ h[0] = m /\ h[Len(frame)] = FoldLeft(Noted, m, frame)
               /\ \A i \in 1..Len(frame) : h[i] = Noted(h[i - 1], frame[i])
<1> DEFINE n == Len(frame)
           Q(g) == g = [s \in SUBSET DOMAIN frame |->
                          IF s = {} THEN m ELSE Noted(g[s \ {Max(s)}], frame[Max(s)])]
           next == [i \in 1..n |-> [x \in ActiveMaps |-> Noted(x, frame[i])]]
<1>1. n \in Nat /\ DOMAIN frame = 1..n /\ \A i \in 1..n : frame[i] \in Alerts
  BY SeqSet
<1>2. next \in [1..n -> [ActiveMaps -> ActiveMaps]]
  BY <1>1, NotedStays
<1>3. PICK g : IsFold(g, n, ActiveMaps, m, next)
  <2> HIDE DEF next, n
  <2> QED
    BY <1>1, <1>2, FoldExists
<1>4. Q(g)
  <2> SUFFICES ASSUME NEW s \in SUBSET (1..n)
               PROVE  g[s] = IF s = {} THEN m ELSE Noted(g[s \ {Max(s)}], frame[Max(s)])
    BY <1>1, <1>3 DEF IsFold
  <2>1. CASE s = {}
    BY <1>3, <2>1 DEF IsFold
  <2>2. CASE s # {}
    <3>1. Max(s) \in s
      BY <1>1, <2>2, GreatestIsMax
    <3>2. g[s \ {Max(s)}] \in ActiveMaps
      BY <1>3 DEF IsFold
    <3>3. next[Max(s)][g[s \ {Max(s)}]] = Noted(g[s \ {Max(s)}], frame[Max(s)])
      BY <3>1, <3>2
    <3> QED
      BY <1>3, <2>2, <3>3 DEF IsFold
  <2> QED
    BY <2>1, <2>2
<1>5. FoldLeft(Noted, m, frame) = (CHOOSE f : Q(f))[DOMAIN frame]
  BY DEF FoldLeft, MapThenFoldSet
<1>6. Q(CHOOSE f : Q(f))
  <2> HIDE DEF Q
  <2> QED
    BY <1>4
<1> DEFINE f == CHOOSE x : Q(x)
<1>7. Q(f)
  BY <1>6
<1> HIDE DEF f
<1>8. f[{}] = m
  BY <1>7
<1>9. ASSUME NEW s \in SUBSET (1..n), s # {}, f[s \ {Max(s)}] \in ActiveMaps
      PROVE  f[s] = next[Max(s)][f[s \ {Max(s)}]]
  <2>1. f[s] = Noted(f[s \ {Max(s)}], frame[Max(s)])
    BY <1>1, <1>7, <1>9
  <2>2. Max(s) \in 1..n
    BY <1>1, <1>9, GreatestIsMax
  <2> QED
    BY <1>9, <2>1, <2>2
<1> HIDE DEF Q
<1>10. Follows(f, n, ActiveMaps, m, next)
  BY <1>8, <1>9 DEF Follows
<1>11. PICK h : IsRun(h, n, ActiveMaps, m, next) /\ h[n] = f[1..n]
  <2> HIDE DEF next, n
  <2>1. n \in Nat /\ m \in ActiveMaps
    BY <1>1
  <2>2. next \in [1..n -> [ActiveMaps -> ActiveMaps]]
    BY <1>2
  <2>8. FoldsOf(f, n, ActiveMaps, m, next)
    BY <2>1, <2>2, <1>10 DEF FoldsOf
  <2>9. MadeBySteps(f, n, ActiveMaps, m, next)
    BY <2>8, FoldsAreMade
  <2> QED
    BY <2>9 DEF MadeBySteps
<1>12. \A i \in 1..n : h[i] = Noted(h[i - 1], frame[i])
  <2> SUFFICES ASSUME NEW i \in 1..n PROVE h[i] = Noted(h[i - 1], frame[i])
    OBVIOUS
  <2>1. i - 1 \in 0..n
    BY <1>1
  <2>2. h[i - 1] \in ActiveMaps
    BY <1>11, <2>1 DEF IsRun
  <2> QED
    BY <1>11, <2>2 DEF IsRun
<1>13. h[n] = FoldLeft(Noted, m, frame)
  BY <1>1, <1>5, <1>11 DEF f
<1> HIDE DEF Q, next
<1> QED
  BY <1>11, <1>12, <1>13 DEF IsRun

\* How an entry may have moved within a frame: a change of severity dates it anew, and
\* a critical one has moved at all only when its hold was over.
Steady(p, e) ==
    /\ e.changed \in {0, p.changed}
    /\ e.severity # p.severity => e.changed = 0
    /\ p.severity = "critical" /\ (e.severity = "caution" \/ e.changed # p.changed)
          => p.changed >= DowngradeHold

\* What the frame has made of key k so far, from the map m.
NotedSo(m, c, k, raised) ==
    /\ k \in DOMAIN c <=> (k \in DOMAIN m \/ raised)
    /\ raised => c[k].age = 0
    /\ ~raised /\ k \in DOMAIN m => c[k] = m[k]
    /\ k \in DOMAIN m => Steady(m[k], c[k])
    /\ k \notin DOMAIN m /\ raised => c[k].changed = 0

\* Noting one more alert keeps what is said of each key.
LEMMA NotedKeeps ==
    ASSUME PipelineAssumption, NEW m \in ActiveMaps, NEW c \in ActiveMaps, NEW k \in Keys,
           NEW raised \in BOOLEAN, NotedSo(m, c, k, raised), NEW a \in Alerts
    PROVE  NotedSo(m, Noted(c, a), k, raised \/ a.key = k)
<1> DEFINE d == Noted(c, a)
<1>1. /\ d \in ActiveMaps /\ DOMAIN d = DOMAIN c \cup {a.key}
      /\ \A x \in DOMAIN c \ {a.key} : d[x] = c[x]
      /\ d[a.key] = IF a.key \in DOMAIN c THEN Smoothed(c[a.key], a) ELSE Fresh(a)
  BY NotedStays
<1>2. /\ \A x \in DOMAIN c : c[x] \in Entries
      /\ \A x \in DOMAIN m : m[x] \in Entries
  BY DEF ActiveMaps
<1>3. a.severity \in Severities
  BY DEF Alerts
<1>4. LongAgo \in Nat /\ DowngradeHold \in Nat
  BY DEF PipelineAssumption, LongAgo
<1> HIDE DEF d
<1>5. CASE a.key # k
  <2>1. (k \in DOMAIN d <=> k \in DOMAIN c) /\ (k \in DOMAIN c => d[k] = c[k])
    BY <1>1, <1>5
  <2>2. NotedSo(m, d, k, raised)
    BY <2>1 DEF NotedSo
  <2> QED
    BY <1>5, <2>2 DEF d
<1>6. CASE a.key = k
  <2>1. k \in DOMAIN d
    BY <1>1, <1>6
  <2>2. CASE k \notin DOMAIN c
    <3>1. d[k] = Fresh(a) /\ k \notin DOMAIN m
      BY <1>1, <1>6, <2>2 DEF NotedSo
    <3> QED
      BY <1>6, <2>1, <3>1 DEF NotedSo, Fresh, d
  <2>3. CASE k \in DOMAIN c
    <3>1. d[k] = Smoothed(c[k], a) /\ c[k] \in Entries
      BY <1>1, <1>2, <1>6, <2>3
    <3>2. d[k].age = 0
      BY <3>1 DEF Smoothed, Entries
    <3>3. k \in DOMAIN m => Steady(m[k], d[k])
      <4> SUFFICES ASSUME k \in DOMAIN m PROVE Steady(m[k], d[k])
        OBVIOUS
      <4>1. Steady(m[k], c[k]) /\ m[k] \in Entries
        BY <1>2 DEF NotedSo
      <4>2. CASE Held(c[k], a)
        <5>1. d[k].severity = c[k].severity /\ d[k].changed = c[k].changed
          BY <3>1, <4>2 DEF Smoothed, Entries
        <5> QED
          BY <4>1, <5>1 DEF Steady
      <4>3. CASE ~Held(c[k], a)
        <5>1. d[k].severity = a.severity
              /\ d[k].changed = IF a.severity # c[k].severity THEN 0 ELSE c[k].changed
          BY <3>1, <4>3 DEF Smoothed
        <5>2. a.severity = "caution" /\ c[k].severity = "critical" => c[k].changed >= DowngradeHold
          BY <1>4, <3>1, <4>3 DEF Held, Below, Entries
        <5> QED
          BY <1>3, <1>4, <3>1, <4>1, <5>1, <5>2 DEF Steady, Entries, Severities
      <4> QED
        BY <4>2, <4>3
    <3>4. k \notin DOMAIN m => d[k].changed = 0
      <4> SUFFICES ASSUME k \notin DOMAIN m PROVE d[k].changed = 0
        OBVIOUS
      <4>1. c[k].changed = 0
        BY <2>3 DEF NotedSo
      <4> QED
        BY <3>1, <4>1 DEF Smoothed, Entries
    <3> QED
      BY <1>6, <2>1, <2>3, <3>2, <3>3, <3>4 DEF NotedSo, d
  <2> QED
    BY <2>2, <2>3
<1> QED
  BY <1>5, <1>6

\* A frame as a whole, one key at a time.
LEMMA FrameIsNoted ==
    ASSUME PipelineAssumption, NEW m \in ActiveMaps, NEW frame \in Seq(Alerts), NEW k \in Keys
    PROVE  /\ FoldLeft(Noted, m, frame) \in ActiveMaps
           /\ NotedSo(m, FoldLeft(Noted, m, frame), k, \E j \in DOMAIN frame : frame[j].key = k)
<1> DEFINE n == Len(frame)
           raised(i) == \E j \in 1..i : frame[j].key = k
<1>1. n \in Nat /\ DOMAIN frame = 1..n /\ \A i \in 1..n : frame[i] \in Alerts
  BY SeqSet
<1>2. PICK h \in [0..n -> ActiveMaps] :
          /\ h[0] = m /\ h[n] = FoldLeft(Noted, m, frame)
          /\ \A i \in 1..n : h[i] = Noted(h[i - 1], frame[i])
  BY NotedFolds
<1> DEFINE P == {i \in 0..n : NotedSo(m, h[i], k, raised(i))}
<1>3. 0 \in P
  <2>1. raised(0) = FALSE /\ 0 \in 0..n
    BY <1>1
  <2>2. k \in DOMAIN m => m[k].changed = m[k].changed
    OBVIOUS
  <2>3. k \in DOMAIN m => m[k] \in Entries
    BY DEF ActiveMaps
  <2>4. NotedSo(m, m, k, FALSE)
    BY <2>3 DEF NotedSo, Steady, Entries, Severities
  <2> QED
    BY <1>2, <2>1, <2>4
<1>4. ASSUME NEW i \in 1..n, i - 1 \in P PROVE i \in P
  <2>1. i - 1 \in 0..n /\ i \in 0..n /\ h[i - 1] \in ActiveMaps /\ frame[i] \in Alerts
    BY <1>1
  <2>2. NotedSo(m, h[i - 1], k, raised(i - 1)) /\ raised(i - 1) \in BOOLEAN
    BY <1>4
  <2> HIDE DEF raised
  <2>3. NotedSo(m, h[i], k, raised(i - 1) \/ frame[i].key = k)
    BY <1>2, <2>1, <2>2, NotedKeeps
  <2>4. raised(i) <=> (raised(i - 1) \/ frame[i].key = k)
    <3>1. 1..i = 1..(i - 1) \cup {i}
      BY <1>1
    <3> QED
      BY <3>1 DEF raised
  <2>5. raised(i) = (raised(i - 1) \/ frame[i].key = k)
    BY <2>4 DEF raised
  <2> QED
    BY <2>1, <2>3, <2>5
<1>5. n \in P
  <2> HIDE DEF P
  <2>1. \A i \in 0..n : i \in P
    BY <1>1, <1>3, <1>4, StepByStep
  <2> QED
    BY <1>1, <2>1
<1>6. n \in 0..n
  BY <1>1
<1> QED
  BY <1>1, <1>2, <1>5, <1>6

\* An alert whose key no other alert of the frame has is shown at its severity or above.
LEMMA UnsharedIsNotWeakened ==
    ASSUME PipelineAssumption, NEW m \in ActiveMaps, NEW frame \in Seq(Alerts),
           NEW a \in Unshared(frame)
    PROVE  /\ a.key \in DOMAIN FoldLeft(Noted, m, frame)
           /\ ~Below(FoldLeft(Noted, m, frame)[a.key].severity, a.severity)
<1> DEFINE n == Len(frame)
           Fine(c) == a.key \in DOMAIN c /\ ~Below(c[a.key].severity, a.severity)
<1>1. n \in Nat /\ DOMAIN frame = 1..n /\ \A i \in 1..n : frame[i] \in Alerts
  BY SeqSet
<1>2. PICK h \in [0..n -> ActiveMaps] :
          /\ h[0] = m /\ h[n] = FoldLeft(Noted, m, frame)
          /\ \A i \in 1..n : h[i] = Noted(h[i - 1], frame[i])
  BY NotedFolds
<1>3. PICK j \in 1..n : a = frame[j] /\ \A i \in 1..n \ {j} : frame[i].key # a.key
  BY <1>1 DEF Unshared
<1>4. ASSUME NEW i \in 1..n
      PROVE  /\ i = j => Fine(h[i])
             /\ i # j /\ Fine(h[i - 1]) => Fine(h[i])
  <2>1. h[i - 1] \in ActiveMaps /\ h[i] = Noted(h[i - 1], frame[i]) /\ frame[i] \in Alerts
    BY <1>1, <1>2, SMTT(30)
  <2>2. /\ DOMAIN h[i] = DOMAIN h[i - 1] \cup {frame[i].key}
        /\ \A k \in DOMAIN h[i - 1] \ {frame[i].key} : h[i][k] = h[i - 1][k]
        /\ h[i][frame[i].key] = IF frame[i].key \in DOMAIN h[i - 1]
                                THEN Smoothed(h[i - 1][frame[i].key], frame[i])
                                ELSE Fresh(frame[i])
    BY <2>1, NotedStays
  <2>3. ASSUME i = j PROVE Fine(h[i])
    <3>1. frame[i] = a
      BY <1>3, <2>3
    <3>2. a.key \in DOMAIN h[i]
      BY <2>2, <3>1
    <3>3. CASE a.key \notin DOMAIN h[i - 1]
      BY <2>2, <3>1, <3>2, <3>3 DEF Fresh, Below
    <3>4. CASE a.key \in DOMAIN h[i - 1]
      <4>1. h[i][a.key] = Smoothed(h[i - 1][a.key], a) /\ h[i - 1][a.key] \in Entries
        BY <2>1, <2>2, <3>1, <3>4 DEF ActiveMaps
      <4>2. ~Below(Smoothed(h[i - 1][a.key], a).severity, a.severity)
        BY <4>1 DEF Smoothed, Held, Below, Entries
      <4> QED
        BY <3>2, <4>1, <4>2
    <3> QED
      BY <3>3, <3>4
  <2>4. ASSUME i # j, Fine(h[i - 1]) PROVE Fine(h[i])
    <3>1. frame[i].key # a.key
      BY <1>3, <2>4
    <3> QED
      BY <2>2, <2>4, <3>1
  <2> QED
    BY <2>3, <2>4
<1> DEFINE P == {i \in 0..n : i >= j => Fine(h[i])}
<1>5. 0 \in P
  BY <1>1
<1>6. ASSUME NEW i \in 1..n, i - 1 \in P PROVE i \in P
  <2> HIDE DEF Fine
  <2>1. i \in 0..n /\ j \in Nat /\ i \in Nat /\ (i >= j /\ i # j => i - 1 >= j)
    BY <1>1
  <2>2. i - 1 >= j => Fine(h[i - 1])
    BY <1>6
  <2> QED
    BY <1>4, <2>1, <2>2
<1>7. n \in P
  <2> HIDE DEF P
  <2>1. \A i \in 0..n : i \in P
    BY <1>1, <1>5, <1>6, StepByStep
  <2> QED
    BY <1>1, <2>1
<1>8. Fine(h[n])
  <2> HIDE DEF Fine
  <2>1. n >= j
    BY <1>1
  <2> QED
    BY <1>7, <2>1
<1> QED
  BY <1>2, <1>8

-----------------------------------------------------------------------------
(* EdgeEventBuffer: the fold over what is shown *)

\* One round of ingest.
Offered(buffer, alert) == IF alert \in buffer.seen THEN buffer ELSE Recorded(buffer, alert)

\* The event buffers that are well kept, when the events of past were created before.
Buffers(past) ==
    {b \in [records : Seq(Alerts), seen : SUBSET Alerts, created : SUBSET Alerts] :
        /\ Len(b.records) <= Capacity
        /\ \A i, j \in DOMAIN b.records : b.records[i] = b.records[j] => i = j
        /\ IsFiniteSet(b.seen) /\ Cardinality(b.seen) <= Capacity * SeenFactor
        /\ ToSet(b.records) \subseteq b.seen /\ b.seen \subseteq past \cup b.created}

\* What has been created as events so far stays within its limits.
LEMMA OfferedStays ==
    ASSUME PipelineAssumption, NEW past \in SUBSET Alerts, NEW b \in Buffers(past),
           NEW a \in Alerts
    PROVE  /\ Offered(b, a) \in Buffers(past)
           /\ b.created \subseteq Offered(b, a).created
           /\ a \in past \cup Offered(b, a).created
<1>1. /\ b.records \in Seq(Alerts) /\ Len(b.records) <= Capacity
      /\ \A i, j \in DOMAIN b.records : b.records[i] = b.records[j] => i = j
      /\ IsFiniteSet(b.seen) /\ Cardinality(b.seen) <= Capacity * SeenFactor
      /\ ToSet(b.records) \subseteq b.seen /\ b.seen \subseteq past \cup b.created
      /\ b.seen \subseteq Alerts /\ b.created \subseteq Alerts
  BY DEF Buffers
<1>2. Capacity \in Nat \ {0} /\ SeenFactor \in Nat \ {0}
  BY DEF PipelineAssumption
<1>3. CASE a \in b.seen
  BY <1>1, <1>3 DEF Offered
<1>4. CASE a \notin b.seen
  <2> DEFINE all == <<a>> \o b.records
             len == IF Len(all) > Capacity THEN Capacity ELSE Len(all)
             events == SubSeq(all, 1, len)
             known == b.seen \cup {a}
             kept == IF Cardinality(known) > Capacity * SeenFactor
                     THEN RebuiltSeen(events) ELSE known
             new == [records |-> events, seen |-> kept, created |-> b.created \cup {a}]
  <2>1. Offered(b, a) = new
    BY <1>4 DEF Offered, Recorded
  <2>2. /\ all \in Seq(Alerts) /\ Len(all) = Len(b.records) + 1 /\ Len(b.records) \in Nat
        /\ all[1] = a /\ \A i \in 2..Len(all) : all[i] = b.records[i - 1]
        /\ DOMAIN b.records = 1..Len(b.records)
    BY <1>1
  <2>3. len \in 1..Len(all) /\ len <= Capacity
    BY <1>2, <2>2
  <2> HIDE DEF len, all
  <2>4. /\ events \in Seq(Alerts) /\ Len(events) = len /\ DOMAIN events = 1..len
        /\ \A i \in 1..len : events[i] = all[i]
    BY <2>2, <2>3
  <2> HIDE DEF events
  <2>5. \A i \in DOMAIN events : (i = 1 /\ events[i] = a)
           \/ (i - 1 \in DOMAIN b.records /\ events[i] = b.records[i - 1])
    <3> SUFFICES ASSUME NEW i \in DOMAIN events
                 PROVE  (i = 1 /\ events[i] = a)
                        \/ (i - 1 \in DOMAIN b.records /\ events[i] = b.records[i - 1])
      OBVIOUS
    <3>1. i \in Nat /\ i >= 1 /\ i <= Len(b.records) + 1 /\ events[i] = all[i]
      BY <2>2, <2>3, <2>4
    <3> QED
      BY <2>2, <3>1, SMTT(30)
  <2>6. ToSet(b.records) = {b.records[i] : i \in DOMAIN b.records}
        /\ ToSet(events) = {events[i] : i \in DOMAIN events}
    BY DEF ToSet
  <2>7. ToSet(events) \subseteq {a} \cup ToSet(b.records)
    BY <2>5, <2>6
  <2>8. \A i, j \in DOMAIN events : events[i] = events[j] => i = j
    <3> SUFFICES ASSUME NEW i \in DOMAIN events, NEW j \in DOMAIN events, events[i] = events[j]
                 PROVE  i = j
      OBVIOUS
    <3>1. \A x \in DOMAIN b.records : b.records[x] # a
      BY <1>1, <1>4, <2>6
    <3>2. i \in Nat /\ j \in Nat
      BY <2>3, <2>4
    <3> QED
      BY <1>1, <2>5, <3>1, <3>2, SMTT(30)
  <2>9. kept \subseteq known /\ ToSet(events) \subseteq kept
    BY <1>1, <2>7 DEF RebuiltSeen
  <2>10. IsFiniteSet(kept) /\ Cardinality(kept) <= Capacity * SeenFactor
    <3>1. IsFiniteSet(known)
      BY <1>1, FS_AddElement
    <3>2. Cardinality(known) \in Nat
      BY <3>1, FS_CardinalityType
    <3>3. IsFiniteSet(ToSet(events)) /\ Cardinality(ToSet(events)) <= len
          /\ Cardinality(ToSet(events)) \in Nat
      BY <2>4, SeqSet
    <3>4. Capacity <= Capacity * SeenFactor /\ Capacity * SeenFactor \in Nat
      <4>1. Capacity * SeenFactor = Capacity * (SeenFactor - 1) + Capacity
        BY <1>2
      <4>2. Capacity * (SeenFactor - 1) \in Nat
        BY <1>2
      <4> QED
        BY <1>2, <4>1, <4>2
    <3>5. len \in Nat
      BY <2>2, <2>3
    <3> HIDE DEF known
    <3>6. CASE Cardinality(known) > Capacity * SeenFactor
      BY <1>2, <2>3, <3>3, <3>4, <3>5, <3>6 DEF RebuiltSeen
    <3>7. CASE ~(Cardinality(known) > Capacity * SeenFactor)
      BY <3>1, <3>2, <3>4, <3>7
    <3> QED
      BY <3>6, <3>7
  <2> HIDE DEF kept
  <2>11. new \in [records : Seq(Alerts), seen : SUBSET Alerts, created : SUBSET Alerts]
    BY <1>1, <2>4, <2>9
  <2>12. new \in Buffers(past)
    BY <1>1, <2>3, <2>4, <2>8, <2>9, <2>10, <2>11 DEF Buffers
  <2> QED
    BY <2>1, <2>12
<1> QED
  BY <1>3, <1>4

\* Once it has gone through an order, all of that has been created as an event.
LEMMA IngestKeeps ==
    ASSUME PipelineAssumption, logged \subseteq Alerts,
           [records |-> records, seen |-> seen, created |-> {}] \in Buffers(logged),
           NEW order \in Seq(Alerts)
    PROVE  /\ Ingest(order) \in Buffers(logged)
           /\ ToSet(order) \subseteq logged \cup Ingest(order).created
<1> DEFINE n == Len(order)
           base == [records |-> records, seen |-> seen, created |-> {}]
           St == Buffers(logged)
           Q(g) == g = [s \in SUBSET DOMAIN order |->
                          IF s = {} THEN base ELSE Offered(g[s \ {Max(s)}], order[Max(s)])]
           next == [i \in 1..n |-> [x \in St |-> Offered(x, order[i])]]
<1>1. n \in Nat /\ DOMAIN order = 1..n /\ \A i \in 1..n : order[i] \in Alerts
  BY SeqSet
<1>2. next \in [1..n -> [St -> St]]
  BY <1>1, OfferedStays
<1>0. base \in St
  OBVIOUS
<1>3. PICK g : IsFold(g, n, St, base, next)
  <2> HIDE DEF next, n, St, base
  <2> QED
    BY <1>0, <1>1, <1>2, FoldExists
<1>4. Q(g)
  <2> HIDE DEF base, St
  <2> SUFFICES ASSUME NEW s \in SUBSET (1..n)
               PROVE  g[s] = IF s = {} THEN base ELSE Offered(g[s \ {Max(s)}], order[Max(s)])
    BY <1>1, <1>3 DEF IsFold
  <2>1. CASE s = {}
    BY <1>3, <2>1 DEF IsFold
  <2>2. CASE s # {}
    <3>1. Max(s) \in s
      BY <1>1, <2>2, GreatestIsMax
    <3>2. g[s \ {Max(s)}] \in St
      BY <1>3 DEF IsFold
    <3>3. next[Max(s)][g[s \ {Max(s)}]] = Offered(g[s \ {Max(s)}], order[Max(s)])
      BY <3>1, <3>2
    <3> QED
      BY <1>3, <2>2, <3>3 DEF IsFold
  <2> QED
    BY <2>1, <2>2
<1>5. Ingest(order) = (CHOOSE f : Q(f))[DOMAIN order]
  BY DEF Ingest, Offered, FoldLeft, MapThenFoldSet
<1>6. Q(CHOOSE f : Q(f))
  <2> HIDE DEF Q
  <2> QED
    BY <1>4
<1> DEFINE f == CHOOSE x : Q(x)
<1>7. Q(f)
  BY <1>6
<1> HIDE DEF f, base, St
<1>8. f[{}] = base
  BY <1>7
<1>9. ASSUME NEW s \in SUBSET (1..n), s # {}, f[s \ {Max(s)}] \in St
      PROVE  f[s] = next[Max(s)][f[s \ {Max(s)}]]
  <2>1. f[s] = Offered(f[s \ {Max(s)}], order[Max(s)])
    BY <1>1, <1>7, <1>9
  <2>2. Max(s) \in 1..n
    BY <1>1, <1>9, GreatestIsMax
  <2> QED
    BY <1>9, <2>1, <2>2
<1>10. Follows(f, n, St, base, next)
  <2> HIDE DEF Q
  <2> QED
    BY <1>8, <1>9 DEF Follows
<1>11. PICK h : IsRun(h, n, St, base, next) /\ h[n] = f[1..n]
  <2> HIDE DEF next, n, Q
  <2>8. FoldsOf(f, n, St, base, next)
    BY <1>0, <1>1, <1>2, <1>10 DEF FoldsOf
  <2>9. MadeBySteps(f, n, St, base, next)
    BY <2>8, FoldsAreMade
  <2> QED
    BY <2>9 DEF MadeBySteps
<1>12. h[n] = Ingest(order)
  BY <1>1, <1>5, <1>11 DEF f
<1> HIDE DEF Q
<1>13. /\ \A i \in 0..n : h[i] \in St
       /\ \A i \in 1..n : h[i] = Offered(h[i - 1], order[i]) /\ i - 1 \in 0..n
  <2>1. \A i \in 0..n : h[i] \in St
    BY <1>11 DEF IsRun
  <2>2. \A i \in 1..n : i - 1 \in 0..n
    BY <1>1
  <2> QED
    BY <1>11, <2>1, <2>2 DEF IsRun
<1> HIDE DEF next
<1> DEFINE Done(i) == \A j \in 1..i : order[j] \in logged \cup h[i].created
           P == {i \in 0..n : Done(i)}
<1>14. 0 \in P
  BY <1>1
<1>15. ASSUME NEW i \in 1..n, i - 1 \in P PROVE i \in P
  <2>1. Done(i - 1)
    BY <1>15
  <2>2. h[i - 1].created \subseteq h[i].created /\ order[i] \in logged \cup h[i].created
    <3>1. /\ h[i - 1] \in Buffers(logged) /\ order[i] \in Alerts
          /\ h[i] = Offered(h[i - 1], order[i]) /\ logged \in SUBSET Alerts
      BY <1>1, <1>13 DEF St
    <3> QED
      BY <3>1, OfferedStays
  <2>3. \A j \in 1..i : j = i \/ j \in 1..(i - 1)
    BY <1>1
  <2>4. Done(i)
    BY <2>1, <2>2, <2>3
  <2>5. i \in 0..n
    BY <1>1
  <2> HIDE DEF Done
  <2> QED
    BY <2>4, <2>5
<1>16. n \in P
  <2> HIDE DEF P
  <2>1. \A i \in 0..n : i \in P
    BY <1>1, <1>14, <1>15, StepByStep
  <2> QED
    BY <1>1, <2>1
<1>17. Done(n)
  BY <1>16
<1>18. ToSet(order) \subseteq logged \cup h[n].created
  BY <1>1, <1>17 DEF ToSet
<1>19. h[n] \in St
  BY <1>1, <1>13
<1> QED
  BY <1>12, <1>18, <1>19 DEF St

-----------------------------------------------------------------------------
(* publish *)

\* Key k is raised in a frame.
RaisedIn(frame, k) == \E j \in DOMAIN frame : frame[j].key = k

\* What evaluate makes of key k of the map m.
EvaluatedSo(m, out, k, raised) ==
    /\ k \in DOMAIN out <=> (raised \/ (k \in DOMAIN m /\ m[k].age <= Hold))
    /\ k \in DOMAIN out => out[k].age = (IF raised THEN 0 ELSE m[k].age) /\ out[k].age <= Hold
    /\ k \in DOMAIN out \cap DOMAIN m => Steady(m[k], out[k])
    /\ k \in DOMAIN out \ DOMAIN m => out[k].changed = 0

\* A frame that is evaluated leaves entries that are typed, held and no weaker than it says.
LEMMA EvaluateKeeps ==
    ASSUME PipelineAssumption, NEW m \in ActiveMaps, NEW frame \in Seq(Alerts)
    PROVE  /\ Evaluate(m, frame) \in ActiveMaps
           /\ \A k \in Keys : EvaluatedSo(m, Evaluate(m, frame), k, RaisedIn(frame, k))
           /\ \A a \in Unshared(frame) :
                 /\ a.key \in DOMAIN Evaluate(m, frame)
                 /\ ~Below(Evaluate(m, frame)[a.key].severity, a.severity)
<1> DEFINE noted == FoldLeft(Noted, m, frame)
           kept == {k \in DOMAIN noted : ~Expired(noted[k])}
           out == [k \in kept |-> noted[k]]
<1>1. Evaluate(m, frame) = out
  BY DEF Evaluate, Restrict
<1>2. \A k \in Keys : noted \in ActiveMaps /\ NotedSo(m, noted, k, RaisedIn(frame, k))
  <2> SUFFICES ASSUME NEW k \in Keys
               PROVE  noted \in ActiveMaps /\ NotedSo(m, noted, k, RaisedIn(frame, k))
    OBVIOUS
  <2> QED
    BY FrameIsNoted DEF RaisedIn
<1>3. noted \in ActiveMaps
  <2>1. PICK h \in [0..Len(frame) -> ActiveMaps] : h[Len(frame)] = FoldLeft(Noted, m, frame)
    BY NotedFolds
  <2>2. Len(frame) \in 0..Len(frame)
    BY SeqSet
  <2> QED
    BY <2>1, <2>2
<1>4. \A a \in Unshared(frame) : a.key \in DOMAIN noted /\ ~Below(noted[a.key].severity, a.severity)
  BY UnsharedIsNotWeakened
<1> HIDE DEF noted
<1>5. /\ DOMAIN noted \in SUBSET Keys /\ IsFiniteSet(DOMAIN noted)
      /\ \A k \in DOMAIN noted : noted[k] \in Entries
      /\ \A k \in DOMAIN m : m[k] \in Entries
  BY <1>3 DEF ActiveMaps
<1>6. out \in ActiveMaps
  <2>1. out \in [kept -> Entries] /\ kept \in SUBSET Keys
    BY <1>5
  <2>2. IsFiniteSet(kept)
    BY <1>5, FS_Subset
  <2> QED
    BY <2>1, <2>2 DEF ActiveMaps
<1>7. Hold \in Nat
  BY DEF PipelineAssumption
<1>8. ASSUME NEW k \in Keys PROVE EvaluatedSo(m, out, k, RaisedIn(frame, k))
  <2> DEFINE raised == RaisedIn(frame, k)
  <2>1. NotedSo(m, noted, k, raised)
    BY <1>2
  <2>2. k \in DOMAIN out <=> (k \in DOMAIN noted /\ ~(noted[k].age > Hold))
    BY DEF Expired
  <2>3. k \in DOMAIN out => out[k] = noted[k]
    OBVIOUS
  <2>4. k \in DOMAIN noted => noted[k] \in Entries /\ noted[k].age \in Nat
    BY <1>5 DEF Entries
  <2>5. k \in DOMAIN m => m[k] \in Entries /\ m[k].age \in Nat
    BY <1>5 DEF Entries
  <2> HIDE DEF out, raised
  <2>6. raised \in BOOLEAN
    BY DEF raised, RaisedIn
  <2>7. EvaluatedSo(m, out, k, raised)
    BY <1>7, <2>1, <2>2, <2>3, <2>4, <2>5, <2>6 DEF EvaluatedSo, NotedSo
  <2> QED
    BY <2>7 DEF raised
<1>9. ASSUME NEW a \in Unshared(frame)
      PROVE  a.key \in DOMAIN out /\ ~Below(out[a.key].severity, a.severity)
  <2>1. a.key \in DOMAIN noted /\ ~Below(noted[a.key].severity, a.severity) /\ a.key \in Keys
    BY <1>4, <1>5
  <2>2. RaisedIn(frame, a.key)
    BY DEF Unshared, RaisedIn
  <2>3. a.key \in DOMAIN out
    BY <1>8, <2>1, <2>2 DEF EvaluatedSo
  <2> QED
    BY <2>1, <2>3
<1> QED
  BY <1>1, <1>6, <1>8, <1>9

\* The inductive invariant: what a set of event keys remembers, and the ages of an entry
\* against those that are only told of it.
AlertInv ==
    /\ AlertTypeOK /\ active \in ActiveMaps /\ IsFiniteSet(seen)
    /\ HistoryHasNoDuplicates /\ ToSet(records) \subseteq seen /\ seen \subseteq logged
    /\ ShownIsLogged /\ AlertIsNotWeakened
    /\ \A k \in Keys : sighted[k] <= Hold => k \in DOMAIN active
    /\ \A k \in DOMAIN active : active[k].age = sighted[k] /\ active[k].changed <= lowered[k]

\* Entries whose ages and severities are right make a map of the right type.
LEMMA MapIsTyped ==
    ASSUME NEW m \in ActiveMaps
    PROVE  /\ DOMAIN m \subseteq Keys
           /\ \A k \in DOMAIN m : m[k] \in [severity : Severities, age : 0..LongAgo, changed : 0..LongAgo]
           /\ Shown(m) \subseteq Alerts /\ IsFiniteSet(Shown(m))
<1>1. DOMAIN m \subseteq Keys /\ IsFiniteSet(DOMAIN m) /\ \A k \in DOMAIN m : m[k] \in Entries
  BY DEF ActiveMaps
<1>2. Shown(m) \subseteq Alerts
  BY <1>1 DEF Shown, Alerts, Entries
<1>3. IsFiniteSet(Shown(m))
  <2> DEFINE f == [k \in DOMAIN m |-> [key |-> k, severity |-> m[k].severity]]
  <2>1. f \in Surjection(DOMAIN m, Shown(m))
    BY DEF Surjection, Shown
  <2> QED
    BY <1>1, <2>1, FS_Surjection
<1> QED
  BY <1>1, <1>2, <1>3 DEF Entries

\* AlertInv holds at first.
LEMMA AlertInvInit ==
    ASSUME PipelineAssumption, AlertInit
    PROVE  AlertInv
<1> USE DEF AlertInit
<1>1. LongAgo \in Nat /\ Hold \in Nat /\ DowngradeHold \in Nat
      /\ Capacity \in Nat /\ SeenFactor \in Nat /\ LongAgo > Hold
  BY DEF PipelineAssumption, LongAgo
<1>2. DOMAIN active = {} /\ active \in [{} -> Entries]
  OBVIOUS
<1>3. active \in ActiveMaps
  BY <1>2, FS_EmptySet DEF ActiveMaps
<1>4. Cardinality({}) = 0 /\ IsFiniteSet({}) /\ ToSet(<<>>) = {}
  BY FS_EmptySet DEF ToSet
<1>5. AlertTypeOK
  <2>1. Capacity * SeenFactor \in Nat
    BY <1>1
  <2> QED
    BY <1>1, <1>2, <1>4, <2>1 DEF AlertTypeOK
<1> QED
  BY <1>1, <1>2, <1>3, <1>4, <1>5
     DEF AlertInv, HistoryHasNoDuplicates, ShownIsLogged, Shown, AlertIsNotWeakened

\* AlertInv is kept, and so are the holds, when time passes.
LEMMA AlertInvTick ==
    ASSUME PipelineAssumption, AlertInv, AlertTick
    PROVE  /\ AlertInv'
           /\ \A k \in Keys : sighted'[k] <= Hold => k \in DOMAIN active'
           /\ \A k \in Keys : ~Lowers(k, active, active')
<1>1. /\ LongAgo \in Nat /\ Hold \in Nat /\ DowngradeHold \in Nat
      /\ Capacity \in Nat /\ SeenFactor \in Nat /\ LongAgo > Hold
  BY DEF PipelineAssumption, LongAgo
<1>2. /\ DOMAIN active \subseteq Keys /\ \A k \in DOMAIN active : active[k] \in Entries
      /\ IsFiniteSet(DOMAIN active)
      /\ \A k \in Keys : sighted[k] \in 0..LongAgo /\ lowered[k] \in 0..LongAgo
  BY DEF AlertInv, AlertTypeOK, ActiveMaps
<1>3. \A t \in 0..LongAgo : /\ Older(t) \in 0..LongAgo /\ t <= Older(t)
                            /\ \A u \in 0..LongAgo : t <= u => Older(t) <= Older(u)
  BY <1>1 DEF Older
<1>4. DOMAIN active' = DOMAIN active
      /\ \A k \in DOMAIN active :
            active'[k] = [active[k] EXCEPT !.age = Older(@), !.changed = Older(@)]
  BY DEF AlertTick
<1>5. \A k \in DOMAIN active : /\ active'[k] \in Entries
                               /\ active'[k].severity = active[k].severity
                               /\ active'[k].age = Older(active[k].age)
                               /\ active'[k].changed = Older(active[k].changed)
  <2> SUFFICES ASSUME NEW k \in DOMAIN active
               PROVE  /\ active'[k] \in Entries
                      /\ active'[k].severity = active[k].severity
                      /\ active'[k].age = Older(active[k].age)
                      /\ active'[k].changed = Older(active[k].changed)
    OBVIOUS
  <2> DEFINE p == active[k]
  <2>1. p \in Entries /\ Older(p.age) \in 0..LongAgo /\ Older(p.changed) \in 0..LongAgo
    BY <1>2, <1>3 DEF Entries
  <2>2. active'[k] = [p EXCEPT !.age = Older(@), !.changed = Older(@)]
    BY <1>4
  <2> HIDE DEF p
  <2>3. active'[k] = [severity |-> p.severity, age |-> Older(p.age), changed |-> Older(p.changed)]
    BY <2>1, <2>2 DEF Entries
  <2>4. active'[k] \in Entries /\ active'[k].severity = p.severity
        /\ active'[k].age = Older(p.age) /\ active'[k].changed = Older(p.changed)
    BY <2>1, <2>3 DEF Entries
  <2> QED
    BY <2>4 DEF p
<1>6. active' \in ActiveMaps
  <2>1. active' \in [DOMAIN active -> Entries]
    <3> DEFINE f == [k \in DOMAIN active |->
                       [active[k] EXCEPT !.age = Older(@), !.changed = Older(@)]]
    <3>1. active' = f
      BY DEF AlertTick
    <3>2. \A k \in DOMAIN active : f[k] \in Entries
      BY <1>5, <3>1
    <3> QED
      BY <3>1, <3>2
  <2> QED
    BY <1>2, <2>1 DEF ActiveMaps
<1>7. \A k \in Keys : sighted'[k] = Older(sighted[k]) /\ lowered'[k] = Older(lowered[k])
  BY DEF AlertTick
<1>8. Shown(active)' = Shown(active)
  <2>1. /\ Shown(active)' = {[key |-> k, severity |-> active'[k].severity] : k \in DOMAIN active'}
        /\ Shown(active) = {[key |-> k, severity |-> active[k].severity] : k \in DOMAIN active}
    BY DEF Shown
  <2>2. DOMAIN active' = DOMAIN active
        /\ \A k \in DOMAIN active : active'[k].severity = active[k].severity
    BY <1>4, <1>5
  <2> QED
    BY <2>1, <2>2
<1>9. AlertTypeOK'
  <2>1. {sighted', lowered'} \subseteq [Keys -> 0..LongAgo]
    BY <1>2, <1>3 DEF AlertTick
  <2>2. raw' = {} /\ UNCHANGED <<records, seen, logged>>
    BY DEF AlertTick
  <2> QED
    BY <1>2, <1>4, <1>5, <2>1, <2>2 DEF AlertInv, AlertTypeOK, Entries
<1>10. \A k \in Keys : sighted'[k] <= Hold => k \in DOMAIN active'
  <2> SUFFICES ASSUME NEW k \in Keys, sighted'[k] <= Hold PROVE k \in DOMAIN active'
    OBVIOUS
  <2>1. sighted[k] <= Older(sighted[k]) /\ Older(sighted[k]) \in 0..LongAgo /\ sighted[k] \in 0..LongAgo
    BY <1>2, <1>3
  <2>2. sighted[k] <= Hold
    BY <1>1, <1>7, <2>1
  <2> QED
    BY <1>4, <2>2 DEF AlertInv
<1>11. \A k \in DOMAIN active' :
          active'[k].age = sighted'[k] /\ active'[k].changed <= lowered'[k]
  <2> SUFFICES ASSUME NEW k \in DOMAIN active
               PROVE  active'[k].age = sighted'[k] /\ active'[k].changed <= lowered'[k]
    BY <1>4
  <2>1. active[k].age = sighted[k] /\ active[k].changed <= lowered[k]
    BY DEF AlertInv
  <2>2. active[k].changed \in 0..LongAgo /\ k \in Keys /\ lowered[k] \in 0..LongAgo
    BY <1>2 DEF Entries
  <2> QED
    BY <1>3, <1>5, <1>7, <2>1, <2>2
<1>12. \A k \in Keys : ~Lowers(k, active, active')
  BY <1>4, <1>5 DEF Lowers, Below
<1>13. /\ IsFiniteSet(seen') /\ HistoryHasNoDuplicates' /\ ToSet(records') \subseteq seen'
       /\ seen' \subseteq logged' /\ ShownIsLogged' /\ AlertIsNotWeakened'
  <2>1. raw' = {} /\ UNCHANGED <<records, seen, logged>>
    BY DEF AlertTick
  <2> QED
    BY <1>8, <2>1 DEF AlertInv, HistoryHasNoDuplicates, ShownIsLogged, AlertIsNotWeakened
<1> QED
  BY <1>6, <1>9, <1>10, <1>11, <1>12, <1>13 DEF AlertInv

\* AlertInv is kept, and so are the holds, when a frame is published.
LEMMA AlertInvPublish ==
    ASSUME PipelineAssumption, AlertInv, NEW frame \in Frames, Publish(frame)
    PROVE  /\ AlertInv'
           /\ \A k \in Keys : sighted'[k] <= Hold => k \in DOMAIN active'
           /\ \A k \in DOMAIN active' : sighted'[k] <= Hold
           /\ \A k \in Keys : Lowers(k, active, active') => lowered[k] >= DowngradeHold
<1>1. /\ LongAgo \in Nat /\ Hold \in Nat /\ DowngradeHold \in Nat
      /\ Capacity \in Nat /\ SeenFactor \in Nat /\ LongAgo > Hold
  BY DEF PipelineAssumption, LongAgo
<1>2. frame \in Seq(Alerts)
  <2>0. frame \in UNION {[1..m -> Alerts] : m \in 0..MaxAlerts}
    BY DEF Frames, BoundedSeq, SeqOf
  <2>1. PICK n \in 0..MaxAlerts : frame \in [1..n -> Alerts]
    BY <2>0
  <2>2. n \in Nat
    BY DEF PipelineAssumption
  <2> QED
    BY <2>1, <2>2, SeqDef
<1>3. /\ active \in ActiveMaps
      /\ \A k \in Keys : sighted[k] \in 0..LongAgo /\ lowered[k] \in 0..LongAgo
  BY DEF AlertInv, AlertTypeOK
<1>4. active' = Evaluate(active, frame)
  BY DEF Publish
<1>5. /\ active' \in ActiveMaps
      /\ \A k \in Keys : EvaluatedSo(active, active', k, RaisedIn(frame, k))
      /\ \A a \in Unshared(frame) :
            a.key \in DOMAIN active' /\ ~Below(active'[a.key].severity, a.severity)
  BY <1>2, <1>3, <1>4, EvaluateKeeps
<1>6. /\ DOMAIN active' \subseteq Keys
      /\ \A k \in DOMAIN active' : active'[k] \in Entries
      /\ \A k \in DOMAIN active : k \in Keys /\ active[k] \in Entries
      /\ Shown(active') \subseteq Alerts /\ IsFiniteSet(Shown(active'))
  <2>1. active' \in ActiveMaps
    BY <1>5
  <2>2. Shown(active') \subseteq Alerts /\ IsFiniteSet(Shown(active'))
    BY <2>1, MapIsTyped
  <2> QED
    BY <1>3, <2>1, <2>2 DEF ActiveMaps
<1>7. \A k \in Keys : /\ sighted'[k] = IF RaisedIn(frame, k) THEN 0 ELSE sighted[k]
                      /\ lowered'[k] = IF Lowers(k, active, active') THEN 0 ELSE lowered[k]
  BY DEF Publish, RaisedIn
<1>8. \A k \in Keys : sighted'[k] \in 0..LongAgo /\ lowered'[k] \in 0..LongAgo
  BY <1>1, <1>3, <1>7
<1>9. PICK order \in Orders(Shown(active')) :
          /\ records' = Ingest(order).records /\ seen' = Ingest(order).seen
          /\ logged' = logged \cup Ingest(order).created
  BY DEF Publish
<1>10. order \in Seq(Alerts) /\ ToSet(order) = Shown(active')
  <2>1. order \in SetToSeqs(Shown(active'))
    BY <1>9 DEF Orders
  <2>2. order \in Seq(Shown(active')) /\ ToSet(order) = Shown(active')
    BY <1>6, <2>1, ArrangementHoldsAll
  <2> QED
    BY <1>6, <2>2
<1>11. /\ Ingest(order) \in Buffers(logged)
       /\ ToSet(order) \subseteq logged \cup Ingest(order).created
  <2>1. [records |-> records, seen |-> seen, created |-> {}] \in Buffers(logged)
    BY DEF AlertInv, AlertTypeOK, HistoryHasNoDuplicates, Buffers
  <2>2. logged \subseteq Alerts
    BY DEF AlertInv, AlertTypeOK
  <2> QED
    BY <1>10, <2>1, <2>2, IngestKeeps
<1>12. /\ records' \in Seq(Alerts) /\ Len(records') <= Capacity
       /\ seen' \subseteq Alerts /\ IsFiniteSet(seen') /\ Cardinality(seen') <= Capacity * SeenFactor
       /\ HistoryHasNoDuplicates' /\ ToSet(records') \subseteq seen'
       /\ seen' \subseteq logged' /\ logged' \subseteq Alerts /\ ShownIsLogged'
  <2>1. logged \subseteq Alerts
    BY DEF AlertInv, AlertTypeOK
  <2>2. Shown(active)' = Shown(active')
    BY DEF Shown
  <2> QED
    BY <1>9, <1>10, <1>11, <2>1, <2>2 DEF Buffers, HistoryHasNoDuplicates, ShownIsLogged
<1>13. AlertTypeOK'
  <2>1. raw' \subseteq Alerts
    BY <1>2, SeqSet DEF Publish, Unshared
  <2>2. {sighted', lowered'} \subseteq [Keys -> 0..LongAgo]
    BY <1>8 DEF Publish
  <2> QED
    BY <1>6, <1>12, <2>1, <2>2 DEF AlertTypeOK, Entries
<1>14. AlertIsNotWeakened'
  BY <1>5 DEF AlertIsNotWeakened, Publish
<1>15. ASSUME NEW k \in Keys
       PROVE  /\ sighted'[k] <= Hold => k \in DOMAIN active'
              /\ k \in DOMAIN active' => active'[k].age = sighted'[k] /\ sighted'[k] <= Hold
              /\ k \in DOMAIN active' => active'[k].changed <= lowered'[k]
              /\ Lowers(k, active, active') => lowered[k] >= DowngradeHold
  <2>1. EvaluatedSo(active, active', k, RaisedIn(frame, k))
    BY <1>5
  <2>2. /\ sighted[k] <= Hold => k \in DOMAIN active
        /\ k \in DOMAIN active => active[k].age = sighted[k] /\ active[k].changed <= lowered[k]
    BY DEF AlertInv
  <2>3. k \in DOMAIN active => /\ active[k].age \in 0..LongAgo /\ active[k].changed \in 0..LongAgo
    BY <1>6 DEF Entries
  <2>4. k \in DOMAIN active' => /\ active'[k].age \in 0..LongAgo /\ active'[k].changed \in 0..LongAgo
    BY <1>6 DEF Entries
  <2>5. sighted[k] \in 0..LongAgo /\ lowered[k] \in 0..LongAgo
    BY <1>3
  <2>6. k \in DOMAIN active' => active'[k].age = sighted'[k] /\ sighted'[k] <= Hold
    BY <1>1, <1>7, <2>1, <2>2 DEF EvaluatedSo
  <2>7. sighted'[k] <= Hold => k \in DOMAIN active'
    BY <1>1, <1>7, <2>1, <2>2, <2>5 DEF EvaluatedSo
  <2>8. Lowers(k, active, active') =>
           /\ k \in DOMAIN active /\ active'[k].changed = 0
           /\ active[k].changed >= DowngradeHold
    BY <2>1 DEF EvaluatedSo, Steady, Lowers, Below
  <2>9. k \in DOMAIN active' => active'[k].changed <= lowered'[k]
    <3>1. CASE Lowers(k, active, active')
      BY <1>1, <1>7, <2>8, <3>1
    <3>2. CASE ~Lowers(k, active, active')
      <4>1. k \in DOMAIN active' => active'[k].changed = 0
                \/ (k \in DOMAIN active /\ active'[k].changed = active[k].changed)
        BY <2>1 DEF EvaluatedSo, Steady
      <4> QED
        BY <1>1, <1>7, <2>2, <2>3, <2>5, <3>2, <4>1
    <3> QED
      BY <3>1, <3>2
  <2>10. Lowers(k, active, active') => lowered[k] >= DowngradeHold
    BY <1>1, <2>2, <2>3, <2>5, <2>8
  <2> QED
    BY <2>6, <2>7, <2>9, <2>10
<1>16. \A k \in DOMAIN active' : k \in Keys
  BY <1>6
<1>17. AlertInv'
  <2>1. active' \in ActiveMaps
    BY <1>5
  <2>2. /\ \A k \in Keys : sighted'[k] <= Hold => k \in DOMAIN active'
        /\ \A k \in DOMAIN active' : active'[k].age = sighted'[k] /\ active'[k].changed <= lowered'[k]
    BY <1>15, <1>16
  <2> QED
    BY <1>12, <1>13, <1>14, <2>1, <2>2 DEF AlertInv
<1> QED
  BY <1>15, <1>16, <1>17

-----------------------------------------------------------------------------
(* SotifMonitor: claims, ceilings and states *)

\* The grades of an aspect are told apart.
LEMMA GradesAreApart ==
    \A a \in Aspects :
        /\ DOMAIN Values[a] \in {1..2, 1..3, 1..4}
        /\ \A i, j \in DOMAIN Values[a] : Values[a][i] = Values[a][j] => i = j
<1> USE DEF Values, Healths, Ages, AssuranceStates, Envelopes
<1>1. Aspects = {"radar", "camera", "gnss", "can", "radarAge", "cameraAge", "gnssAge",
                 "radarCalibration", "cameraCalibration", "timeSync", "fusion", "speed",
                 "accuracy", "lens", "visibility", "precipitation", "illumination", "observation"}
  BY DEF Aspects
<1>2. ASSUME NEW a \in {"radar", "camera", "gnss", "can"} PROVE Values[a] = Healths
  BY <1>2
<1>3. ASSUME NEW a \in {"radarAge", "cameraAge"} PROVE Values[a] = Ages
  BY <1>3
<1>4. ASSUME NEW a \in {"radarCalibration", "cameraCalibration", "timeSync"}
      PROVE Values[a] = AssuranceStates
  BY <1>4
<1>5. ASSUME NEW a \in {"speed", "accuracy"} PROVE Values[a] = Envelopes
  BY <1>5
<1>6. /\ Values["gnssAge"] = <<"fresh", "stale", "future">>
      /\ Values["fusion"] = <<"agrees", "disagrees">> /\ Values["lens"] = <<"clear", "obstructed">>
      /\ Values["visibility"] = <<"normal", "reduced">>
      /\ Values["precipitation"] = <<"none", "heavy-rain">>
      /\ Values["illumination"] = <<"normal", "transition", "glare">>
      /\ Values["observation"] = <<"fresh", "stale">>
  OBVIOUS
<1> SUFFICES ASSUME NEW a \in Aspects
             PROVE  /\ DOMAIN Values[a] \in {1..2, 1..3, 1..4}
                    /\ \A i, j \in DOMAIN Values[a] : Values[a][i] = Values[a][j] => i = j
  OBVIOUS
<1> DEFINE v == Values[a]
<1>7. \/ v \in {Healths, Ages, AssuranceStates, Envelopes, <<"fresh", "stale", "future">>,
                <<"agrees", "disagrees">>, <<"clear", "obstructed">>, <<"normal", "reduced">>,
                <<"none", "heavy-rain">>, <<"normal", "transition", "glare">>, <<"fresh", "stale">>}
  <2> HIDE DEF Values, Healths, Ages, AssuranceStates, Envelopes
  <2> QED
    BY <1>1, <1>2, <1>3, <1>4, <1>5, <1>6
<1>8. /\ DOMAIN v \in {1..2, 1..3, 1..4}
      /\ \A i, j \in DOMAIN v : v[i] = v[j] => i = j
  <2> HIDE DEF v
  <2> QED
    BY <1>7
<1> QED
  BY <1>8

\* The inductive invariant: every aspect has one of its grades.
EvidenceOK(e) ==
    /\ e = [a \in Aspects |-> e[a]]
    /\ \A a \in Aspects : \E i \in DOMAIN Values[a] : e[a] = Values[a][i]

\* The evidence is well formed at first.
LEMMA EvidenceInit ==
    ASSUME SotifInit
    PROVE  EvidenceOK(evidence)
<1>1. evidence = [a \in Aspects |-> Values[a][1]]
  BY DEF SotifInit
<1>2. \A a \in Aspects : 1 \in DOMAIN Values[a]
  BY GradesAreApart
<1> QED
  BY <1>1, <1>2 DEF EvidenceOK

\* The evidence stays well formed.
LEMMA EvidenceStep ==
    ASSUME EvidenceOK(evidence), SotifNext
    PROVE  EvidenceOK(evidence')
<1>0. PICK a \in Aspects : \E i \in DOMAIN Values[a] : Observe(a, Values[a][i])
  BY DEF SotifNext
<1>1. PICK i \in DOMAIN Values[a] : evidence' = [evidence EXCEPT ![a] = Values[a][i]]
  BY <1>0 DEF Observe
<1> QED
  BY <1>1 DEF EvidenceOK

\* What the values of the aspects are, written out.
EvidenceSpelled(e) ==
    /\ {e.radar, e.camera, e.gnss, e.can} \subseteq {"ok", "degraded", "unavailable"}
    /\ {e.radarAge, e.cameraAge, e.gnssAge} \subseteq {"fresh", "stale", "future", "none"}
    /\ {e.radarCalibration, e.cameraCalibration, e.timeSync}
          \subseteq {"verified", "unknown", "invalid"}
    /\ {e.speed, e.accuracy} \subseteq {"inside", "unverified", "outside"}
    /\ e.fusion \in {"agrees", "disagrees"} /\ e.lens \in {"clear", "obstructed"}
    /\ e.visibility \in {"normal", "reduced"} /\ e.precipitation \in {"none", "heavy-rain"}
    /\ e.illumination \in {"normal", "transition", "glare"}

\* Nothing is better in f than in e.
NothingBetter(e, f) ==
    /\ \A a \in {"radar", "camera", "gnss", "can"} :
          (f[a] = "ok" => e[a] = "ok") /\ (e[a] = "unavailable" => f[a] = "unavailable")
    /\ \A a \in {"radarAge", "cameraAge", "gnssAge"} : f[a] = "fresh" => e[a] = "fresh"
    /\ \A a \in {"radarCalibration", "cameraCalibration", "timeSync"} :
          (f[a] = "verified" => e[a] = "verified") /\ (e[a] = "invalid" => f[a] = "invalid")
    /\ \A a \in {"speed", "accuracy"} : e[a] = "outside" => f[a] = "outside"
    /\ e.fusion = "disagrees" => f.fusion = "disagrees"
    /\ e.lens = "obstructed" => f.lens = "obstructed"
    /\ e.visibility = "reduced" => f.visibility = "reduced"
    /\ e.precipitation = "heavy-rain" => f.precipitation = "heavy-rain"
    /\ e.illumination = "glare" => f.illumination = "glare"
    /\ f.observation = e.observation

\* There are these aspects and no others.
LEMMA AspectsSpelled ==
    /\ \A a \in {"radar", "camera", "gnss", "can"} : a \in Aspects /\ Values[a] = Healths
    /\ \A a \in {"radarAge", "cameraAge"} : a \in Aspects /\ Values[a] = Ages
    /\ \A a \in {"radarCalibration", "cameraCalibration", "timeSync"} :
          a \in Aspects /\ Values[a] = AssuranceStates
    /\ \A a \in {"speed", "accuracy"} : a \in Aspects /\ Values[a] = Envelopes
    /\ {"gnssAge", "fusion", "lens", "visibility", "precipitation", "illumination", "observation"}
          \subseteq Aspects
    /\ Values["gnssAge"] = <<"fresh", "stale", "future">>
    /\ Values["fusion"] = <<"agrees", "disagrees">> /\ Values["lens"] = <<"clear", "obstructed">>
    /\ Values["visibility"] = <<"normal", "reduced">>
    /\ Values["precipitation"] = <<"none", "heavy-rain">>
    /\ Values["illumination"] = <<"normal", "transition", "glare">>
    /\ Values["observation"] = <<"fresh", "stale">>
  BY DEF Aspects, Values

\* Evidence that got worse in one aspect is better in none.
LEMMA WorseIsNotBetter ==
    ASSUME NEW e, NEW f, EvidenceOK(e), EvidenceOK(f), Worsens(e, f)
    PROVE  NothingBetter(e, f)
<1>1. PICK b \in Aspects \ {"observation"} :
          Grade(b, f[b]) > Grade(b, e[b]) /\ f = [e EXCEPT ![b] = f[b]]
  BY DEF Worsens
<1>2. PICK i \in DOMAIN Values[b], j \in DOMAIN Values[b] :
          e[b] = Values[b][j] /\ f[b] = Values[b][i]
  BY DEF EvidenceOK
<1>3. Grade(b, f[b]) = i /\ Grade(b, e[b]) = j
  BY <1>2, GradesAreApart DEF Grade
<1>4. j < i
  BY <1>1, <1>2, <1>3, GradesAreApart
<1>5. \A a \in Aspects : a # b => f[a] = e[a]
  BY <1>1 DEF EvidenceOK
<1>6. \A a \in Aspects \ {"observation"} : f[a] = e[a] \/
          \E p, q \in DOMAIN Values[a] : p < q /\ e[a] = Values[a][p] /\ f[a] = Values[a][q]
  BY <1>2, <1>4, <1>5
<1>7. ASSUME NEW a \in {"radar", "camera", "gnss", "can"}
      PROVE  (f[a] = "ok" => e[a] = "ok") /\ (e[a] = "unavailable" => f[a] = "unavailable")
  <2>1. a \in Aspects \ {"observation"} /\ Values[a] = Healths
    BY AspectsSpelled
  <2> QED
    BY <1>6, <2>1 DEF Healths
<1>8. ASSUME NEW a \in {"radarAge", "cameraAge", "gnssAge"} PROVE f[a] = "fresh" => e[a] = "fresh"
  <2>1. a \in Aspects \ {"observation"} /\ Values[a] \in {Ages, <<"fresh", "stale", "future">>}
    BY AspectsSpelled
  <2> QED
    BY <1>6, <2>1 DEF Ages
<1>9. ASSUME NEW a \in {"radarCalibration", "cameraCalibration", "timeSync"}
      PROVE  (f[a] = "verified" => e[a] = "verified") /\ (e[a] = "invalid" => f[a] = "invalid")
  <2>1. a \in Aspects \ {"observation"} /\ Values[a] = AssuranceStates
    BY AspectsSpelled
  <2> QED
    BY <1>6, <2>1 DEF AssuranceStates
<1>10. ASSUME NEW a \in {"speed", "accuracy"} PROVE e[a] = "outside" => f[a] = "outside"
  <2>1. a \in Aspects \ {"observation"} /\ Values[a] = Envelopes
    BY AspectsSpelled
  <2> QED
    BY <1>6, <2>1 DEF Envelopes
<1>11. /\ e.fusion = "disagrees" => f.fusion = "disagrees"
       /\ e.lens = "obstructed" => f.lens = "obstructed"
       /\ e.visibility = "reduced" => f.visibility = "reduced"
       /\ e.precipitation = "heavy-rain" => f.precipitation = "heavy-rain"
       /\ e.illumination = "glare" => f.illumination = "glare"
  <2> DEFINE Lasts(a, x) == e[a] = x => f[a] = x
  <2>1. Lasts("fusion", "disagrees")
    BY <1>6, AspectsSpelled
  <2>2. Lasts("lens", "obstructed")
    BY <1>6, AspectsSpelled
  <2>3. Lasts("visibility", "reduced")
    BY <1>6, AspectsSpelled
  <2>4. Lasts("precipitation", "heavy-rain")
    BY <1>6, AspectsSpelled
  <2>5. Lasts("illumination", "glare")
    BY <1>6, AspectsSpelled
  <2> QED
    BY <2>1, <2>2, <2>3, <2>4, <2>5
<1>12. f.observation = e.observation
  BY <1>5, AspectsSpelled
<1> QED
  BY <1>7, <1>8, <1>9, <1>10, <1>11, <1>12 DEF NothingBetter

\* A fact of every aspect, one by one.
LEMMA SpelledOut ==
    ASSUME NEW e, EvidenceOK(e)
    PROVE  EvidenceSpelled(e)
<1> DEFINE From(a, S) == e[a] \in S
<1>0. \A a \in Aspects : \E i \in DOMAIN Values[a] : e[a] = Values[a][i]
  BY DEF EvidenceOK
<1>1. \A a \in {"radar", "camera", "gnss", "can"} : e[a] \in {"ok", "degraded", "unavailable"}
  BY <1>0, AspectsSpelled DEF Healths
<1>2. \A a \in {"radarAge", "cameraAge", "gnssAge"} : e[a] \in {"fresh", "stale", "future", "none"}
  BY <1>0, AspectsSpelled DEF Ages
<1>3. \A a \in {"radarCalibration", "cameraCalibration", "timeSync"} :
         e[a] \in {"verified", "unknown", "invalid"}
  BY <1>0, AspectsSpelled DEF AssuranceStates
<1>4. \A a \in {"speed", "accuracy"} : e[a] \in {"inside", "unverified", "outside"}
  BY <1>0, AspectsSpelled DEF Envelopes
<1>5. From("fusion", {"agrees", "disagrees"})
  BY <1>0, AspectsSpelled
<1>6. From("lens", {"clear", "obstructed"})
  BY <1>0, AspectsSpelled
<1>7. From("visibility", {"normal", "reduced"})
  BY <1>0, AspectsSpelled
<1>8. From("precipitation", {"none", "heavy-rain"})
  BY <1>0, AspectsSpelled
<1>9. From("illumination", {"normal", "transition", "glare"})
  BY <1>0, AspectsSpelled
<1> QED
  BY <1>1, <1>2, <1>3, <1>4, <1>5, <1>6, <1>7, <1>8, <1>9 DEF EvidenceSpelled

\* Evidence that is nowhere better supports no more claims.
LEMMA ClaimsDoNotGrow ==
    ASSUME NEW e, NEW f, NothingBetter(e, f), EvidenceSpelled(e), EvidenceSpelled(f)
    PROVE  /\ Claims(f) \subseteq Claims(e)
           /\ \A x \in Features : Unavailable(x, e) => Unavailable(x, f)
<1>1. (RadarUsable(f) => RadarUsable(e)) /\ (CameraUsable(f) => CameraUsable(e))
      /\ (GnssUsable(f) => GnssUsable(e))
  BY DEF RadarUsable, CameraUsable, GnssUsable, NothingBetter, EvidenceSpelled, Observed
<1>2. /\ f.can = "ok" => e.can = "ok"
      /\ \A a \in {"radarCalibration", "cameraCalibration", "timeSync"} :
            f[a] = "verified" => e[a] = "verified"
  BY DEF NothingBetter
<1>3. Claims(f) \subseteq Claims(e)
  BY <1>1, <1>2 DEF Claims
<1>4. \A x \in Features : Unavailable(x, e) => Unavailable(x, f)
  BY <1>1 DEF Features, Unavailable
<1> QED
  BY <1>3, <1>4

\* The numbers a ceiling is the least of.
Limits(x, e) ==
    {100} \cup {n \in {45} : "radarRange" \notin Claims(e)}
    \cup {n \in {60} : "objectClassification" \notin Claims(e)}
    \cup {n \in {55} : e.fusion = "disagrees"}
    \cup {n \in {65} : \/ Observed(e, "visibility", "reduced")
                       \/ Observed(e, "precipitation", "heavy-rain")
                       \/ Observed(e, "illumination", "glare")}
    \cup {n \in {40} : State(x, e) = "outside-research-envelope"}

\* The least of two numbers.
LEMMA LeastIsLeast ==
    ASSUME NEW S \in SUBSET Nat, S # {}
    PROVE  Least(S) \in S /\ \A n \in S : Least(S) <= n
  BY LeastExists DEF Least

\* The ceiling of a feature is the least of what its conditions allow.
LEMMA CeilingIs ==
    ASSUME NEW x, NEW e
    PROVE  /\ State(x, e) = "unavailable" <=> Unavailable(x, e)
           /\ Ceiling(x, e) = IF Unavailable(x, e) THEN 0 ELSE Least(Limits(x, e))
           /\ Limits(x, e) \in SUBSET (40..100) /\ Least(Limits(x, e)) \in Limits(x, e)
           /\ \A n \in Limits(x, e) : Least(Limits(x, e)) <= n
           /\ Ceiling(x, e) \in Nat /\ (~Unavailable(x, e) => Ceiling(x, e) >= 40)
<1>1. State(x, e) = "unavailable" <=> Unavailable(x, e)
  BY DEF State
<1>2. Ceiling(x, e) = IF Unavailable(x, e) THEN 0 ELSE Least(Limits(x, e))
  BY <1>1 DEF Ceiling, Limits
<1>3. Limits(x, e) \in SUBSET (40..100) /\ 100 \in Limits(x, e)
  BY DEF Limits
<1>4. Least(Limits(x, e)) \in Limits(x, e) /\ \A n \in Limits(x, e) : Least(Limits(x, e)) <= n
  <2>1. Limits(x, e) \in SUBSET Nat /\ Limits(x, e) # {}
    BY <1>3
  <2> QED
    BY <2>1, LeastIsLeast
<1> QED
  BY <1>1, <1>2, <1>3, <1>4

\* Evidence that is nowhere better has no higher ceilings.
LEMMA CeilingsDoNotGrow ==
    ASSUME NEW e, NEW f, NothingBetter(e, f), EvidenceSpelled(e), EvidenceSpelled(f),
           NEW x \in Features
    PROVE  Ceiling(x, f) <= Ceiling(x, e)
<1>1. Claims(f) \subseteq Claims(e) /\ (Unavailable(x, e) => Unavailable(x, f))
  BY ClaimsDoNotGrow
<1>2. CASE Unavailable(x, f)
  BY <1>2, CeilingIs
<1>3. CASE ~Unavailable(x, f)
  <2>1. ~Unavailable(x, e)
    BY <1>1, <1>3
  <2>2. State(x, e) = "outside-research-envelope" => State(x, f) = "outside-research-envelope"
    BY <1>3, <2>1 DEF State, NothingBetter
  <2>3. /\ e.fusion = "disagrees" => f.fusion = "disagrees"
        /\ Observed(e, "visibility", "reduced") => Observed(f, "visibility", "reduced")
        /\ Observed(e, "precipitation", "heavy-rain") => Observed(f, "precipitation", "heavy-rain")
        /\ Observed(e, "illumination", "glare") => Observed(f, "illumination", "glare")
    BY DEF NothingBetter, Observed
  <2>4. Limits(x, e) \subseteq Limits(x, f)
    BY <1>1, <2>2, <2>3 DEF Limits
  <2> QED
    BY <1>3, <2>1, <2>4, CeilingIs
<1> QED
  BY <1>2, <1>3

\* ClaimsAreReduced
LEMMA ClaimsAreReducedStep ==
    ASSUME EvidenceOK(evidence), EvidenceOK(evidence'), Worsens(evidence, evidence')
    PROVE  /\ Claims(evidence') \subseteq Claims(evidence)
           /\ \A x \in Features : Ceiling(x, evidence') <= Ceiling(x, evidence)
           /\ OverallCeiling(evidence') <= OverallCeiling(evidence)
<1> DEFINE e == evidence  f == evidence'
<1>1. NothingBetter(e, f) /\ EvidenceSpelled(e) /\ EvidenceSpelled(f)
  BY WorseIsNotBetter, SpelledOut
<1> HIDE DEF e, f
<1>2. Claims(f) \subseteq Claims(e)
  BY <1>1, ClaimsDoNotGrow
<1>3. \A x \in Features : Ceiling(x, f) <= Ceiling(x, e)
  BY <1>1, CeilingsDoNotGrow
<1>4. OverallCeiling(f) <= OverallCeiling(e)
  <2> DEFINE Ceilings(y) == {Ceiling(x, y) : x \in Features}
  <2>1. ASSUME NEW y PROVE /\ Least(Ceilings(y)) \in Ceilings(y) /\ \A n \in Ceilings(y) : Least(Ceilings(y)) <= n
                           /\ Ceilings(y) \in SUBSET Nat
    <3>1. Ceilings(y) \in SUBSET Nat
      BY CeilingIs
    <3>2. Ceilings(y) # {}
      BY DEF Features
    <3> QED
      BY <3>1, <3>2, LeastIsLeast
  <2>2. PICK x \in Features : Least(Ceilings(e)) = Ceiling(x, e)
    BY <2>1
  <2>3. Least(Ceilings(f)) <= Ceiling(x, f) /\ Least(Ceilings(f)) \in Nat
    BY <2>1
  <2>4. Ceiling(x, f) <= Ceiling(x, e) /\ Ceiling(x, f) \in Nat /\ Ceiling(x, e) \in Nat
    BY <1>3, CeilingIs
  <2>5. Least(Ceilings(f)) <= Least(Ceilings(e))
    <3> HIDE DEF Ceilings
    <3> QED
      BY <2>2, <2>3, <2>4
  <2> QED
    BY <2>5 DEF OverallCeiling
<1> QED
  BY <1>2, <1>3, <1>4 DEF e, f

\* What a state says of the evidence.
LEMMA NominalIsClaimed ==
    ASSUME NEW e, EvidenceSpelled(e), NEW x \in Features, State(x, e) = "nominal"
    PROVE  Needed(x) \subseteq Claims(e)
<1>1. ~Unavailable(x, e) /\ ~Impaired(x, e) /\ ~Degrading(x, e)
  BY DEF State
<1>2. CASE x = "front-collision-warning"
  <2>1. RadarUsable(e) /\ e.can = "ok" /\ e.radarCalibration = "verified" /\ e.timeSync = "verified"
    BY <1>1, <1>2 DEF Unavailable, Impaired
  <2> QED
    BY <1>2, <2>1 DEF Needed, Claims
<1>3. CASE x = "lane-departure-warning"
  BY <1>1, <1>3 DEF Impaired, Needed
<1>4. CASE x = "navigation-context"
  <2>1. GnssUsable(e)
    BY <1>1, <1>4 DEF Unavailable
  <2> QED
    BY <1>4, <2>1 DEF Needed, Claims
<1>5. CASE x = "object-awareness"
  <2>1. RadarUsable(e) /\ CameraUsable(e)
    BY <1>1, <1>5 DEF Impaired
  <2> QED
    BY <1>5, <2>1 DEF Needed, Claims
<1> QED
  BY <1>2, <1>3, <1>4, <1>5 DEF Features

\* The overall rank is the worst of the ranks.
LEMMA RankIsWorst ==
    ASSUME NEW e
    PROVE  /\ \A x \in Features : Rank(State(x, e)) <= OverallRank(e)
           /\ OverallRank(e) \in 0..3
<1> DEFINE R == {Rank(State(x, e)) : x \in Features}
           S == {-Rank(State(x, e)) : x \in Features}
<1>1. \A x \in Features : Rank(State(x, e)) \in 0..3
  BY DEF Rank
<1>2. \A x \in Features : Rank(State(x, e)) + 1 \in 1..4
  BY <1>1
<1> DEFINE T == {Rank(State(x, e)) + 1 : x \in Features}
<1>3. T \in SUBSET (1..4) /\ T # {}
  BY <1>2 DEF Features
<1>4. Max(T) \in T /\ \A y \in T : Max(T) >= y
  BY <1>3, GreatestIsMax
<1>5. PICK w \in Features : Max(T) = Rank(State(w, e)) + 1
  BY <1>4
<1>6. \A x \in Features : Rank(State(x, e)) <= Rank(State(w, e))
  <2> SUFFICES ASSUME NEW x \in Features PROVE Rank(State(x, e)) <= Rank(State(w, e))
    OBVIOUS
  <2>1. Max(T) >= Rank(State(x, e)) + 1
    BY <1>4
  <2> HIDE DEF T
  <2> QED
    BY <1>1, <1>5, <2>1
<1>7. -Rank(State(w, e)) \in S /\ \A n \in S : -Rank(State(w, e)) <= n
  <2> SUFFICES ASSUME NEW n \in S PROVE -Rank(State(w, e)) <= n
    OBVIOUS
  <2>1. PICK x \in Features : n = -Rank(State(x, e))
    OBVIOUS
  <2> QED
    BY <1>1, <1>6, <2>1
<1>8. Least(S) \in S /\ \A n \in S : Least(S) <= n
  BY <1>7 DEF Least
<1>9. Least(S) <= -Rank(State(w, e)) /\ -Rank(State(w, e)) <= Least(S)
  BY <1>7, <1>8
<1>10. PICK v \in Features : Least(S) = -Rank(State(v, e))
  BY <1>8
<1>11. OverallRank(e) = Rank(State(w, e))
  <2> HIDE DEF S, T
  <2>1. OverallRank(e) = -Least(S)
    BY DEF OverallRank, S
  <2> QED
    BY <1>1, <1>9, <1>10, <2>1
<1> QED
  BY <1>1, <1>6, <1>11

\* StatesHideNothing, whatever the evidence.
LEMMA StatesHideNothingHolds ==
    ASSUME EvidenceOK(evidence)
    PROVE  StatesHideNothing
<1> DEFINE e == evidence
<1>0. EvidenceSpelled(e)
  BY SpelledOut
<1> HIDE DEF e
<1>1. \A x \in Features : State(x, e) = "nominal" => Needed(x) \subseteq Claims(e)
  BY <1>0, NominalIsClaimed
<1>2. CriticalAllowed(e) => State("front-collision-warning", e) # "unavailable"
  <2>1. CriticalAllowed(e) => RadarUsable(e)
    BY DEF CriticalAllowed, Claims
  <2>2. Unavailable("front-collision-warning", e) <=> ~RadarUsable(e)
    BY DEF Unavailable
  <2> QED
    BY <2>1, <2>2, CeilingIs
<1>3. OverallRank(e) < 3 => OverallCeiling(e) > 0
  <2> SUFFICES ASSUME OverallRank(e) < 3 PROVE OverallCeiling(e) > 0
    OBVIOUS
  <2>1. \A x \in Features : State(x, e) # "unavailable"
    <3> SUFFICES ASSUME NEW x \in Features, State(x, e) = "unavailable" PROVE FALSE
      OBVIOUS
    <3>1. Rank(State(x, e)) = 3
      BY DEF Rank
    <3>2. Rank(State(x, e)) <= OverallRank(e) /\ OverallRank(e) \in 0..3
      BY RankIsWorst
    <3> QED
      BY <3>1, <3>2
  <2>2. \A x \in Features : Ceiling(x, e) \in Nat /\ Ceiling(x, e) >= 40
    BY <2>1, CeilingIs
  <2> DEFINE C == {Ceiling(x, e) : x \in Features}
  <2>3. C \in SUBSET Nat /\ C # {} /\ \A n \in C : n >= 40
    BY <2>2 DEF Features
  <2>4. Least(C) \in C
    BY <2>3, LeastIsLeast
  <2> HIDE DEF C
  <2>5. Least(C) \in Nat /\ Least(C) >= 40
    BY <2>3, <2>4
  <2> QED
    BY <2>5 DEF OverallCeiling, C
<1>4. Cardinality({x \in Features : Unavailable(x, e)}) > 0 => OverallRank(e) = 3
  <2> SUFFICES ASSUME Cardinality({x \in Features : Unavailable(x, e)}) > 0
               PROVE  OverallRank(e) = 3
    OBVIOUS
  <2>1. {x \in Features : Unavailable(x, e)} # {}
    BY FS_EmptySet
  <2>2. PICK x \in Features : Unavailable(x, e)
    BY <2>1
  <2>3. Rank(State(x, e)) = 3
    BY <2>2, CeilingIs DEF Rank
  <2> QED
    BY <2>3, RankIsWorst
<1> QED
  BY <1>1, <1>2, <1>3, <1>4 DEF StatesHideNothing, e

-----------------------------------------------------------------------------
(* AssuranceGates: no gate opens on worse facts *)

\* An aspect with the values v, the best first, got no better.
Moved(v, x, y) == \E p, q \in DOMAIN v : p <= q /\ x = v[p] /\ y = v[q]

\* The same, where there are two values.
LEMMA MovedOfTwo ==
    ASSUME NEW a, NEW b, a # b, NEW x, NEW y, Moved(<<a, b>>, x, y)
    PROVE  x \in {a, b} /\ y \in {a, b} /\ (y = a => x = a) /\ (x = b => y = b)
  BY DEF Moved

\* The same, where there are three.
LEMMA MovedOfThree ==
    ASSUME NEW a, NEW b, NEW c, a # b, a # c, b # c, NEW x, NEW y, Moved(<<a, b, c>>, x, y)
    PROVE  /\ x \in {a, b, c} /\ y \in {a, b, c} /\ (y = a => x = a) /\ (x = c => y = c)
           /\ x = b => y # a
  BY DEF Moved

\* The same, where there are four.
LEMMA MovedOfFour ==
    ASSUME NEW a, NEW b, NEW c, NEW d, a # b, a # c, b # c, a # d, b # d, c # d,
           NEW x, NEW y, Moved(<<a, b, c, d>>, x, y)
    PROVE  /\ x \in {a, b, c, d} /\ y \in {a, b, c, d} /\ (y = a => x = a) /\ (x = d => y = d)
           /\ (y = b => x \in {a, b}) /\ (x = c => y \in {c, d})
  BY DEF Moved

\* No aspect of gate g got better.
NoneBetter(g, e, f) == \A a \in DOMAIN AspectsOf[g] : Moved(AspectsOf[g][a], e[a], f[a])

\* A verdict claims no more than another.
NoMore(after, before) == after.claims \subseteq before.claims /\ after.ceiling <= before.ceiling

\* The gate of time synchronisation opens nothing more on facts that are nowhere better.
LEMMA TimeSyncClosesOnly ==
    ASSUME NEW e, NEW f, NoneBetter("timeSync", e, f)
    PROVE  NoMore(Assessment("timeSync", f), Assessment("timeSync", e))
<1>1. AspectsOf["timeSync"] =
        [measurement |-> <<"valid", "invalid">>, clock |-> <<"monotonic", "regressed">>,
         time |-> <<"observed", "future">>, bounds |-> <<"reviewed", "missing", "invalid">>,
         offset |-> Bounded, jitter |-> Bounded]
  BY DEF AspectsOf
<1>2. /\ Moved(<<"valid", "invalid">>, e.measurement, f.measurement)
      /\ Moved(<<"monotonic", "regressed">>, e.clock, f.clock)
      /\ Moved(<<"observed", "future">>, e.time, f.time)
      /\ Moved(<<"reviewed", "missing", "invalid">>, e.bounds, f.bounds)
      /\ Moved(Bounded, e.offset, f.offset) /\ Moved(Bounded, e.jitter, f.jitter)
  BY <1>1 DEF NoneBetter
<1>3. NoMore(AssessTimeSync(f), AssessTimeSync(e))
  BY <1>2, MovedOfTwo, MovedOfThree DEF Bounded, AssessTimeSync, Closed, Level, Verdict, NoMore
<1> QED
  BY <1>3 DEF Assessment

\* The gate of collision warnings opens nothing more on facts that are nowhere better.
LEMMA CollisionClosesOnly ==
    ASSUME NEW e, NEW f, NoneBetter("collision", e, f)
    PROVE  NoMore(Assessment("collision", f), Assessment("collision", e))
<1>1. AspectsOf["collision"] =
        [radar |-> Trust, odometry |-> Trust, timeSync |-> Trust, camera |-> Trust,
         metrics |-> <<"both", "missing", "invalid">>]
  BY DEF AspectsOf
<1>2. /\ \A s \in {"radar", "odometry", "timeSync", "camera"} : Moved(Trust, e[s], f[s])
      /\ Moved(<<"both", "missing", "invalid">>, e.metrics, f.metrics)
  BY <1>1 DEF NoneBetter
<1>3. NoMore(DecideCollisionClaim(f), DecideCollisionClaim(e))
  BY <1>2, MovedOfTwo, MovedOfThree
     DEF Trust, DecideCollisionClaim, Closed, Level, Verdict, NoMore, Required
<1> QED
  BY <1>3 DEF Assessment

\* The gate of warm standby opens nothing more on facts that are nowhere better.
LEMMA StandbyClosesOnly ==
    ASSUME NEW e, NEW f, NoneBetter("standby", e, f)
    PROVE  NoMore(Assessment("standby", f), Assessment("standby", e))
<1>1. AspectsOf["standby"] =
        [platform |-> <<"healthy", "not">>, primary |-> <<"stale", "present">>,
         witness |-> <<"valid", "none">>, replicated |-> <<"fresh", "stale">>]
  BY DEF AspectsOf
<1>2. /\ Moved(<<"healthy", "not">>, e.platform, f.platform)
      /\ Moved(<<"stale", "present">>, e.primary, f.primary)
      /\ Moved(<<"valid", "none">>, e.witness, f.witness)
      /\ Moved(<<"fresh", "stale">>, e.replicated, f.replicated)
  BY <1>1 DEF NoneBetter
<1>3. NoMore(DecideStandbyPromotion(f), DecideStandbyPromotion(e))
  BY <1>2, MovedOfTwo
     DEF DecideStandbyPromotion, Closed, Level, Verdict, NoMore
<1> QED
  BY <1>3 DEF Assessment

\* The gate of road limits opens nothing more on facts that are nowhere better.
LEMMA RoadLimitClosesOnly ==
    ASSUME NEW e, NEW f, NoneBetter("roadLimit", e, f)
    PROVE  NoMore(Assessment("roadLimit", f), Assessment("roadLimit", e))
<1>1. AspectsOf["roadLimit"] = RoadOutcomes
  BY DEF AspectsOf
<1>2. /\ Moved(<<"sure", "unsure", "stale", "none">>, e.sign, f.sign)
      /\ Moved(<<"limit", "silent", "failed">>, e.map, f.map)
      /\ Moved(<<"configured", "none">>, e.providers, f.providers)
  BY <1>1 DEF NoneBetter, RoadOutcomes
<1>3. NoMore(GetRoadContext(f), GetRoadContext(e))
  BY <1>2, MovedOfTwo, MovedOfThree, MovedOfFour
     DEF GetRoadContext, Closed, Level, Verdict, NoMore
<1> QED
  BY <1>3 DEF Assessment

\* The gate of diagnostics opens nothing more on facts that are nowhere better.
LEMMA DiagnosticsClosesOnly ==
    ASSUME NEW e, NEW f, NoneBetter("diagnostics", e, f)
    PROVE  NoMore(Assessment("diagnostics", f), Assessment("diagnostics", e))
<1>1. AspectsOf["diagnostics"] = DiagnosticSources
  BY DEF AspectsOf
<1>2. /\ Moved(<<"physical", "software">>, e.test, f.test)
      /\ Moved(<<"provided", "none">>, e.runtime, f.runtime)
      /\ Moved(<<"told", "missing">>, e.build, f.build)
      /\ Moved(<<"told", "missing">>, e.hardware, f.hardware)
      /\ Moved(<<"told", "missing">>, e.revisions, f.revisions)
      /\ Moved(<<"covered", "not">>, e.sensorAges, f.sensorAges)
      /\ Moved(<<"covered", "not">>, e.rejectedPackets, f.rejectedPackets)
      /\ Moved(<<"covered", "not">>, e.providers, f.providers)
  BY <1>1 DEF NoneBetter, DiagnosticSources
<1>3. NoMore(BuildFieldDiagnosticsReport(f), BuildFieldDiagnosticsReport(e))
  BY <1>2, MovedOfTwo
     DEF BuildFieldDiagnosticsReport, Verdict, NoMore
<1> QED
  BY <1>3 DEF Assessment

\* The gate of the environment envelope opens nothing more on facts that are nowhere better.
LEMMA EnvironmentEnvelopeClosesOnly ==
    ASSUME NEW e, NEW f, NoneBetter("environmentEnvelope", e, f)
    PROVE  NoMore(Assessment("environmentEnvelope", f), Assessment("environmentEnvelope", e))
<1>1. AspectsOf["environmentEnvelope"] =
        [policy |-> <<"reviewed", "invalid">>,
         time |-> <<"fresh", "stale", "future", "none">>,
         visibility |-> <<"clear", "low", "unseen">>,
         light |-> <<"lit", "dark", "unseen">>,
         rain |-> <<"dry", "moderate", "heavy", "unseen">>,
         glare |-> <<"none", "glare", "unseen">>,
         lens |-> <<"clear", "partly", "obstructed", "unseen">>]
  BY DEF AspectsOf
<1>2. /\ Moved(<<"reviewed", "invalid">>, e.policy, f.policy)
      /\ Moved(<<"fresh", "stale", "future", "none">>, e.time, f.time)
      /\ Moved(<<"clear", "low", "unseen">>, e.visibility, f.visibility)
      /\ Moved(<<"lit", "dark", "unseen">>, e.light, f.light)
      /\ Moved(<<"dry", "moderate", "heavy", "unseen">>, e.rain, f.rain)
      /\ Moved(<<"none", "glare", "unseen">>, e.glare, f.glare)
      /\ Moved(<<"clear", "partly", "obstructed", "unseen">>, e.lens, f.lens)
  BY <1>1 DEF NoneBetter
<1>3. NoMore(AssessEnvironmentEnvelope(f), AssessEnvironmentEnvelope(e))
  BY <1>2, MovedOfTwo, MovedOfThree, MovedOfFour
     DEF AssessEnvironmentEnvelope, Closed, Level, Verdict, NoMore
<1> QED
  BY <1>3 DEF Assessment

\* The gate of radar claims opens nothing more on facts that are nowhere better.
LEMMA RadarClaimsClosesOnly ==
    ASSUME NEW e, NEW f, NoneBetter("radarClaims", e, f)
    PROVE  NoMore(Assessment("radarClaims", f), Assessment("radarClaims", e))
<1>1. AspectsOf["radarClaims"] = ClaimAspects
  BY DEF AspectsOf
<1>2. /\ Moved(<<"fresh", "stale", "future">>, e.age, f.age)
      /\ Moved(<<"valid", "invalid">>, e.input, f.input)
      /\ Moved(<<"enough", "low">>, e.confidence, f.confidence)
      /\ Moved(Assured, e.calibration, f.calibration) /\ Moved(Assured, e.timeSync, f.timeSync)
      /\ Moved(<<"authoritative", "not">>, e.geometry, f.geometry)
  BY <1>1 DEF NoneBetter, ClaimAspects
<1>3. NoMore(AssessPerceptionClaims(f, TRUE, FALSE), AssessPerceptionClaims(e, TRUE, FALSE))
  BY <1>2, MovedOfTwo, MovedOfThree
     DEF Assured, AssessPerceptionClaims, HardFailure, Closed, Verdict, NoMore
<1> QED
  BY <1>3 DEF Assessment

\* The gate of camera claims opens nothing more on facts that are nowhere better.
LEMMA CameraClaimsClosesOnly ==
    ASSUME NEW e, NEW f, NoneBetter("cameraClaims", e, f)
    PROVE  NoMore(Assessment("cameraClaims", f), Assessment("cameraClaims", e))
<1>1. AspectsOf["cameraClaims"] = ClaimAspects
  BY DEF AspectsOf
<1>2. /\ Moved(<<"fresh", "stale", "future">>, e.age, f.age)
      /\ Moved(<<"valid", "invalid">>, e.input, f.input)
      /\ Moved(<<"enough", "low">>, e.confidence, f.confidence)
      /\ Moved(Assured, e.calibration, f.calibration) /\ Moved(Assured, e.timeSync, f.timeSync)
      /\ Moved(<<"authoritative", "not">>, e.geometry, f.geometry)
  BY <1>1 DEF NoneBetter, ClaimAspects
<1>3. NoMore(AssessPerceptionClaims(f, FALSE, TRUE), AssessPerceptionClaims(e, FALSE, TRUE))
  BY <1>2, MovedOfTwo, MovedOfThree
     DEF Assured, AssessPerceptionClaims, HardFailure, Closed, Verdict, NoMore
<1> QED
  BY <1>3 DEF Assessment

\* The gate of fused claims opens nothing more on facts that are nowhere better.
LEMMA FusedClaimsClosesOnly ==
    ASSUME NEW e, NEW f, NoneBetter("fusedClaims", e, f)
    PROVE  NoMore(Assessment("fusedClaims", f), Assessment("fusedClaims", e))
<1>1. AspectsOf["fusedClaims"] = ClaimAspects
  BY DEF AspectsOf
<1>2. /\ Moved(<<"fresh", "stale", "future">>, e.age, f.age)
      /\ Moved(<<"valid", "invalid">>, e.input, f.input)
      /\ Moved(<<"enough", "low">>, e.confidence, f.confidence)
      /\ Moved(Assured, e.calibration, f.calibration) /\ Moved(Assured, e.timeSync, f.timeSync)
      /\ Moved(<<"authoritative", "not">>, e.geometry, f.geometry)
  BY <1>1 DEF NoneBetter, ClaimAspects
<1>3. NoMore(AssessPerceptionClaims(f, TRUE, TRUE), AssessPerceptionClaims(e, TRUE, TRUE))
  BY <1>2, MovedOfTwo, MovedOfThree
     DEF Assured, AssessPerceptionClaims, HardFailure, Closed, Verdict, NoMore
<1> QED
  BY <1>3 DEF Assessment

\* The gate of calibration opens nothing more on facts that are nowhere better.
LEMMA CalibrationClosesOnly ==
    ASSUME NEW e, NEW f, NoneBetter("calibration", e, f)
    PROVE  NoMore(Assessment("calibration", f), Assessment("calibration", e))
<1>1. AspectsOf["calibration"] =
        [age |-> <<"fresh", "stale", "future", "invalid">>,
         identity |-> <<"complete", "incomplete">>,
         mount |-> <<"expected", "other">>,
         review |-> <<"accepted", "pending", "rejected">>]
  BY DEF AspectsOf
<1>2. /\ Moved(<<"fresh", "stale", "future", "invalid">>, e.age, f.age)
      /\ Moved(<<"complete", "incomplete">>, e.identity, f.identity)
      /\ Moved(<<"expected", "other">>, e.mount, f.mount)
      /\ Moved(<<"accepted", "pending", "rejected">>, e.review, f.review)
  BY <1>1 DEF NoneBetter
<1>3. NoMore(AssessCalibration(f), AssessCalibration(e))
  BY <1>2, MovedOfTwo, MovedOfThree, MovedOfFour
     DEF AssessCalibration, Closed, Level, Verdict, NoMore
<1> QED
  BY <1>3 DEF Assessment

\* The gate of the clock opens nothing more on facts that are nowhere better.
LEMMA ClockClosesOnly ==
    ASSUME NEW e, NEW f, NoneBetter("clock", e, f)
    PROVE  NoMore(Assessment("clock", f), Assessment("clock", e))
<1>1. AspectsOf["clock"] =
        [sample |-> <<"fresh", "stale", "none">>, order |-> <<"monotonic", "not">>,
         source |-> <<"trusted", "untrusted">>, quality |-> Bounded]
  BY DEF AspectsOf
<1>2. /\ Moved(<<"fresh", "stale", "none">>, e.sample, f.sample)
      /\ Moved(<<"monotonic", "not">>, e.order, f.order)
      /\ Moved(<<"trusted", "untrusted">>, e.source, f.source)
      /\ Moved(Bounded, e.quality, f.quality)
  BY <1>1 DEF NoneBetter
<1>3. NoMore(AssessClockQuality(f), AssessClockQuality(e))
  BY <1>2, MovedOfTwo, MovedOfThree
     DEF Bounded, AssessClockQuality, Closed, Level, Verdict, NoMore
<1> QED
  BY <1>3 DEF Assessment

\* The gate of the model runtime opens nothing more on facts that are nowhere better.
LEMMA MlRuntimeClosesOnly ==
    ASSUME NEW e, NEW f, NoneBetter("mlRuntime", e, f)
    PROVE  NoMore(Assessment("mlRuntime", f), Assessment("mlRuntime", e))
<1>1. AspectsOf["mlRuntime"] =
        [model |-> <<"loaded", "missing">>, runtime |-> <<"healthy", "not">>,
         metrics |-> <<"valid", "invalid">>,
         bounds |-> <<"reviewed", "missing", "invalid">>, latency |-> Bounded,
         drops |-> Bounded, memory |-> Bounded]
  BY DEF AspectsOf
<1>2. /\ Moved(<<"loaded", "missing">>, e.model, f.model)
      /\ Moved(<<"healthy", "not">>, e.runtime, f.runtime)
      /\ Moved(<<"valid", "invalid">>, e.metrics, f.metrics)
      /\ Moved(<<"reviewed", "missing", "invalid">>, e.bounds, f.bounds)
      /\ Moved(Bounded, e.latency, f.latency) /\ Moved(Bounded, e.drops, f.drops)
      /\ Moved(Bounded, e.memory, f.memory)
  BY <1>1 DEF NoneBetter
<1>3. NoMore(AssessMlRuntime(f), AssessMlRuntime(e))
  BY <1>2, MovedOfTwo, MovedOfThree
     DEF Bounded, AssessMlRuntime, Closed, Level, Verdict, NoMore
<1> QED
  BY <1>3 DEF Assessment

\* The gate of camera frames opens nothing more on facts that are nowhere better.
LEMMA CameraFrameClosesOnly ==
    ASSUME NEW e, NEW f, NoneBetter("cameraFrame", e, f)
    PROVE  NoMore(Assessment("cameraFrame", f), Assessment("cameraFrame", e))
<1>1. AspectsOf["cameraFrame"] =
        [order |-> <<"monotonic", "not">>, age |-> <<"fresh", "stale">>,
         latency |-> Bounded, model |-> <<"verified", "not">>,
         confidence |-> <<"enough", "low">>]
  BY DEF AspectsOf
<1>2. /\ Moved(<<"monotonic", "not">>, e.order, f.order)
      /\ Moved(<<"fresh", "stale">>, e.age, f.age) /\ Moved(Bounded, e.latency, f.latency)
      /\ Moved(<<"verified", "not">>, e.model, f.model)
      /\ Moved(<<"enough", "low">>, e.confidence, f.confidence)
  BY <1>1 DEF NoneBetter
<1>3. NoMore(AssessCameraFrame(f), AssessCameraFrame(e))
  BY <1>2, MovedOfTwo
     DEF Bounded, AssessCameraFrame, Closed, Level, Verdict, NoMore
<1> QED
  BY <1>3 DEF Assessment

\* The gate of obstruction opens nothing more on facts that are nowhere better.
LEMMA ObstructionClosesOnly ==
    ASSUME NEW e, NEW f, NoneBetter("obstruction", e, f)
    PROVE  NoMore(Assessment("obstruction", f), Assessment("obstruction", e))
<1>1. AspectsOf["obstruction"] =
        [sample |-> <<"fresh", "stale", "none">>,
         selfTest |-> <<"pass", "unknown", "fail">>,
         lens |-> <<"clear", "partly", "obstructed">>,
         confidence |-> <<"enough", "low">>]
  BY DEF AspectsOf
<1>2. /\ Moved(<<"fresh", "stale", "none">>, e.sample, f.sample)
      /\ Moved(<<"pass", "unknown", "fail">>, e.selfTest, f.selfTest)
      /\ Moved(<<"clear", "partly", "obstructed">>, e.lens, f.lens)
      /\ Moved(<<"enough", "low">>, e.confidence, f.confidence)
  BY <1>1 DEF NoneBetter
<1>3. NoMore(AssessObstruction(f), AssessObstruction(e))
  BY <1>2, MovedOfTwo, MovedOfThree
     DEF AssessObstruction, Closed, Level, Verdict, NoMore
<1> QED
  BY <1>3 DEF Assessment

\* The gate of runtime health opens nothing more on facts that are nowhere better.
LEMMA RuntimeHealthClosesOnly ==
    ASSUME NEW e, NEW f, NoneBetter("runtimeHealth", e, f)
    PROVE  NoMore(Assessment("runtimeHealth", f), Assessment("runtimeHealth", e))
<1>1. AspectsOf["runtimeHealth"] =
        [heartbeat |-> <<"recent", "late">>, restarts |-> Bounded,
         eventLoop |-> Bounded, memory |-> Bounded, temperature |-> Bounded,
         sensors |-> <<"fresh", "stale">>, canTransmits |-> <<"none", "some">>]
  BY DEF AspectsOf
<1>2. /\ Moved(<<"recent", "late">>, e.heartbeat, f.heartbeat)
      /\ Moved(Bounded, e.restarts, f.restarts) /\ Moved(Bounded, e.eventLoop, f.eventLoop)
      /\ Moved(Bounded, e.memory, f.memory) /\ Moved(Bounded, e.temperature, f.temperature)
      /\ Moved(<<"fresh", "stale">>, e.sensors, f.sensors)
      /\ Moved(<<"none", "some">>, e.canTransmits, f.canTransmits)
  BY <1>1 DEF NoneBetter
<1>3. NoMore(AssessRuntimeHealth(f), AssessRuntimeHealth(e))
  BY <1>2, MovedOfTwo
     DEF Bounded, AssessRuntimeHealth, Closed, Level, Verdict, NoMore
<1> QED
  BY <1>3 DEF Assessment


\* An environment that is no longer observed is left out, see Worse.
LEMMA EnvironmentAssuranceClosesOnly ==
    ASSUME NEW e, NEW f, NoneBetter("environmentAssurance", e, f),
           f.time = e.time \/ f.time \notin {"stale", "none"}
    PROVE  NoMore(Assessment("environmentAssurance", f), Assessment("environmentAssurance", e))
<1>1. AspectsOf["environmentAssurance"] =
        [input |-> <<"valid", "invalid">>, time |-> <<"fresh", "future", "stale", "none">>,
         visibility |-> <<"normal", "reduced">>, rain |-> <<"none", "heavy">>,
         illumination |-> <<"normal", "transition", "glare">>, lens |-> <<"clear", "obstructed">>]
  BY DEF AspectsOf
<1>2. /\ Moved(<<"valid", "invalid">>, e.input, f.input)
      /\ Moved(<<"fresh", "future", "stale", "none">>, e.time, f.time)
      /\ Moved(<<"normal", "reduced">>, e.visibility, f.visibility)
      /\ Moved(<<"none", "heavy">>, e.rain, f.rain)
      /\ Moved(<<"normal", "transition", "glare">>, e.illumination, f.illumination)
      /\ Moved(<<"clear", "obstructed">>, e.lens, f.lens)
  BY <1>1 DEF NoneBetter
<1>3. NoMore(AssessEnvironmentAssurance(f), AssessEnvironmentAssurance(e))
  BY <1>2, MovedOfTwo, MovedOfThree, MovedOfFour
     DEF AssessEnvironmentAssurance, Closed, Level, Verdict, NoMore
<1> QED
  BY <1>3 DEF Assessment

\* Of a fix whose heading is invalid the speed stays as it is, see Worse.
LEMMA GnssClosesOnly ==
    ASSUME NEW e, NEW f, NoneBetter("gnss", e, f), f.speed = e.speed \/ e.heading = "valid",
           f.speed = e.speed \/ f.heading = e.heading
    PROVE  NoMore(Assessment("gnss", f), Assessment("gnss", e))
<1>1. AspectsOf["gnss"] =
        [fix |-> <<"valid", "invalid">>, time |-> <<"fresh", "stale", "future">>,
         speed |-> <<"plausible", "not">>, heading |-> <<"valid", "invalid">>,
         accuracy |-> Bounded]
  BY DEF AspectsOf
<1>2. /\ Moved(<<"valid", "invalid">>, e.fix, f.fix)
      /\ Moved(<<"fresh", "stale", "future">>, e.time, f.time)
      /\ Moved(<<"plausible", "not">>, e.speed, f.speed)
      /\ Moved(<<"valid", "invalid">>, e.heading, f.heading)
      /\ Moved(Bounded, e.accuracy, f.accuracy)
  BY <1>1 DEF NoneBetter
<1>3. NoMore(AssessGnssFix(f), AssessGnssFix(e))
  BY <1>2, MovedOfTwo, MovedOfThree
     DEF Bounded, AssessGnssFix, Closed, Level, Verdict, NoMore
<1> QED
  BY <1>3 DEF Assessment

\* The gate of coverage opens nothing more on facts that are nowhere better.
LEMMA CoverageClosesOnly ==
    ASSUME NEW e, NEW f, NoneBetter("coverage", e, f)
    PROVE  NoMore(Assessment("coverage", f), Assessment("coverage", e))
<1>1. AspectsOf["coverage"] =
        [p \in (Scenarios \X Coverage) \cup {<<"critical", "risk">>, <<"all", "registry">>} |->
            IF p[2] = "risk" THEN <<"accepted", "open">>
            ELSE IF p[2] = "registry" THEN <<"whole", "broken">> ELSE Passed]
  BY DEF AspectsOf
<1>2. /\ \A s \in Scenarios, c \in Coverage : Moved(Passed, e[<<s, c>>], f[<<s, c>>])
      /\ Moved(<<"accepted", "open">>, e[<<"critical", "risk">>], f[<<"critical", "risk">>])
      /\ Moved(<<"whole", "broken">>, e[<<"all", "registry">>], f[<<"all", "registry">>])
  BY <1>1 DEF NoneBetter, Coverage
<1>3. /\ \A s \in Scenarios, c \in Coverage : e[<<s, c>>] = "missing" => f[<<s, c>>] = "missing"
      /\ f[<<"critical", "risk">>] # "open" => e[<<"critical", "risk">>] # "open"
      /\ e[<<"all", "registry">>] = "broken" => f[<<"all", "registry">>] = "broken"
  BY <1>2, MovedOfTwo DEF Passed
<1>4. \A c \in Coverage : Lacks(e, c) => Lacks(f, c)
  BY <1>3 DEF Lacks, Needs, Coverage, Scenarios
<1>5. NoMore(AssessCoverage(f), AssessCoverage(e))
  BY <1>3, <1>4 DEF Coverage, AssessCoverage, Closed, Level, Verdict, NoMore
<1> QED
  BY <1>5 DEF Assessment

\* The gate of the safety case opens nothing more on facts that are nowhere better.
LEMMA SafetyCaseClosesOnly ==
    ASSUME NEW e, NEW f, NoneBetter("safetyCase", e, f)
    PROVE  NoMore(Assessment("safetyCase", f), Assessment("safetyCase", e))
<1>1. AspectsOf["safetyCase"] =
        [s \in {"source", "tests", "sil", "hil", "track", "road"} |-> Passed]
  BY DEF AspectsOf
<1>2. \A s \in {"source", "tests", "sil", "hil", "track", "road"} : Moved(Passed, e[s], f[s])
  BY <1>1 DEF NoneBetter
<1>3. NoMore(AssessSafetyCase(f), AssessSafetyCase(e))
  BY <1>2, MovedOfTwo DEF Passed, AssessSafetyCase, Closed, Level, Verdict, NoMore
<1> QED
  BY <1>3 DEF Assessment

\* The gate of the release opens nothing more on facts that are nowhere better.
LEMMA ReleaseClosesOnly ==
    ASSUME NEW e, NEW f, NoneBetter("release", e, f)
    PROVE  NoMore(Assessment("release", f), Assessment("release", e))
<1>1. AspectsOf["release"] =
        [s \in {"integrity", "tests", "sil", "security", "hil", "track", "review", "road"} |->
            Passed]
  BY DEF AspectsOf
<1>2. \A s \in {"integrity", "tests", "sil", "security", "hil", "track", "review", "road"} :
         Moved(Passed, e[s], f[s])
  BY <1>1 DEF NoneBetter
<1>3. NoMore(ExplainReadiness(f), ExplainReadiness(e))
  BY <1>2, MovedOfTwo DEF Passed, ExplainReadiness, Closed, Level, Verdict, NoMore
<1> QED
  BY <1>3 DEF Assessment

\* The values of an aspect are told apart.
Apart(v) ==
    /\ DOMAIN v \in {1..2, 1..3, 1..4}
    /\ \A p, q \in DOMAIN v : v[p] = v[q] => p = q

\* The aspects of a gate are apart from those of another one.
LEMMA AspectsAreApart ==
    \A g \in Gates : \A a \in DOMAIN AspectsOf[g] : Apart(AspectsOf[g][a])
<1> DEFINE Good(r) == \A a \in DOMAIN r : Apart(r[a])
<1>1. Apart(Trust) /\ Apart(Assured) /\ Apart(Passed) /\ Apart(Bounded)
  BY DEF Apart, Trust, Assured, Passed, Bounded
<1>2. Good(ClaimAspects) /\ Good(RoadOutcomes) /\ Good(DiagnosticSources)
  BY DEF Apart, ClaimAspects, RoadOutcomes, DiagnosticSources, Assured
<1>3. Good(AspectsOf["standby"]) /\ Good(AspectsOf["environmentEnvelope"])
  BY SMTT(30) DEF Apart, AspectsOf
<1>4. Good(AspectsOf["environmentAssurance"]) /\ Good(AspectsOf["calibration"])
  BY SMTT(30) DEF Apart, AspectsOf
<1>5. Good(AspectsOf["timeSync"]) /\ Good(AspectsOf["clock"]) /\ Good(AspectsOf["mlRuntime"])
  BY SMTT(30) DEF Apart, AspectsOf, Bounded
<1>6. Good(AspectsOf["cameraFrame"]) /\ Good(AspectsOf["obstruction"]) /\ Good(AspectsOf["gnss"])
  BY SMTT(30) DEF Apart, AspectsOf, Bounded
<1>7. Good(AspectsOf["collision"]) /\ Good(AspectsOf["runtimeHealth"])
  BY SMTT(30) DEF Apart, AspectsOf, Bounded, Trust
<1>8. Good(AspectsOf["coverage"])
  <2>1. AspectsOf["coverage"] =
        [p \in (Scenarios \X Coverage) \cup {<<"critical", "risk">>, <<"all", "registry">>} |->
            IF p[2] = "risk" THEN <<"accepted", "open">>
            ELSE IF p[2] = "registry" THEN <<"whole", "broken">> ELSE Passed]
    BY DEF AspectsOf
  <2> QED
    BY <1>1, <2>1 DEF Apart
<1>9. Good(AspectsOf["safetyCase"]) /\ Good(AspectsOf["release"])
  BY <1>1 DEF AspectsOf
<1>10. /\ AspectsOf["roadLimit"] = RoadOutcomes /\ AspectsOf["diagnostics"] = DiagnosticSources
       /\ AspectsOf["radarClaims"] = ClaimAspects /\ AspectsOf["cameraClaims"] = ClaimAspects
       /\ AspectsOf["fusedClaims"] = ClaimAspects
  BY DEF AspectsOf
<1>11. Gates = {"standby", "roadLimit", "diagnostics", "environmentEnvelope",
                "environmentAssurance", "radarClaims", "cameraClaims", "fusedClaims", "calibration",
                "timeSync", "clock", "mlRuntime", "cameraFrame", "obstruction", "gnss",
                "collision", "runtimeHealth", "coverage", "safetyCase", "release"}
  BY DEF Gates, AspectsOf
<1> HIDE DEF Good
<1>12. \A g \in Gates : Good(AspectsOf[g])
  BY <1>2, <1>3, <1>4, <1>5, <1>6, <1>7, <1>8, <1>9, <1>10, <1>11
<1> QED
  BY <1>12 DEF Good

\* The inductive invariant: every aspect of the gate has one of its values.
GateOK ==
    /\ gate \in Gates \cup {"association"} /\ matches \in Seq(Associations)
    /\ gate \in Gates =>
          /\ facts = [a \in DOMAIN AspectsOf[gate] |-> facts[a]]
          /\ \A a \in DOMAIN AspectsOf[gate] :
                \E i \in DOMAIN AspectsOf[gate][a] : facts[a] = AspectsOf[gate][a][i]

\* The facts are those of the gate at first.
LEMMA GateOKInit ==
    ASSUME GatesInit
    PROVE  GateOK
<1>1. gate \in Gates \cup {"association"} /\ matches = << >>
      /\ (gate \in Gates => facts = Best(gate))
  BY DEF GatesInit
<1>2. ASSUME gate \in Gates
      PROVE  /\ facts = [a \in DOMAIN AspectsOf[gate] |-> facts[a]]
             /\ \A a \in DOMAIN AspectsOf[gate] :
                  \E i \in DOMAIN AspectsOf[gate][a] : facts[a] = AspectsOf[gate][a][i]
  <2>1. facts = [a \in DOMAIN AspectsOf[gate] |-> AspectsOf[gate][a][1]]
    BY <1>1, <1>2 DEF Best
  <2>2. \A a \in DOMAIN AspectsOf[gate] : 1 \in DOMAIN AspectsOf[gate][a]
    BY <1>2, AspectsAreApart DEF Apart
  <2> QED
    BY <2>1, <2>2
<1> QED
  BY <1>1, <1>2 DEF GateOK

\* The facts stay those of the gate, and the gate stays the one it is.
LEMMA GateOKStep ==
    ASSUME GateOK, GatesNext
    PROVE  GateOK' /\ gate' = gate
<1>1. ASSUME gate \in Gates, NEW a \in DOMAIN AspectsOf[gate],
             NEW i \in DOMAIN AspectsOf[gate][a], Change(a, i)
      PROVE  GateOK' /\ gate' = gate
  BY <1>1 DEF Change, GateOK
<1>2. ASSUME NEW m \in Associations, Associate(m) PROVE GateOK' /\ gate' = gate
  BY <1>2 DEF Associate, GateOK
<1>3. ASSUME NextFrame PROVE GateOK' /\ gate' = gate
  BY <1>3 DEF NextFrame, GateOK
<1> QED
  BY <1>1, <1>2, <1>3 DEF GatesNext

\* Facts that got worse in one aspect are better in none.
LEMMA WorseFacts ==
    ASSUME GateOK, GateOK', gate \in Gates, gate' = gate, Worse(facts, facts')
    PROVE  /\ NoneBetter(gate, facts, facts')
           /\ gate = "environmentAssurance" =>
                 facts'.time = facts.time \/ facts'.time \notin {"stale", "none"}
           /\ gate = "gnss" => facts'.speed = facts.speed
                 \/ (facts.heading = "valid" /\ facts'.heading = facts.heading)
<1> DEFINE V == AspectsOf[gate]  e == facts  f == facts'
<1>1. PICK b \in DOMAIN e :
          /\ PlaceOf(gate, b, f[b]) > PlaceOf(gate, b, e[b]) /\ f = [e EXCEPT ![b] = f[b]]
          /\ ~(gate = "environmentAssurance" /\ b = "time" /\ f[b] \in {"stale", "none"})
          /\ ~(gate = "gnss" /\ b = "speed" /\ e.heading = "invalid")
  BY DEF Worse
<1>2. /\ DOMAIN e = DOMAIN V
      /\ \A a \in DOMAIN V : /\ \E i \in DOMAIN V[a] : e[a] = V[a][i]
                             /\ \E i \in DOMAIN V[a] : f[a] = V[a][i]
  BY DEF GateOK
<1>3. \A a \in DOMAIN V : DOMAIN V[a] \in {1..2, 1..3, 1..4}
                          /\ \A p, q \in DOMAIN V[a] : V[a][p] = V[a][q] => p = q
  BY AspectsAreApart DEF Apart
<1>4. \A a \in DOMAIN V : a # b => f[a] = e[a]
  <2>1. \A a \in DOMAIN e : a # b => [e EXCEPT ![b] = f[b]][a] = e[a]
    OBVIOUS
  <2> HIDE DEF e, f, V
  <2> QED
    BY <1>1, <1>2, <2>1
<1>5. PICK i \in DOMAIN V[b] : e[b] = V[b][i]
  BY <1>2
<1>6. PICK j \in DOMAIN V[b] : f[b] = V[b][j]
  BY <1>2
<1>7. PlaceOf(gate, b, e[b]) = i /\ PlaceOf(gate, b, f[b]) = j
  BY <1>2, <1>3, <1>5, <1>6 DEF PlaceOf
<1>8. i < j
  BY <1>1, <1>2, <1>3, <1>7
<1>9. ASSUME NEW a \in DOMAIN V PROVE Moved(V[a], e[a], f[a])
  <2>1. CASE a = b
    <3>1. i <= j
      BY <1>2, <1>3, <1>8
    <3> QED
      BY <1>5, <1>6, <2>1, <3>1 DEF Moved
  <2>2. CASE a # b
    <3>1. PICK k \in DOMAIN V[a] : e[a] = V[a][k]
      BY <1>2
    <3>2. k <= k
      BY <1>3
    <3> QED
      BY <1>4, <2>2, <3>1, <3>2 DEF Moved
  <2> QED
    BY <2>1, <2>2
<1>10. NoneBetter(gate, e, f)
  BY <1>9 DEF NoneBetter
<1>11. ASSUME gate = "environmentAssurance"
       PROVE  f.time = e.time \/ f.time \notin {"stale", "none"}
  <2>1. "time" \in DOMAIN V
    BY <1>11 DEF AspectsOf
  <2> QED
    BY <1>1, <1>4, <1>11, <2>1
<1>12. ASSUME gate = "gnss"
       PROVE  f.speed = e.speed \/ (e.heading = "valid" /\ f.heading = e.heading)
  <2>1. {"speed", "heading"} \subseteq DOMAIN V /\ V["heading"] = <<"valid", "invalid">>
    BY <1>12 DEF AspectsOf
  <2>2. e.heading \in {"valid", "invalid"}
    BY <1>2, <2>1
  <2> QED
    BY <1>1, <1>4, <1>12, <2>1, <2>2
<1> QED
  BY <1>10, <1>11, <1>12

\* GatesCloseOnly
LEMMA GatesCloseOnlyStep ==
    ASSUME GateOK, GateOK', gate \in Gates, gate' = gate, Worse(facts, facts')
    PROVE  NoMore(Assessment(gate, facts'), Assessment(gate, facts))
<1> DEFINE e == facts  f == facts'
<1>1. NoneBetter(gate, e, f)
  BY WorseFacts
<1>2. gate \in {"standby", "roadLimit", "diagnostics", "environmentEnvelope",
                "environmentAssurance", "radarClaims", "cameraClaims", "fusedClaims", "calibration",
                "timeSync", "clock", "mlRuntime", "cameraFrame", "obstruction", "gnss",
                "collision", "runtimeHealth", "coverage", "safetyCase", "release"}
  BY DEF Gates, AspectsOf
<1>3. CASE gate = "environmentAssurance"
  BY <1>1, <1>3, WorseFacts, EnvironmentAssuranceClosesOnly
<1>4. CASE gate = "gnss"
  BY <1>1, <1>4, WorseFacts, GnssClosesOnly
<1>5. CASE gate \in {"standby", "roadLimit", "diagnostics", "environmentEnvelope", "calibration"}
  BY <1>1, <1>5, StandbyClosesOnly, RoadLimitClosesOnly, DiagnosticsClosesOnly,
     EnvironmentEnvelopeClosesOnly, CalibrationClosesOnly
<1>6. CASE gate \in {"radarClaims", "cameraClaims", "fusedClaims", "timeSync", "clock"}
  BY <1>1, <1>6, RadarClaimsClosesOnly, CameraClaimsClosesOnly, FusedClaimsClosesOnly,
     TimeSyncClosesOnly, ClockClosesOnly
<1>7. CASE gate \in {"mlRuntime", "cameraFrame", "obstruction", "collision", "runtimeHealth"}
  BY <1>1, <1>7, MlRuntimeClosesOnly, CameraFrameClosesOnly, ObstructionClosesOnly,
     CollisionClosesOnly, RuntimeHealthClosesOnly
<1>8. CASE gate \in {"coverage", "safetyCase", "release"}
  BY <1>1, <1>8, CoverageClosesOnly, SafetyCaseClosesOnly, ReleaseClosesOnly
<1> QED
  BY <1>2, <1>3, <1>4, <1>5, <1>6, <1>7, <1>8

-----------------------------------------------------------------------------
(* The worst verdict, and the associations of a frame *)

\* What no gate but that of the environment says with its worst verdicts.
LEMMA WorstIsClosed ==
    ASSUME NEW g \in Gates \ {"environmentAssurance"}, NEW e, Assessment(g, e).rank >= 2
    PROVE  Assessment(g, e).claims = {} /\ Assessment(g, e).ceiling = 0
<1> DEFINE Shut(v) == v.rank >= 2 => v.claims = {} /\ v.ceiling = 0
<1> USE DEF Closed, Level, Verdict
<1>1. Shut(DecideStandbyPromotion(e)) /\ Shut(GetRoadContext(e))
  BY DEF DecideStandbyPromotion, GetRoadContext
<1>2. Shut(BuildFieldDiagnosticsReport(e)) /\ Shut(AssessEnvironmentEnvelope(e))
  BY DEF BuildFieldDiagnosticsReport, AssessEnvironmentEnvelope
<1>3. Shut(AssessPerceptionClaims(e, TRUE, FALSE)) /\ Shut(AssessPerceptionClaims(e, FALSE, TRUE))
      /\ Shut(AssessPerceptionClaims(e, TRUE, TRUE))
  BY DEF AssessPerceptionClaims
<1>4. Shut(AssessCalibration(e)) /\ Shut(AssessTimeSync(e)) /\ Shut(AssessClockQuality(e))
  BY DEF AssessCalibration, AssessTimeSync, AssessClockQuality
<1>5. Shut(AssessMlRuntime(e)) /\ Shut(AssessCameraFrame(e)) /\ Shut(AssessObstruction(e))
  BY DEF AssessMlRuntime, AssessCameraFrame, AssessObstruction
<1>6. Shut(AssessGnssFix(e)) /\ Shut(DecideCollisionClaim(e)) /\ Shut(AssessRuntimeHealth(e))
  BY DEF AssessGnssFix, DecideCollisionClaim, AssessRuntimeHealth
<1>7. Shut(AssessCoverage(e)) /\ Shut(AssessSafetyCase(e)) /\ Shut(ExplainReadiness(e))
  BY DEF AssessCoverage, AssessSafetyCase, ExplainReadiness
<1>8. g \in {"standby", "roadLimit", "diagnostics", "environmentEnvelope", "radarClaims",
             "cameraClaims", "fusedClaims", "calibration", "timeSync", "clock", "mlRuntime",
             "cameraFrame", "obstruction", "gnss", "collision", "runtimeHealth", "coverage",
             "safetyCase", "release"}
  BY DEF Gates, AspectsOf
<1> HIDE DEF Shut, Closed, Level, Verdict
<1>9. Shut(Assessment(g, e))
  BY <1>1, <1>2, <1>3, <1>4, <1>5, <1>6, <1>7, <1>8 DEF Assessment
<1> QED
  BY <1>9 DEF Shut

\* A coverage that is not blocked opens only what it has.
LEMMA CoverageIsUnblocked ==
    ASSUME NEW e
    PROVE  Assessment("coverage", e).rank = 0 <=> ~Blocked(e)
<1>1. AssessCoverage(e).rank = 0 <=>
         /\ e[<<"all", "registry">>] # "broken" /\ e[<<"critical", "risk">>] # "open"
         /\ \A c \in Coverage : ~Lacks(e, c)
  BY DEF AssessCoverage, Closed, Level, Verdict, Coverage
<1> QED
  BY <1>1 DEF Assessment, Blocked

\* What the loop over the matches has found so far.
Found ==
    [radars : SUBSET RadarTracks, cameras : SUBSET CameraObjects,
     reasons : SUBSET {"invalid", "radar-reuse", "camera-reuse", "range", "skew"}]

\* What has been considered of a frame keeps to its tracks and detections.
LEMMA ConsideredStays ==
    ASSUME NEW c \in Found, NEW m \in Associations
    PROVE  /\ Considered(c, m) \in Found /\ c.reasons \subseteq Considered(c, m).reasons
           /\ c.radars \subseteq Considered(c, m).radars
           /\ c.cameras \subseteq Considered(c, m).cameras
           /\ Considered(c, m).reasons = {} =>
                 /\ m.fit = "fits" /\ m.radar \notin c.radars /\ m.camera \notin c.cameras
                 /\ m.radar \in Considered(c, m).radars
                 /\ m.camera \in Considered(c, m).cameras
<1>1. /\ c.radars \subseteq RadarTracks /\ c.cameras \subseteq CameraObjects
      /\ c.reasons \subseteq {"invalid", "radar-reuse", "camera-reuse", "range", "skew"}
      /\ m.radar \in RadarTracks /\ m.camera \in CameraObjects
      /\ m.fit \in {"fits", "range", "skew", "invalid"}
  BY DEF Found, Associations
<1>2. CASE m.fit = "invalid"
  <2>1. Considered(c, m) = [radars |-> c.radars, cameras |-> c.cameras,
                            reasons |-> c.reasons \cup {"invalid"}]
    BY <1>2 DEF Considered, Found
  <2> QED
    BY <1>1, <1>2, <2>1 DEF Found
<1>3. CASE m.fit # "invalid"
  <2> DEFINE new == c.reasons
                \cup {r \in {"radar-reuse"} : m.radar \in c.radars}
                \cup {r \in {"camera-reuse"} : m.camera \in c.cameras}
                \cup ({m.fit} \ {"fits"})
  <2>1. Considered(c, m) = [radars |-> c.radars \cup {m.radar},
                            cameras |-> c.cameras \cup {m.camera}, reasons |-> new]
    BY <1>3 DEF Considered
  <2>2. new \subseteq {"invalid", "radar-reuse", "camera-reuse", "range", "skew"}
    BY <1>1, <1>3
  <2>3. new = {} => m.fit = "fits" /\ m.radar \notin c.radars /\ m.camera \notin c.cameras
    BY <1>1
  <2>4. c.reasons \subseteq new
    OBVIOUS
  <2> HIDE DEF new
  <2> QED
    BY <1>1, <2>1, <2>2, <2>3, <2>4 DEF Found
<1> QED
  BY <1>2, <1>3

\* Associations are made one after the other.
LEMMA MatchesFold ==
    ASSUME matches \in Seq(Associations)
    PROVE  \E h \in [0..Len(matches) -> Found] :
               /\ \A i \in 1..Len(matches) : h[i] = Considered(h[i - 1], matches[i])
               /\ \A t, d : DisagreementReasons(t, d) = h[Len(matches)].reasons
                     \cup {r \in {"impossible"} : Len(matches) > IF t < d THEN t ELSE d}
<1> DEFINE n == Len(matches)
           base == [radars |-> {}, cameras |-> {}, reasons |-> {}]
           Q(g) == g = [s \in SUBSET DOMAIN matches |->
                          IF s = {} THEN base ELSE Considered(g[s \ {Max(s)}], matches[Max(s)])]
           next == [i \in 1..n |-> [x \in Found |-> Considered(x, matches[i])]]
<1>1. n \in Nat /\ DOMAIN matches = 1..n /\ \A i \in 1..n : matches[i] \in Associations
  BY LenProperties
<1>2. next \in [1..n -> [Found -> Found]]
  BY <1>1, ConsideredStays
<1>3. base \in Found
  BY DEF Found
<1>4. PICK g : IsFold(g, n, Found, base, next)
  <2> HIDE DEF next, n, base
  <2> QED
    BY <1>1, <1>2, <1>3, FoldExists
<1>5. Q(g)
  <2> HIDE DEF base
  <2> SUFFICES ASSUME NEW s \in SUBSET (1..n)
               PROVE  g[s] = IF s = {} THEN base ELSE Considered(g[s \ {Max(s)}], matches[Max(s)])
    BY <1>1, <1>4 DEF IsFold
  <2>1. CASE s = {}
    BY <1>4, <2>1 DEF IsFold
  <2>2. CASE s # {}
    <3>1. Max(s) \in s
      BY <1>1, <2>2, GreatestIsMax
    <3>2. g[s \ {Max(s)}] \in Found
      BY <1>4 DEF IsFold
    <3>3. next[Max(s)][g[s \ {Max(s)}]] = Considered(g[s \ {Max(s)}], matches[Max(s)])
      BY <3>1, <3>2
    <3> QED
      BY <1>4, <2>2, <3>3 DEF IsFold
  <2> QED
    BY <2>1, <2>2
<1> DEFINE f == CHOOSE x : Q(x)
<1>6. Q(f)
  <2> HIDE DEF Q
  <2> QED
    BY <1>5
<1>7. \A t, d : DisagreementReasons(t, d) = f[DOMAIN matches].reasons
                     \cup {r \in {"impossible"} : Len(matches) > IF t < d THEN t ELSE d}
  BY DEF DisagreementReasons, FoldLeft, MapThenFoldSet
<1> HIDE DEF f, base
<1>8. f[{}] = base
  BY <1>6
<1>9. ASSUME NEW s \in SUBSET (1..n), s # {}, f[s \ {Max(s)}] \in Found
      PROVE  f[s] = next[Max(s)][f[s \ {Max(s)}]]
  <2>1. f[s] = Considered(f[s \ {Max(s)}], matches[Max(s)])
    BY <1>1, <1>6, <1>9
  <2>2. Max(s) \in 1..n
    BY <1>1, <1>9, GreatestIsMax
  <2> QED
    BY <1>9, <2>1, <2>2
<1> HIDE DEF Q
<1>10. Follows(f, n, Found, base, next)
  BY <1>8, <1>9 DEF Follows
<1>11. PICK h : IsRun(h, n, Found, base, next) /\ h[n] = f[1..n]
  <2> HIDE DEF next, n
  <2>1. n \in Nat
    BY <1>1
  <2>8. FoldsOf(f, n, Found, base, next)
    BY <1>2, <1>3, <1>10, <2>1 DEF FoldsOf
  <2>9. MadeBySteps(f, n, Found, base, next)
    BY <2>8, FoldsAreMade
  <2> QED
    BY <2>9 DEF MadeBySteps
<1>12. \A i \in 1..n : h[i] = Considered(h[i - 1], matches[i])
  <2> SUFFICES ASSUME NEW i \in 1..n PROVE h[i] = Considered(h[i - 1], matches[i])
    OBVIOUS
  <2>1. i - 1 \in 0..n
    BY <1>1
  <2>2. h[i - 1] \in Found
    BY <1>11, <2>1 DEF IsRun
  <2> QED
    BY <1>11, <2>2 DEF IsRun
<1>13. h \in [0..n -> Found] /\ f[DOMAIN matches] = h[n]
  BY <1>1, <1>11 DEF IsRun
<1> HIDE DEF next
<1> QED
  BY <1>7, <1>12, <1>13

\* No track and no detection is in two of the associations of a frame.
LEMMA FusedIsOneToOne ==
    ASSUME matches \in Seq(Associations), FusionAllowed(2, 2)
    PROVE  /\ Len(matches) <= 2
           /\ \A i, j \in DOMAIN matches : i # j =>
                 matches[i].radar # matches[j].radar /\ matches[i].camera # matches[j].camera
           /\ \A i \in DOMAIN matches : matches[i].fit = "fits"
<1> DEFINE n == Len(matches)
<1>1. n \in Nat /\ DOMAIN matches = 1..n /\ \A i \in 1..n : matches[i] \in Associations
  BY LenProperties
<1>2. PICK h \in [0..n -> Found] :
          /\ \A i \in 1..n : h[i] = Considered(h[i - 1], matches[i])
          /\ \A t, d : DisagreementReasons(t, d) = h[n].reasons
                \cup {r \in {"impossible"} : n > IF t < d THEN t ELSE d}
  BY MatchesFold
<1>3. h[n].reasons = {} /\ n <= 2
  <2>1. DisagreementReasons(2, 2) = {}
    BY DEF FusionAllowed
  <2>2. {r \in {"impossible"} : n > IF 2 < 2 THEN 2 ELSE 2} = {} /\ h[n].reasons = {}
    BY <1>2, <2>1
  <2> QED
    BY <1>1, <2>2
\* What was found later says what was found before.
<1>4. \A i \in 1..n : /\ h[i - 1] \in Found /\ h[i] \in Found
                      /\ h[i - 1].reasons \subseteq h[i].reasons
                      /\ h[i - 1].radars \subseteq h[i].radars
                      /\ h[i - 1].cameras \subseteq h[i].cameras
                      /\ h[i].reasons = {} =>
                            /\ matches[i].fit = "fits" /\ matches[i].radar \notin h[i - 1].radars
                            /\ matches[i].camera \notin h[i - 1].cameras
                            /\ matches[i].radar \in h[i].radars
                            /\ matches[i].camera \in h[i].cameras
  <2> SUFFICES ASSUME NEW i \in 1..n
               PROVE  /\ h[i - 1] \in Found /\ h[i] \in Found
                      /\ h[i - 1].reasons \subseteq h[i].reasons
                      /\ h[i - 1].radars \subseteq h[i].radars
                      /\ h[i - 1].cameras \subseteq h[i].cameras
                      /\ h[i].reasons = {} =>
                            /\ matches[i].fit = "fits" /\ matches[i].radar \notin h[i - 1].radars
                            /\ matches[i].camera \notin h[i - 1].cameras
                            /\ matches[i].radar \in h[i].radars
                            /\ matches[i].camera \in h[i].cameras
    OBVIOUS
  <2>0. i - 1 \in 0..n
    BY <1>1
  <2>1. h[i - 1] \in Found /\ matches[i] \in Associations
        /\ h[i] = Considered(h[i - 1], matches[i])
    BY <1>1, <1>2, <2>0
  <2> QED
    BY <2>1, ConsideredStays
<1> DEFINE P == {i \in 0..n : h[n - i].reasons = {}}
<1>5. \A i \in 0..n : h[i].reasons = {}
  <2>1. 0 \in P
    BY <1>1, <1>3
  <2>2. ASSUME NEW i \in 1..n, i - 1 \in P PROVE i \in P
    <3> DEFINE k == n - (i - 1)
    <3>1. k \in 1..n /\ k - 1 = n - i /\ i \in 0..n
      BY <1>1
    <3>2. h[k].reasons = {}
      BY <2>2
    <3>3. h[k - 1].reasons = {}
      <4> HIDE DEF k
      <4> QED
        BY <1>4, <3>1, <3>2
    <3> QED
      BY <3>1, <3>3
  <2>3. \A i \in 0..n : i \in P
    <3> HIDE DEF P
    <3> QED
      BY <1>1, <2>1, <2>2, StepByStep
  <2> SUFFICES ASSUME NEW i \in 0..n PROVE h[i].reasons = {}
    OBVIOUS
  <2>4. n - i \in 0..n /\ n - (n - i) = i
    BY <1>1
  <2>5. n - i \in P
    BY <2>3, <2>4
  <2> QED
    BY <2>4, <2>5
<1>6. ASSUME NEW j \in 1..n
      PROVE  \A i \in 0..n : i >= j => matches[j].radar \in h[i].radars
                                       /\ matches[j].camera \in h[i].cameras
  <2> DEFINE R == {i \in 0..n : i >= j => matches[j].radar \in h[i].radars
                                          /\ matches[j].camera \in h[i].cameras}
  <2>1. 0 \in R
    BY <1>1
  <2>2. ASSUME NEW i \in 1..n, i - 1 \in R PROVE i \in R
    <3>1. i \in 0..n /\ (i >= j => i = j \/ i - 1 >= j)
      BY <1>1
    <3>2. h[i].reasons = {}
      BY <1>5, <3>1
    <3>3. /\ matches[i].radar \in h[i].radars /\ matches[i].camera \in h[i].cameras
          /\ h[i - 1].radars \subseteq h[i].radars /\ h[i - 1].cameras \subseteq h[i].cameras
      BY <1>4, <3>2
    <3> QED
      BY <2>2, <3>1, <3>3
  <2>3. \A i \in 0..n : i \in R
    <3> HIDE DEF R
    <3> QED
      BY <1>1, <2>1, <2>2, StepByStep
  <2> QED
    BY <2>3
<1>7. ASSUME NEW i \in 1..n, NEW j \in 1..n, j < i
      PROVE  matches[i].radar # matches[j].radar /\ matches[i].camera # matches[j].camera
  <2>1. i \in 0..n /\ i - 1 \in 0..n /\ i - 1 >= j
    BY <1>1, <1>7
  <2>2. matches[j].radar \in h[i - 1].radars /\ matches[j].camera \in h[i - 1].cameras
    BY <1>6, <2>1
  <2>3. h[i].reasons = {}
    BY <1>5, <2>1
  <2> QED
    BY <1>4, <2>2, <2>3
<1>8. ASSUME NEW i \in 1..n, NEW j \in 1..n, i # j
      PROVE  matches[i].radar # matches[j].radar /\ matches[i].camera # matches[j].camera
  <2>1. i < j \/ j < i
    BY <1>1, <1>8
  <2> QED
    BY <1>7, <2>1
<1>9. \A i \in 1..n : matches[i].fit = "fits"
  BY <1>1, <1>4, <1>5
<1> QED
  BY <1>1, <1>3, <1>8, <1>9

\* GatesFailClosed, whatever the facts.
LEMMA GatesFailClosedHolds ==
    ASSUME GateOK
    PROVE  GatesFailClosed
<1>1. ASSUME gate \in Gates, gate # "environmentAssurance", Assessment(gate, facts).rank >= 2
      PROVE  Assessment(gate, facts).claims = {} /\ Assessment(gate, facts).ceiling = 0
  BY <1>1, WorstIsClosed
<1>2. ASSUME gate = "coverage"
      PROVE  (Assessment(gate, facts).rank = 0) <=> ~Blocked(facts)
  BY <1>2, CoverageIsUnblocked
<1>3. matches \in Seq(Associations)
  BY DEF GateOK
<1>4. ASSUME FusionAllowed(2, 2)
      PROVE  /\ Len(matches) <= 2
             /\ \A i, j \in DOMAIN matches : i # j =>
                   matches[i].radar # matches[j].radar /\ matches[i].camera # matches[j].camera
             /\ \A i \in DOMAIN matches : matches[i].fit = "fits"
  BY <1>3, <1>4, FusedIsOneToOne
<1> QED
  BY <1>1, <1>2, <1>4 DEF GatesFailClosed

-----------------------------------------------------------------------------
(* Histories: their order in time, and how they end *)

\* The elements of h at the places I in the order of their stamps.
Sorted(h, I) ==
    Arranged(h, I, LAMBDA i, j : h[i].age > h[j].age \/ (h[i].age = h[j].age /\ i < j))

OlderPairs(h, I) ==
    {r \in I \X I : h[r[1]].age > h[r[2]].age \/ (h[r[1]].age = h[r[2]].age /\ r[1] < r[2])}

\* To order by time is to order some of the places.
LEMMA SortedIs ==
    ASSUME NEW X, NEW h \in Seq(X), \A x \in X : x.age \in Int, NEW I \in SUBSET DOMAIN h
    PROVE  /\ IsFiniteSet(I) /\ Cardinality(I) \in Nat
           /\ Sorted(h, I) \in Seq(X) /\ Len(Sorted(h, I)) = Cardinality(I)
           /\ \E p : /\ InOrder(p, OlderPairs(h, I), I)
                     /\ \A k \in 1..Cardinality(I) : Sorted(h, I)[k] = h[p[k]]
<1> DEFINE R == OlderPairs(h, I)
           n == Cardinality(I)
<1>1. DOMAIN h = 1..Len(h) /\ Len(h) \in Nat /\ \A i \in DOMAIN h : h[i] \in X
  BY LenProperties, ElementOfSeq
<1>2. IsFiniteSet(I) /\ n \in Nat
  <2>1. IsFiniteSet(DOMAIN h)
    BY <1>1, FS_Interval
  <2> QED
    BY <2>1, FS_Subset, FS_CardinalityType
<1>3. \A i \in I : i \in Int /\ h[i].age \in Int
  BY <1>1
<1>5. \A i, j \in I : <<i, j>> \in R <=>
                         h[i].age > h[j].age \/ (h[i].age = h[j].age /\ i < j)
  BY DEF OlderPairs
<1>4. Totally(R, I)
  <2> DEFINE a == [i \in I |-> h[i].age]
  <2>1. a \in [I -> Int]
    BY <1>3
  <2>2. \A i, j \in I : <<i, j>> \in R <=> a[i] > a[j] \/ (a[i] = a[j] /\ i < j)
    BY <1>5
  <2> HIDE DEF a, R
  <2>3. \A i \in I : <<i, i>> \notin R
    BY <1>3, <2>1, <2>2
  <2>4. \A i, j \in I : i # j => <<i, j>> \in R \/ <<j, i>> \in R
    BY <1>3, <2>1, <2>2
  <2>5. ASSUME NEW i \in I, NEW j \in I, NEW k \in I, <<i, j>> \in R, <<j, k>> \in R
        PROVE  <<i, k>> \in R
    <3>1. a[i] \in Int /\ a[j] \in Int /\ a[k] \in Int /\ i \in Int /\ j \in Int /\ k \in Int
      BY <1>3, <2>1
    <3>2. /\ a[i] > a[j] \/ (a[i] = a[j] /\ i < j)
          /\ a[j] > a[k] \/ (a[j] = a[k] /\ j < k)
      BY <2>2, <2>5
    <3>3. a[i] > a[k] \/ (a[i] = a[k] /\ i < k)
      BY <3>1, <3>2
    <3> QED
      BY <2>2, <3>3
  <2> QED
    BY <2>3, <2>4, <2>5 DEF Totally
<1>6. \A i \in I : Foregoing(R, I, i) =
          {j \in I : h[j].age > h[i].age \/ (h[j].age = h[i].age /\ j < i)}
  BY <1>5 DEF Foregoing
<1> HIDE DEF R
<1> DEFINE p == [k \in 1..n |-> CHOOSE i \in I : Cardinality(Foregoing(R, I, i)) = k - 1]
           q == [k \in 1..n |-> CHOOSE i \in I : Cardinality(
                     {j \in I : h[j].age > h[i].age \/ (h[j].age = h[i].age /\ j < i)}) = k - 1]
<1>7. InOrder(p, R, I)
  BY <1>2, <1>4, RanksAreInOrder
<1>8. p = q
  <2> SUFFICES ASSUME NEW k \in 1..n PROVE p[k] = q[k]
    BY Zenon
  <2>1. \A i \in I : Cardinality(Foregoing(R, I, i)) = k - 1 <=> Cardinality(
            {j \in I : h[j].age > h[i].age \/ (h[j].age = h[i].age /\ j < i)}) = k - 1
    BY <1>6
  <2>2. p[k] = CHOOSE i \in I : Cardinality(Foregoing(R, I, i)) = k - 1
    OBVIOUS
  <2>3. q[k] = CHOOSE i \in I : Cardinality(
            {j \in I : h[j].age > h[i].age \/ (h[j].age = h[i].age /\ j < i)}) = k - 1
    OBVIOUS
  <2> HIDE DEF p, q
  <2> QED
    BY <2>1, <2>2, <2>3
<1>9. Sorted(h, I) = [k \in 1..n |-> h[q[k]]]
  BY DEF Sorted, Arranged
<1> HIDE DEF p, q
<1>10. \A k \in 1..n : p[k] \in I /\ h[p[k]] \in X
  BY <1>1, <1>7 DEF InOrder, n
<1>11. Sorted(h, I) \in [1..n -> X]
  BY <1>8, <1>9, <1>10
<1>12. Sorted(h, I) \in Seq(X) /\ Len(Sorted(h, I)) = n
  BY <1>2, <1>11, SeqDef, LenProperties
<1>13. \A k \in 1..n : Sorted(h, I)[k] = h[p[k]]
  BY <1>8, <1>9
<1> QED
  BY <1>2, <1>7, <1>12, <1>13 DEF R

\* Each place of a list comes after as many as its number says.
LEMMA AllInOrder ==
    ASSUME NEW n \in Nat, NEW p, Upwards(p, n, 1..n)
    PROVE  \A k \in 1..n : p[k] = k
<1> DEFINE T == {k \in 1..n : p[k] # k}
<1> SUFFICES ASSUME T # {} PROVE FALSE
  OBVIOUS
<1>1. T \in SUBSET Nat
  OBVIOUS
<1>2. PICK k \in T : \A y \in T : k <= y
  BY <1>1, LeastExists
<1>3. k \in 1..n /\ p[k] # k /\ p[k] \in 1..n
  BY <1>2 DEF Upwards
<1>4. \A l \in 1..n : l < k => p[l] = l
  BY <1>2, <1>3
<1>5. ~(p[k] < k)
  <2> SUFFICES ASSUME p[k] < k PROVE FALSE
    OBVIOUS
  <2>1. p[p[k]] = p[k]
    BY <1>3, <1>4
  <2>2. p[p[k]] < p[k]
    BY <1>3 DEF Upwards
  <2> QED
    BY <1>3, <2>1, <2>2
<1>6. PICK l \in 1..n : p[l] = k
  BY <1>3 DEF Upwards
<1>7. ~(l < k) /\ l # k
  BY <1>3, <1>4, <1>6
<1>8. p[k] < p[l]
  BY <1>3, <1>7 DEF Upwards
<1> QED
  BY <1>3, <1>5, <1>6, <1>8

\* What goes down from each place to the next goes down from each place to all later ones.
LEMMA DownAllTheWay ==
    ASSUME NEW n \in Nat, NEW a \in [1..n -> Int], \A i \in 2..n : a[i] < a[i - 1]
    PROVE  \A i, j \in 1..n : i < j => a[j] < a[i]
<1> DEFINE P == {j \in 0..n : \A i \in 1..n : i < j => a[j] < a[i]}
<1>1. 0 \in P
  OBVIOUS
<1>2. ASSUME NEW j \in 1..n, j - 1 \in P PROVE j \in P
  <2> SUFFICES ASSUME NEW i \in 1..n, i < j PROVE a[j] < a[i]
    OBVIOUS
  <2>0. i \in Nat /\ j \in Nat /\ 1 <= i /\ i < j /\ j <= n
    OBVIOUS
  <2>1. j \in 2..n /\ j - 1 \in 1..n
    BY <2>0
  <2>2. a[j] < a[j - 1] /\ a[j] \in Int /\ a[j - 1] \in Int /\ a[i] \in Int
    BY <2>1
  <2>3. i = j - 1 \/ a[j - 1] < a[i]
    BY <1>2, <2>0
  <2>4. CASE i = j - 1
    BY <2>2, <2>4
  <2>5. CASE a[j - 1] < a[i]
    <3>1. \A x, y, z \in Int : x < y /\ y < z => x < z
      OBVIOUS
    <3> HIDE DEF P
    <3> QED
      BY <2>2, <2>5, <3>1
  <2> QED
    BY <2>3, <2>4, <2>5
<1>3. \A j \in 0..n : j \in P
  <2> HIDE DEF P
  <2> QED
    BY <1>1, <1>2, StepByStep
<1> QED
  BY <1>3

\* What does not go down from each place to the next is nowhere lower than before.
LEMMA UpAllTheWay ==
    ASSUME NEW n \in Nat, NEW a \in [1..n -> Int], \A i \in 2..n : a[i] >= a[i - 1]
    PROVE  \A i, j \in 1..n : i <= j => a[j] >= a[i]
<1> DEFINE P == {j \in 0..n : \A i \in 1..n : i <= j => a[j] >= a[i]}
<1>1. 0 \in P
  OBVIOUS
<1>2. ASSUME NEW j \in 1..n, j - 1 \in P PROVE j \in P
  <2> SUFFICES ASSUME NEW i \in 1..n, i <= j PROVE a[j] >= a[i]
    OBVIOUS
  <2>1. CASE i = j
    BY <2>1
  <2>2. CASE i < j
    <3>1. j \in 2..n /\ j - 1 \in 1..n /\ i <= j - 1
      BY <2>2
    <3>2. a[j] >= a[j - 1] /\ a[j] \in Int /\ a[j - 1] \in Int /\ a[i] \in Int
      BY <3>1
    <3>3. a[j - 1] >= a[i]
      BY <1>2, <3>1
    <3> QED
      BY <3>2, <3>3
  <2> QED
    BY <2>1, <2>2
<1>3. \A j \in 0..n : j \in P
  <2> HIDE DEF P
  <2> QED
    BY <1>1, <1>2, StepByStep
<1> QED
  BY <1>3

\* How long a list goes on like this at its end: W are the places that are like this.
Ends(n, m, W) ==
    /\ \A i \in (m - n + 1)..m : i \in W
    /\ n < m => (m - n) \notin W

\* A history that is not empty and ends at or above a level has a first place of that end.
LEMMA EndExists ==
    ASSUME NEW m \in Nat, NEW W
    PROVE  \E n \in 0..m : Ends(n, m, W)
<1> DEFINE T == {k \in 0..m : \A i \in (k + 1)..m : i \in W}
<1>1. T \in SUBSET Nat /\ m \in T
  OBVIOUS
<1>2. PICK k \in T : \A y \in T : k <= y
  BY <1>1, LeastExists
<1>3. k \in 0..m /\ \A i \in (k + 1)..m : i \in W
  BY <1>2
<1>4. k > 0 => k \notin W
  <2> SUFFICES ASSUME k > 0, k \in W PROVE FALSE
    OBVIOUS
  <2>1. k - 1 \in 0..m /\ \A i \in ((k - 1) + 1)..m : i = k \/ i \in (k + 1)..m
    BY <1>3
  <2>2. k - 1 \in T
    BY <1>3, <2>1
  <2>3. k <= k - 1
    BY <1>2, <2>2
  <2> QED
    BY <1>3, <2>3
<1>5. m - k \in 0..m /\ m - (m - k) = k
  BY <1>3
<1>6. Ends(m - k, m, W)
  BY <1>3, <1>4, <1>5 DEF Ends
<1> QED
  BY <1>5, <1>6

\* The n numbers after a are places of S, each another one.
AllApart(f, a, n, S) ==
    /\ f \in [(a + 1)..(a + n) -> Int]
    /\ \A k \in (a + 1)..(a + n) : f[k] \in S
    /\ \A k, l \in (a + 1)..(a + n) : k < l => f[k] # f[l]

\* Of things that are apart there are as many as there are places for them.
LEMMA AtLeastSoMany ==
    ASSUME NEW n \in Nat, NEW a \in Int, NEW f, NEW S, IsFiniteSet(S), AllApart(f, a, n, S)
    PROVE  Cardinality(S) >= n /\ Cardinality(S) \in Nat
<1>1. /\ IsFiniteSet((a + 1)..(a + n)) /\ Cardinality((a + 1)..(a + n)) = n
  <2>1. n = 0 => (a + 1)..(a + n) = {}
    OBVIOUS
  <2>2. a + 1 > a + n => n = 0
    OBVIOUS
  <2> QED
    BY <2>1, <2>2, FS_Interval, FS_EmptySet, SMTT(30)
<1>2. f \in Injection((a + 1)..(a + n), S)
  BY DEF AllApart, Injection, IsInjective
<1>3. Cardinality((a + 1)..(a + n)) <= Cardinality(S)
  BY <1>1, <1>2, FS_Injection
<1> QED
  BY <1>1, <1>3, FS_CardinalityType

-----------------------------------------------------------------------------
(* HistoryPolicies: what histories are, and how a warning goes down *)

\* What a policy may have observed.
SamplesOf(p) == [age : Int, mark : MarksOf[p], id : TrackIds \cup {"one"}, value : Nat]

\* In h some sample of age a speaks for the level l.
SpeaksFor(h, a, l) ==
    \E i \in DOMAIN h : /\ h[i].age = a /\ a >= 0
                        /\ h[i].mark # "broken" /\ h[i].value >= l

\* Packets follow one another.
InSequence(h) ==
    \A i, j \in DOMAIN h : i < j => h[i].value < h[j].value /\ h[i].age >= h[j].age

HistoryInv ==
    /\ policy \in Policies /\ history \in Seq(SamplesOf(policy))
    /\ level \in Nat /\ raisedAge \in Int
    /\ level > 0 => SpeaksFor(history, raisedAge, level)
    /\ policy = "telemetry" => InSequence(history)

FreshPlaces(h) == {i \in DOMAIN h : FreshSample(h[i])}

\* Enough lower samples at the end of the order of time are no older than a sample that is
\* not lower.
LEMMA LowerAreLater ==
    ASSUME HistoryAssumption, NEW pol, NEW h \in Seq(SamplesOf(pol)), NEW aged \in Int, NEW l \in Nat,
           SpeaksFor(h, aged, l), NEW m \in 0..Len(Sorted(h, FreshPlaces(h))), m >= MinSamples,
           \A k \in (Len(Sorted(h, FreshPlaces(h))) - m + 1)..Len(Sorted(h, FreshPlaces(h))) :
               Sorted(h, FreshPlaces(h))[k].value < l
    PROVE  Cardinality({i \in DOMAIN h : h[i].value < l /\ h[i].age \in 0..aged}) >= MinSamples
<1> DEFINE F == FreshPlaces(h)
           fresh == Sorted(h, F)
           n == Cardinality(F)
           S == {i \in DOMAIN h : h[i].value < l /\ h[i].age \in 0..aged}
<1>1. DOMAIN h = 1..Len(h) /\ Len(h) \in Nat /\ \A i \in DOMAIN h : h[i] \in SamplesOf(pol)
  BY LenProperties, ElementOfSeq
<1>2. \A i \in DOMAIN h : h[i].age \in Int /\ h[i].value \in Nat
  BY <1>1 DEF SamplesOf
<1>3. F \in SUBSET DOMAIN h /\ \A x \in SamplesOf(pol) : x.age \in Int
  BY DEF FreshPlaces, SamplesOf
<1>4. /\ n \in Nat /\ Len(fresh) = n
      /\ \E p : InOrder(p, OlderPairs(h, F), F) /\ \A k \in 1..n : fresh[k] = h[p[k]]
  BY <1>3, SortedIs
<1>5. PICK p : InOrder(p, OlderPairs(h, F), F) /\ \A k \in 1..n : fresh[k] = h[p[k]]
  BY <1>4
<1>6. /\ \A k \in 1..n : p[k] \in F
      /\ \A i \in F : \E k \in 1..n : p[k] = i
      /\ \A k, j \in 1..n : k < j <=> <<p[k], p[j]>> \in OlderPairs(h, F)
  BY <1>5 DEF InOrder, n
<1>7. m \in 0..n /\ \A k \in (n - m + 1)..n : fresh[k].value < l
  BY <1>4
<1>8. PICK i \in DOMAIN h : h[i].age = aged /\ aged >= 0 /\ h[i].mark # "broken" /\ h[i].value >= l
  BY DEF SpeaksFor
<1> HIDE DEF F, fresh, n
<1>9. ASSUME NEW k \in (n - m + 1)..n PROVE p[k] \in S
  <2>1. k \in 1..n /\ k \in Int
    BY <1>4, <1>7
  <2>2. p[k] \in F /\ p[k] \in DOMAIN h /\ fresh[k] = h[p[k]] /\ h[p[k]].value < l
    BY <1>3, <1>5, <1>6, <1>7, <2>1
  <2>3. h[p[k]].age \in 0..PolicyAge
    BY <2>2 DEF F, FreshPlaces, FreshSample
  <2>4. CASE i \in F
    <3>1. PICK j \in 1..n : p[j] = i
      BY <1>6, <2>4
    <3>2. ~(j \in (n - m + 1)..n)
      <4> SUFFICES ASSUME j \in (n - m + 1)..n PROVE FALSE
        OBVIOUS
      <4>1. h[i].value < l
        BY <1>5, <1>7, <3>1
      <4> QED
        BY <1>2, <1>8, <4>1
    <3>3. j < k
      BY <1>4, <1>7, <2>1, <3>2
    <3>4. <<i, p[k]>> \in OlderPairs(h, F)
      BY <1>6, <2>1, <3>1, <3>3
    <3>5. h[p[k]].age <= aged
      BY <1>2, <1>8, <2>2, <3>4 DEF OlderPairs
    <3> QED
      BY <1>2, <2>2, <2>3, <3>5
  <2>5. CASE i \notin F
    <3>1. ~(aged \in 0..PolicyAge)
      BY <1>8, <2>5 DEF F, FreshPlaces, FreshSample
    <3>2. aged > PolicyAge
      BY <1>8, <3>1 DEF HistoryAssumption
    <3> QED
      BY <1>2, <2>2, <2>3, <3>2 DEF HistoryAssumption
  <2> QED
    BY <2>4, <2>5
<1>10. IsFiniteSet(S)
  <2>1. IsFiniteSet(DOMAIN h)
    BY <1>1, FS_Interval
  <2> QED
    BY <2>1, FS_Subset
<1> DEFINE a == n - m
           f == [k \in (a + 1)..(a + m) |-> p[k]]
<1>11. m \in Nat /\ a \in Int /\ a = n - m /\ a + m = n
  BY <1>4, <1>7
<1>12. \A k \in (a + 1)..(a + m) : f[k] = p[k] /\ f[k] \in S /\ f[k] \in Int /\ k \in 1..n /\ k \in Int
  <2> SUFFICES ASSUME NEW k \in (a + 1)..(a + m)
               PROVE  f[k] = p[k] /\ f[k] \in S /\ f[k] \in Int /\ k \in 1..n /\ k \in Int
    OBVIOUS
  <2>1. f[k] = p[k]
    OBVIOUS
  <2>2. k \in (n - m + 1)..n /\ k \in 1..n /\ k \in Int
    BY <1>4, <1>7, <1>11
  <2>3. p[k] \in S /\ p[k] \in Int
    BY <1>1, <1>9, <2>2
  <2> QED
    BY <2>1, <2>2, <2>3
<1>13. \A k, j \in (a + 1)..(a + m) : k < j => f[k] # f[j]
  <2> SUFFICES ASSUME NEW k \in (a + 1)..(a + m), NEW j \in (a + 1)..(a + m), k < j,
                      f[k] = f[j]
               PROVE  FALSE
    OBVIOUS
  <2>1. <<p[k], p[j]>> \in OlderPairs(h, F) /\ p[k] = p[j] /\ k \in 1..n /\ j \in 1..n /\ k \in Int /\ j \in Int
    BY <1>6, <1>12
  <2>2. k < k
    BY <1>6, <2>1
  <2> QED
    BY <2>1, <2>2
<1>14. f \in [(a + 1)..(a + m) -> Int]
  BY <1>12
<1> HIDE DEF f, S, a
<1>15. Cardinality(S) >= m /\ Cardinality(S) \in Nat
  <2>1. AllApart(f, a, m, S)
    BY <1>12, <1>13, <1>14 DEF AllApart
  <2> QED
    BY <1>10, <1>11, <2>1, AtLeastSoMany
<1> QED
  BY <1>7, <1>11, <1>15 DEF S, HistoryAssumption

\* What is judged rises with a fresh sample, and falls with enough lower ones.
LEMMA JudgedIsEarned ==
    ASSUME HistoryAssumption, policy \in Policies, NEW h \in Seq(SamplesOf(policy)),
           NEW aged \in Int, level \in Nat, level > 0 => SpeaksFor(h, aged, level), Judged(h, aged)
    PROVE  /\ history' = h /\ level' \in Nat /\ raisedAge' \in Int
           /\ level' > 0 => SpeaksFor(h, raisedAge', level')
           /\ level' < level =>
                 Cardinality({i \in DOMAIN h : h[i].value < level /\ h[i].age \in 0..raisedAge'}) >= MinSamples
<1> DEFINE F == FreshPlaces(h)
           fresh == Sorted(h, F)
           n == Cardinality(F)
<1>1. DOMAIN h = 1..Len(h) /\ Len(h) \in Nat /\ \A i \in DOMAIN h : h[i] \in SamplesOf(policy)
  BY LenProperties, ElementOfSeq
<1>2. \A i \in DOMAIN h : h[i].age \in Int /\ h[i].value \in Nat
  BY <1>1 DEF SamplesOf
<1>3. F \in SUBSET DOMAIN h /\ \A x \in SamplesOf(policy) : x.age \in Int
  BY DEF FreshPlaces, SamplesOf
<1>4. /\ n \in Nat /\ Len(fresh) = n /\ fresh \in Seq(SamplesOf(policy))
      /\ \E p : InOrder(p, OlderPairs(h, F), F) /\ \A k \in 1..n : fresh[k] = h[p[k]]
  BY <1>3, SortedIs
<1>5. ByTime(h, FreshSample) = fresh
  BY DEF ByTime, Sorted, FreshPlaces
<1>6. history' = h
  BY DEF Judged
<1>7. CASE level' = level
  <2>1. raisedAge' = aged
    BY <1>7 DEF Judged
  <2> QED
    BY <1>6, <1>7, <2>1
<1> DEFINE steady == /\ Latest(fresh).value < level
                     /\ Streak(fresh, LAMBDA s : s.value < level) < MinSamples
<1>8. CASE level' # level
  <2>1. fresh # <<>> /\ ~steady /\ level' = Latest(fresh).value
    BY <1>5, <1>8 DEF Judged, ApplyWarningHysteresis
  <2>2. n \in 1..n /\ n > 0
    <3>1. n # 0
      BY <1>4, <2>1, EmptySeq
    <3> QED
      BY <1>4, <3>1
  <2>3. PICK p : InOrder(p, OlderPairs(h, F), F) /\ \A k \in 1..n : fresh[k] = h[p[k]]
    BY <1>4
  <2>4. p[n] \in F /\ Latest(fresh) = h[p[n]]
    BY <1>4, <2>2, <2>3 DEF InOrder, Latest
  <2>5. p[n] \in DOMAIN h /\ FreshSample(h[p[n]])
    BY <2>4 DEF FreshPlaces
  <2>6. level' = h[p[n]].value /\ level' \in Nat
    BY <1>2, <2>1, <2>4, <2>5
  <2>7. CASE level' > level
    <3>1. raisedAge' = h[p[n]].age
      BY <1>5, <2>4, <2>7 DEF Judged
    <3>2. raisedAge' \in Int /\ raisedAge' >= 0 /\ h[p[n]].mark # "broken"
      BY <1>2, <2>5, <3>1 DEF FreshSample, HistoryAssumption
    <3>3. SpeaksFor(h, raisedAge', level')
      BY <2>5, <2>6, <3>1, <3>2 DEF SpeaksFor
    <3> QED
      BY <1>6, <2>6, <2>7, <3>2, <3>3
  <2>8. CASE level' < level
    <3>1. raisedAge' = aged
      BY <2>6, <2>8 DEF Judged
    <3>2. level > 0 /\ SpeaksFor(h, aged, level)
      BY <2>6, <2>8
    <3>3. SpeaksFor(h, aged, level')
      <4>1. PICK i \in DOMAIN h : h[i].age = aged /\ aged >= 0 /\ h[i].mark # "broken" /\ h[i].value >= level
        BY <3>2 DEF SpeaksFor
      <4>2. h[i].value >= level'
        BY <1>2, <2>6, <2>8, <4>1
      <4> QED
        BY <4>1, <4>2 DEF SpeaksFor
    <3> DEFINE m == Streak(fresh, LAMBDA s : s.value < level)
               W == {k \in 1..n : fresh[k].value < level}
    <3>4. \E x \in 0..Len(fresh) : /\ \A k \in (Len(fresh) - x + 1)..Len(fresh) : fresh[k].value < level
                                   /\ x < Len(fresh) => ~(fresh[Len(fresh) - x].value < level)
      <4>1. PICK x \in 0..n : Ends(x, n, W)
        BY <1>4, EndExists
      <4>2. \A k \in (n - x + 1)..n : fresh[k].value < level
        BY <4>1 DEF Ends
      <4>3. x < n => n - x \in 1..n /\ n - x \notin W
        BY <1>4, <4>1 DEF Ends
      <4>4. x < n => ~(fresh[n - x].value < level)
        BY <4>3
      <4> HIDE DEF W, n, fresh
      <4> QED
        BY <1>4, <4>2, <4>4
    <3>5. m \in 0..Len(fresh) /\ \A k \in (Len(fresh) - m + 1)..Len(fresh) : fresh[k].value < level
      BY <3>4 DEF Streak
    <3>6. m >= MinSamples
      <4>1. ~(m < MinSamples)
        BY <2>1, <2>4, <2>6, <2>8
      <4>2. m \in Int
        BY <1>4, <3>5
      <4> QED
        BY <4>1, <4>2 DEF HistoryAssumption
    <3>7. Cardinality({i \in DOMAIN h : h[i].value < level /\ h[i].age \in 0..aged}) >= MinSamples
      <4> HIDE DEF m
      <4> QED
        BY <3>2, <3>5, <3>6, LowerAreLater
    <3> QED
      BY <1>6, <2>6, <3>1, <3>3, <3>7
  <2> QED
    BY <1>8, <2>6, <2>7, <2>8
<1> QED
  BY <1>7, <1>8

\* A history begins empty.
LEMMA HistoryInvInit ==
    ASSUME HistoryAssumption, HistoryInit
    PROVE  HistoryInv
<1>1. <<>> \in Seq(SamplesOf(policy))
  OBVIOUS
<1> QED
  BY <1>1 DEF HistoryInit, HistoryInv, InSequence

\* A sample is of the kind its policy reads.
LEMMA ObservableIsObserved ==
    ASSUME HistoryAssumption, policy \in Policies, NEW s \in Observable
    PROVE  s \in SamplesOf(policy)
<1>1. s \in [age : IF policy = "soak" THEN {0} ELSE Lateness, mark : MarksOf[policy],
             id : IF policy = "track" THEN TrackIds ELSE {"one"},
             value : IF policy \in Measured THEN Measures
                     ELSE IF policy = "warning" THEN Levels ELSE {0}]
  BY DEF Observable
<1>2. /\ s.age \in {0} \/ s.age \in Lateness
      /\ s.value \in Measures \/ s.value \in Levels \/ s.value \in {0}
  <2>1. s.age \in IF policy = "soak" THEN {0} ELSE Lateness
    BY <1>1
  <2>2. s.value \in IF policy \in Measured THEN Measures
                    ELSE IF policy = "warning" THEN Levels ELSE {0}
    BY <1>1
  <2> QED
    BY <2>1, <2>2
<1>3. s.age \in Int /\ s.value \in Nat
  <2>1. /\ \A x \in Lateness : x \in Int
        /\ \A x \in Measures : x \in Nat
    BY DEF HistoryAssumption
  <2>2. /\ \A x \in {0} : x \in Nat /\ x \in Int
        /\ \A x \in Levels : x \in Nat
    BY DEF Levels
  <2>4. s.age \in Int
    BY <1>2, <2>1, <2>2, Zenon
  <2>5. s.value \in Nat
    BY <1>2, <2>1, <2>2, Zenon
  <2> QED
    BY <2>4, <2>5
<1> QED
  BY <1>1, <1>3 DEF SamplesOf

\* A packet that is accepted continues the sequence: the last one is in the window.
LEMMA AcceptedInSequence ==
    ASSUME HistoryAssumption, NEW p, NEW h \in Seq(SamplesOf(p)), InSequence(h),
           NEW s \in SamplesOf(p), AcceptsTelemetry(s, h)
    PROVE  InSequence(Append(h, s))
<1> DEFINE n == Len(h)  g == Append(h, s)
<1>1. n \in Nat /\ DOMAIN h = 1..n /\ \A i \in 1..n : h[i] \in SamplesOf(p)
  BY LenProperties, ElementOfSeq
<1>2. /\ DOMAIN g = 1..(n + 1) /\ g[n + 1] = s /\ \A i \in 1..n : g[i] = h[i]
  BY <1>1, AppendProperties
<1> HIDE DEF g, n
<1>3. \A i \in 1..n : h[i].age \in Int /\ h[i].value \in Nat
  BY <1>1 DEF SamplesOf
<1>4. s.age \in Int /\ s.value \in Nat
  BY DEF SamplesOf
<1>5. ASSUME n # 0 PROVE n \in Window(h)
  <2>1. n \in 1..n /\ ~(\E j \in 1..n : h[j].value > h[n].value)
    <3> SUFFICES ASSUME NEW j \in 1..n, h[j].value > h[n].value PROVE FALSE
      BY <1>1, <1>5
    <3>0. n \in 1..n /\ (j = n \/ j < n)
      BY <1>1, <1>5
    <3>1. j = n \/ h[j].value < h[n].value
      BY <1>1, <3>0 DEF InSequence
    <3> QED
      BY <1>1, <1>3, <1>5, <3>1
  <2>2. {j \in DOMAIN h : h[j].value > h[n].value} = {}
    BY <1>1, <2>1
  <2>3. Cardinality({j \in DOMAIN h : h[j].value > h[n].value}) = 0
    BY <2>2, FS_EmptySet
  <2> QED
    BY <1>1, <2>1, <2>3 DEF Window, HistoryAssumption
<1>6. ASSUME NEW i \in 1..n PROVE h[i].value < s.value /\ h[i].age >= s.age
  <2>1. n \in Window(h) /\ n \in 1..n
    BY <1>1, <1>5
  <2>2. s.value > h[n].value /\ s.age <= h[n].age
    BY <2>1 DEF AcceptsTelemetry
  <2>5. i = n \/ i < n
    BY <1>1
  <2>3. i = n \/ (h[i].value < h[n].value /\ h[i].age >= h[n].age)
    BY <1>1, <2>1, <2>5 DEF InSequence
  <2>4. h[i].value \in Nat /\ h[n].value \in Nat /\ h[i].age \in Int /\ h[n].age \in Int
    BY <1>3, <2>1
  <2> QED
    BY <1>4, <2>2, <2>3, <2>4, SMTT(30)
<1>7. ASSUME NEW i \in 1..(n + 1), NEW j \in 1..(n + 1), i < j
      PROVE  g[i].value < g[j].value /\ g[i].age >= g[j].age
  <2>1. i \in 1..n /\ (j \in 1..n \/ j = n + 1)
    BY <1>1, <1>7
  <2>2. CASE j = n + 1
    BY <1>2, <1>6, <2>1, <2>2
  <2>3. CASE j \in 1..n
    BY <1>1, <1>2, <1>7, <2>1, <2>3 DEF InSequence
  <2> QED
    BY <2>1, <2>2, <2>3
<1> QED
  BY <1>2, <1>7 DEF InSequence, g

\* Only its age is another one.
LEMMA AgedSample ==
    ASSUME NEW M, NEW J, NEW r \in [age : Int, mark : M, id : J, value : Nat], NEW x \in Int
    PROVE  /\ [r EXCEPT !.age = x] \in [age : Int, mark : M, id : J, value : Nat]
           /\ [r EXCEPT !.age = x].age = x
           /\ [r EXCEPT !.age = x].value = r.value /\ [r EXCEPT !.age = x].mark = r.mark
OBVIOUS

\* GrownOlder everything is older.
GrownOlder(h) == [i \in DOMAIN h |-> [h[i] EXCEPT !.age = @ + 1]]

\* A history one tick later: the same samples, each of them older.
LEMMA LaterIs ==
    ASSUME NEW p, NEW h \in Seq(SamplesOf(p))
    PROVE  /\ GrownOlder(h) \in Seq(SamplesOf(p)) /\ DOMAIN GrownOlder(h) = DOMAIN h
           /\ \A i \in DOMAIN h : /\ h[i].age \in Int /\ h[i].value \in Nat
                                  /\ GrownOlder(h)[i].age = h[i].age + 1
                                  /\ GrownOlder(h)[i].value = h[i].value
                                  /\ GrownOlder(h)[i].mark = h[i].mark
<1>1. DOMAIN h = 1..Len(h) /\ Len(h) \in Nat /\ \A i \in DOMAIN h : h[i] \in SamplesOf(p)
  BY LenProperties, ElementOfSeq
<1>2. ASSUME NEW i \in DOMAIN h
      PROVE  /\ h[i].age \in Int /\ h[i].value \in Nat /\ GrownOlder(h)[i] \in SamplesOf(p)
             /\ GrownOlder(h)[i].age = h[i].age + 1 /\ GrownOlder(h)[i].value = h[i].value
             /\ GrownOlder(h)[i].mark = h[i].mark
  <2>1. h[i] \in SamplesOf(p)
    BY <1>1
  <2>2. GrownOlder(h)[i] = [h[i] EXCEPT !.age = h[i].age + 1]
    BY DEF GrownOlder
  <2> DEFINE M == MarksOf[p]
             J == TrackIds \cup {"one"}
  <2>3. h[i] \in [age : Int, mark : M, id : J, value : Nat]
    BY <2>1 DEF SamplesOf
  <2>4. h[i].age \in Int /\ h[i].value \in Nat /\ h[i].age + 1 \in Int
    BY <2>3
  <2> DEFINE r == [h[i] EXCEPT !.age = h[i].age + 1]
  <2> HIDE DEF M, J
  <2>5. /\ r \in [age : Int, mark : M, id : J, value : Nat]
        /\ r.age = h[i].age + 1 /\ r.value = h[i].value /\ r.mark = h[i].mark
    BY <2>3, <2>4, AgedSample
  <2> HIDE DEF r
  <2>6. r \in SamplesOf(p)
    BY <2>5 DEF SamplesOf, M, J
  <2>7. GrownOlder(h)[i] = r
    BY <2>2 DEF r
  <2> QED
    BY <2>4, <2>5, <2>6, <2>7
<1>3. GrownOlder(h) \in [1..Len(h) -> SamplesOf(p)]
  BY <1>1, <1>2 DEF GrownOlder
<1>4. GrownOlder(h) \in Seq(SamplesOf(p))
  BY <1>1, <1>3, SeqDef
<1> QED
  BY <1>2, <1>4 DEF GrownOlder

\* A history stays one, and a warning goes down as ReleasesAreEarned says.
LEMMA HistoryInvStep ==
    ASSUME HistoryAssumption, HistoryInv, HistoryNext
    PROVE  /\ HistoryInv'
           /\ level' < level /\ history' # <<>> =>
                 Cardinality({i \in DOMAIN history' :
                     history'[i].value < level /\ history'[i].age \in 0..raisedAge'}) >= MinSamples
<1>0. /\ policy \in Policies /\ history \in Seq(SamplesOf(policy))
      /\ level \in Nat /\ raisedAge \in Int
      /\ level > 0 => SpeaksFor(history, raisedAge, level)
      /\ policy = "telemetry" => InSequence(history)
  BY DEF HistoryInv
<1>1. DOMAIN history = 1..Len(history) /\ Len(history) \in Nat
  BY <1>0, LenProperties
<1>2. ASSUME NEW h \in Seq(SamplesOf(policy)), NEW aged \in Int, Judged(h, aged), UNCHANGED policy,
             level > 0 => SpeaksFor(h, aged, level), policy = "telemetry" => InSequence(h)
      PROVE  /\ HistoryInv'
             /\ level' < level /\ history' # <<>> =>
                   Cardinality({i \in DOMAIN history' :
                       history'[i].value < level /\ history'[i].age \in 0..raisedAge'}) >= MinSamples
  <2>1. /\ history' = h /\ level' \in Nat /\ raisedAge' \in Int
        /\ level' > 0 => SpeaksFor(h, raisedAge', level')
        /\ level' < level =>
              Cardinality({i \in DOMAIN h : h[i].value < level /\ h[i].age \in 0..raisedAge'}) >= MinSamples
    BY <1>0, <1>2, JudgedIsEarned
  <2>2. /\ policy' = policy /\ policy' \in Policies /\ history' \in Seq(SamplesOf(policy'))
        /\ level' > 0 => SpeaksFor(history', raisedAge', level')
        /\ policy' = "telemetry" => InSequence(history')
    BY <1>0, <1>2, <2>1
  <2>3. HistoryInv'
    BY <2>1, <2>2 DEF HistoryInv
  <2> QED
    BY <2>1, <2>3
<1>3. ASSUME NEW s \in Observable, Sampled(s)
      PROVE  /\ HistoryInv'
             /\ level' < level /\ history' # <<>> =>
                   Cardinality({i \in DOMAIN history' :
                       history'[i].value < level /\ history'[i].age \in 0..raisedAge'}) >= MinSamples
  <2>1. s \in SamplesOf(policy)
    BY <1>0, ObservableIsObserved
  <2>2. CASE policy = "telemetry" /\ ~AcceptsTelemetry(s, history)
    <3>1. Judged(history, raisedAge) /\ UNCHANGED policy
      BY <1>3, <2>2 DEF Sampled
    <3> QED
      BY <1>0, <1>2, <3>1
  <2>3. CASE ~(policy = "telemetry" /\ ~AcceptsTelemetry(s, history))
    <3> DEFINE g == Append(history, s)
    <3>1. Judged(g, raisedAge) /\ UNCHANGED policy
      BY <1>3, <2>3 DEF Sampled
    <3>2. g \in Seq(SamplesOf(policy)) /\ DOMAIN history \subseteq DOMAIN g
          /\ \A i \in DOMAIN history : g[i] = history[i]
      BY <1>0, <1>1, <2>1, AppendProperties
    <3>3. level > 0 => SpeaksFor(g, raisedAge, level)
      <4> HIDE DEF g
      <4> QED
        BY <1>0, <3>2 DEF SpeaksFor
    <3>4. policy = "telemetry" => InSequence(g)
      BY <1>0, <2>1, <2>3, AcceptedInSequence
    <3> HIDE DEF g
    <3> QED
      BY <1>0, <1>2, <3>1, <3>2, <3>3, <3>4
  <2> QED
    BY <2>2, <2>3
<1>4. CASE HistoryTick
  <2> DEFINE g == GrownOlder(history)
  <2>1. Judged(g, raisedAge + 1) /\ UNCHANGED policy
    BY <1>4 DEF HistoryTick, GrownOlder
  <2>2. /\ g \in Seq(SamplesOf(policy)) /\ DOMAIN g = DOMAIN history
        /\ \A i \in DOMAIN history : /\ history[i].age \in Int /\ history[i].value \in Nat
                                     /\ g[i].age = history[i].age + 1
                                     /\ g[i].value = history[i].value
                                     /\ g[i].mark = history[i].mark
    BY <1>0, LaterIs
  <2> HIDE DEF g
  <2>3. level > 0 => SpeaksFor(g, raisedAge + 1, level)
    <3> SUFFICES ASSUME level > 0 PROVE SpeaksFor(g, raisedAge + 1, level)
      OBVIOUS
    <3>1. PICK i \in DOMAIN history : /\ history[i].age = raisedAge /\ raisedAge >= 0
                                      /\ history[i].mark # "broken" /\ history[i].value >= level
      BY <1>0 DEF SpeaksFor
    <3>2. /\ g[i].age = raisedAge + 1 /\ raisedAge + 1 >= 0
          /\ g[i].mark # "broken" /\ g[i].value >= level
      BY <1>0, <2>2, <3>1
    <3> QED
      BY <2>2, <3>2 DEF SpeaksFor
  <2>4. policy = "telemetry" => InSequence(g)
    <3> SUFFICES ASSUME policy = "telemetry", NEW i \in DOMAIN g, NEW j \in DOMAIN g, i < j
                 PROVE  g[i].value < g[j].value /\ g[i].age >= g[j].age
      BY DEF InSequence
    <3>1. history[i].value < history[j].value /\ history[i].age >= history[j].age
      BY <1>0, <2>2 DEF InSequence
    <3> QED
      BY <2>2, <3>1
  <2>5. raisedAge + 1 \in Int
    BY <1>0
  <2> QED
    BY <1>2, <2>1, <2>2, <2>3, <2>4, <2>5
<1>5. CASE Forget
  <2>1. history' = <<>> /\ level' = 0 /\ raisedAge' = 0 /\ policy' = policy
    BY <1>5 DEF Forget
  <2>2. <<>> \in Seq(SamplesOf(policy))
    OBVIOUS
  <2> QED
    BY <1>0, <2>1, <2>2 DEF HistoryInv, InSequence
<1> QED
  BY <1>3, <1>4, <1>5 DEF HistoryNext

-----------------------------------------------------------------------------
(* HistoryPolicies: what the judges make of a history *)

\* A history in the order of its stamps is what it is when ordered by them.
LEMMA OrderedStays ==
    ASSUME NEW X, NEW h \in Seq(X), \A x \in X : x.age \in Int, Monotonic(h)
    PROVE  Sorted(h, DOMAIN h) = h
<1> DEFINE n == Len(h)
           a == [i \in 1..n |-> h[i].age]
<1>1. DOMAIN h = 1..n /\ n \in Nat /\ \A i \in DOMAIN h : h[i] \in X
  BY LenProperties, ElementOfSeq
<1>2. a \in [1..n -> Int] /\ \A i \in 1..n : a[i] = h[i].age
  BY <1>1
<1>3. \A i \in 2..n : a[i] < a[i - 1]
  BY <1>1 DEF Monotonic
<1>4. \A i, j \in 1..n : i < j => a[j] < a[i]
  <2> HIDE DEF a, n
  <2> QED
    BY <1>1, <1>2, <1>3, DownAllTheWay
<1>5. \A i, j \in 1..n : <<i, j>> \in OlderPairs(h, 1..n) <=> i < j
  <2> SUFFICES ASSUME NEW i \in 1..n, NEW j \in 1..n PROVE <<i, j>> \in OlderPairs(h, 1..n) <=> i < j
    OBVIOUS
  <2>1. a[i] \in Int /\ a[j] \in Int /\ a[i] = h[i].age /\ a[j] = h[j].age
    BY <1>2
  <2>2. <<i, j>> \in OlderPairs(h, 1..n) <=> a[i] > a[j] \/ (a[i] = a[j] /\ i < j)
    BY <2>1 DEF OlderPairs
  <2>3. /\ i < j => a[j] < a[i]
        /\ j < i => a[i] < a[j]
        /\ i < j \/ j < i \/ i = j
    BY <1>4
  <2> HIDE DEF a
  <2> QED
    BY <2>1, <2>2, <2>3
<1>6. Cardinality(1..n) = n
  <2>1. n = 0 => 1..n = {}
    OBVIOUS
  <2> QED
    BY <1>1, <2>1, FS_Interval, FS_EmptySet
<1>7. /\ Sorted(h, 1..n) \in Seq(X) /\ Len(Sorted(h, 1..n)) = n
      /\ \E p : InOrder(p, OlderPairs(h, 1..n), 1..n) /\ \A k \in 1..n : Sorted(h, 1..n)[k] = h[p[k]]
  BY <1>1, <1>6, SortedIs
<1>8. PICK p : InOrder(p, OlderPairs(h, 1..n), 1..n) /\ \A k \in 1..n : Sorted(h, 1..n)[k] = h[p[k]]
  BY <1>7
<1> HIDE DEF n
<1>9. Upwards(p, n, 1..n)
  <2>1. /\ p \in [1..n -> 1..n]
        /\ \A i \in 1..n : \E k \in 1..n : p[k] = i
        /\ \A k, l \in 1..n : k < l <=> <<p[k], p[l]>> \in OlderPairs(h, 1..n)
    BY <1>6, <1>8 DEF InOrder
  <2>2. \A k, l \in 1..n : k < l <=> p[k] < p[l]
    BY <1>5, <2>1
  <2> QED
    BY <2>1, <2>2 DEF Upwards
<1>10. \A k \in 1..n : p[k] = k
  BY <1>1, <1>9, AllInOrder
<1>11. \A k \in 1..n : Sorted(h, 1..n)[k] = h[k]
  BY <1>8, <1>10
<1>12. Len(h) = n
  BY DEF n
<1>13. Sorted(h, 1..n) = h
  BY <1>7, <1>11, <1>12, SeqEqual
<1> QED
  BY <1>1, <1>13

\* Some fault is the first one.
LEMMA FirstOfThem ==
    ASSUME NEW n \in Nat, NEW T \in SUBSET (1..n), T # {}
    PROVE  (CHOOSE i \in T : \A j \in T : i <= j) \in T
<1>1. T \in SUBSET Nat
  OBVIOUS
<1>2. \E i \in T : \A j \in T : i <= j
  BY <1>1, LeastExists
<1> QED
  BY <1>2

\* A track is reliable when no sample is at fault and it is recent, long and sure enough.
LEMMA ReliableIs ==
    ASSUME NEW X, NEW h \in Seq(X)
    PROVE  AssessRadarTrackContinuity(h) = "reliable" <=>
              /\ h # <<>> /\ \A i \in DOMAIN h : ContinuityFault(h, i) = "none"
              /\ ~(Latest(h).age > PolicyAge)
              /\ ~(Len(h) < 2) /\ ~\E i \in DOMAIN h : h[i].mark = "weak"
<1> DEFINE T == {i \in DOMAIN h : ContinuityFault(h, i) # "none"}
           c == CHOOSE i \in T : \A j \in T : i <= j
           fault == FirstFault(h, ContinuityFault)
<1>1. DOMAIN h = 1..Len(h) /\ Len(h) \in Nat
  BY LenProperties
<1>2. fault = IF T = {} THEN "none" ELSE ContinuityFault(h, c)
  BY DEF FirstFault
<1>3. T # {} => fault # "none" /\ fault # "reliable"
  <2> SUFFICES ASSUME T # {} PROVE fault # "none" /\ fault # "reliable"
    OBVIOUS
  <2>1. c \in T
    BY <1>1, FirstOfThem
  <2>2. ContinuityFault(h, c) # "none" /\ ContinuityFault(h, c) # "reliable"
    BY <2>1 DEF ContinuityFault
  <2> QED
    BY <1>2, <2>2
<1>4. T = {} <=> \A i \in DOMAIN h : ContinuityFault(h, i) = "none"
  OBVIOUS
<1>5. T = {} => fault = "none"
  BY <1>2
<1>6. AssessRadarTrackContinuity(h) =
         IF h = <<>> THEN "rejected"
         ELSE IF fault # "none" THEN fault
         ELSE IF Latest(h).age > PolicyAge THEN "rejected"
         ELSE IF Len(h) < 2 \/ \E i \in DOMAIN h : h[i].mark = "weak" THEN "degraded"
         ELSE "reliable"
  BY DEF AssessRadarTrackContinuity
<1> HIDE DEF T, fault
<1> QED
  BY <1>3, <1>4, <1>5, <1>6

\* TrackJudgesAgree, whatever the history.
LEMMA TrackJudgesAgreeHolds ==
    ASSUME HistoryAssumption, HistoryInv
    PROVE  TrackJudgesAgree
<1> DEFINE h == history
           X == SamplesOf(policy)
           V == {i \in DOMAIN h : Valid(h[i])}
           valid == ByTime(h, Valid)
           fresh == ByTime(h, FreshSample)
<1>1. h \in Seq(X) /\ \A x \in X : x.age \in Int
  BY DEF HistoryInv, SamplesOf
<1>2. DOMAIN h = 1..Len(h) /\ Len(h) \in Nat /\ \A i \in DOMAIN h : h[i] \in X /\ h[i].age \in Int
  BY <1>1, LenProperties, ElementOfSeq
<1>3. valid = Sorted(h, V) /\ fresh = Sorted(h, FreshPlaces(h))
  BY DEF ByTime, Sorted, FreshPlaces
<1>4. AssessTrackIdentityLifecycle(h) = "stable" <=>
         /\ valid # <<>> /\ Monotonic(valid)
         /\ ~(Latest(valid).age > PolicyAge) /\ ~(Len(valid) < MinSamples)
         /\ \A i \in DOMAIN valid : valid[i].id = Latest(valid).id /\ valid[i].mark # "weak"
         /\ \A i \in 2..Len(valid) : ~(valid[i - 1].age - valid[i].age > PolicyAge)
  BY DEF AssessTrackIdentityLifecycle
<1>5. ASSUME Monotonic(h), \A i \in DOMAIN h : Valid(h[i])
      PROVE  AssessRadarTrackContinuity(h) = "reliable" <=> AssessTrackIdentityLifecycle(h) = "stable"
  <2>1. V = DOMAIN h
    BY <1>5
  <2>2. valid = h
    BY <1>1, <1>3, <1>5, <2>1, OrderedStays
  <2> HIDE DEF valid, h, V
  <2>3. MinSamples = 2
    BY DEF HistoryAssumption
  <2>4. ASSUME h # <<>>
        PROVE  (\A i \in DOMAIN h : ContinuityFault(h, i) = "none") <=>
                  /\ \A i \in DOMAIN h : h[i].id = Latest(h).id
                  /\ \A i \in 2..Len(h) : ~(h[i - 1].age - h[i].age > PolicyAge)
    <3>1. Len(h) > 0 /\ 1 \in DOMAIN h /\ Len(h) \in DOMAIN h
      BY <1>1, <1>2, <2>4, EmptySeq
    <3>2. ASSUME NEW i \in DOMAIN h
          PROVE  ContinuityFault(h, i) = "none" <=>
                    /\ h[i].id = h[1].id
                    /\ i > 1 => ~(h[i - 1].age - h[i].age > PolicyAge)
      <4>1. Valid(h[i])
        BY <1>5
      <4>2. i > 1 => ~(h[i].age >= h[i - 1].age)
        <5>1. i > 1 => i \in 2..Len(h) /\ i - 1 \in DOMAIN h
          BY <1>2
        <5>2. i > 1 => h[i].age < h[i - 1].age
          BY <1>5, <5>1 DEF Monotonic
        <5> QED
          BY <1>2, <5>1, <5>2
      <4> QED
        BY <4>1, <4>2 DEF ContinuityFault
    <3>3. \A i \in 2..Len(h) : i \in DOMAIN h /\ i > 1
      BY <1>2
    <3>4. \A i \in DOMAIN h : i > 1 => i \in 2..Len(h)
      BY <1>2
    <3>5. (\A i \in DOMAIN h : h[i].id = h[1].id) <=> (\A i \in DOMAIN h : h[i].id = Latest(h).id)
      BY <3>1, Zenon DEF Latest
    <3> QED
      BY <3>2, <3>3, <3>4, <3>5
  <2>5. AssessTrackIdentityLifecycle(h) = "stable" <=>
           /\ h # <<>> /\ ~(Latest(h).age > PolicyAge) /\ ~(Len(h) < 2)
           /\ \A i \in DOMAIN h : h[i].id = Latest(h).id
           /\ \A i \in DOMAIN h : h[i].mark # "weak"
           /\ \A i \in 2..Len(h) : ~(h[i - 1].age - h[i].age > PolicyAge)
    BY <1>4, <1>5, <2>2, <2>3
  <2>6. AssessRadarTrackContinuity(h) = "reliable" <=>
           /\ h # <<>> /\ \A i \in DOMAIN h : ContinuityFault(h, i) = "none"
           /\ ~(Latest(h).age > PolicyAge)
           /\ ~(Len(h) < 2) /\ ~\E i \in DOMAIN h : h[i].mark = "weak"
    BY <1>1, ReliableIs
  <2> QED
    BY <2>4, <2>5, <2>6
<1>6. ASSUME \A i \in DOMAIN h : FreshSample(h[i])
      PROVE  AssessRadarGhostPersistence(h) = "persistent" <=>
                /\ AssessTrackIdentityLifecycle(h) = "stable"
                /\ ~Jumps(fresh)
  <2>1. V = DOMAIN h /\ FreshPlaces(h) = DOMAIN h
    <3>1. \A i \in DOMAIN h : Valid(h[i])
      BY <1>2, <1>6 DEF FreshSample, Valid, HistoryAssumption
    <3> QED
      BY <1>6, <3>1 DEF FreshPlaces
  <2>2. valid = fresh
    BY <1>3, <2>1
  <2> DEFINE n == Cardinality(DOMAIN h)
  <2>3. /\ n \in Nat /\ fresh \in Seq(X) /\ Len(fresh) = n
        /\ \E p : InOrder(p, OlderPairs(h, DOMAIN h), DOMAIN h) /\ \A k \in 1..n : fresh[k] = h[p[k]]
    BY <1>1, <1>3, <2>1, SortedIs
  <2>4. DOMAIN fresh = 1..n
    BY <2>3, LenProperties
  <2>5. \A k \in 1..n : FreshSample(fresh[k]) /\ fresh[k].age \in Int
    <3>1. PICK p : InOrder(p, OlderPairs(h, DOMAIN h), DOMAIN h) /\ \A k \in 1..n : fresh[k] = h[p[k]]
      BY <2>3
    <3>2. \A k \in 1..n : p[k] \in DOMAIN h
      BY <3>1 DEF InOrder, n
    <3> HIDE DEF fresh, n, h
    <3> QED
      BY <1>2, <1>6, <3>1, <3>2
  <2> HIDE DEF n
  <2>6. fresh # <<>> => n \in 1..n
    <3>1. fresh # <<>> => n # 0
      BY <2>3, EmptySeq
    <3> QED
      BY <2>3, <3>1
  <2>7. fresh # <<>> => ~(Latest(fresh).age > PolicyAge)
    <3> SUFFICES ASSUME fresh # <<>> PROVE ~(Latest(fresh).age > PolicyAge)
      OBVIOUS
    <3>1. FreshSample(Latest(fresh)) /\ Latest(fresh).age \in Int
      BY <2>3, <2>5, <2>6 DEF Latest
    <3> QED
      BY <3>1 DEF FreshSample, HistoryAssumption
  <2>8. \A i \in 2..n : ~(fresh[i - 1].age - fresh[i].age > PolicyAge)
    <3> SUFFICES ASSUME NEW i \in 2..n PROVE ~(fresh[i - 1].age - fresh[i].age > PolicyAge)
      OBVIOUS
    <3>1. i \in 1..n /\ i - 1 \in 1..n
      BY <2>3
    <3>2. fresh[i].age \in 0..PolicyAge /\ fresh[i - 1].age \in 0..PolicyAge
      BY <2>5, <3>1 DEF FreshSample
    <3> QED
      BY <3>2 DEF HistoryAssumption
  <2>9. AssessRadarGhostPersistence(h) = "persistent" <=>
           /\ fresh # <<>> /\ ~\E i \in DOMAIN fresh : fresh[i].id # Latest(fresh).id
           /\ ~\E i \in DOMAIN fresh : fresh[i].mark = "weak"
           /\ Monotonic(fresh) /\ ~Jumps(fresh) /\ ~(Len(fresh) < MinSamples)
    BY DEF AssessRadarGhostPersistence
  <2> HIDE DEF valid, fresh, h
  <2> QED
    BY <1>4, <2>2, <2>3, <2>4, <2>7, <2>8, <2>9
<1> QED
  BY <1>5, <1>6 DEF TrackJudgesAgree

\* A sensor is healthy when its history is in order and recent, and ends with enough samples
\* that are well.
LEMMA HealthySpeaks ==
    ASSUME HistoryAssumption, NEW X, NEW h \in Seq(X), \A x \in X : x.age \in Int,
           DeriveSensorHealth(h) = "healthy"
    PROVE  /\ {i \in DOMAIN h : \A j \in DOMAIN h : h[i].age <= h[j].age} = {Len(h)}
           /\ \A i \in (Len(h) - MinSamples + 1)..Len(h) : h[i].mark = "well"
<1> DEFINE n == Len(h)
           a == [i \in 1..n |-> h[i].age]
           W == {i \in 1..n : h[i].mark = "well"}
           m == Streak(h, LAMBDA s : s.mark = "well")
<1>1. DOMAIN h = 1..n /\ n \in Nat /\ \A i \in DOMAIN h : h[i] \in X
  BY LenProperties, ElementOfSeq
<1>2. h # <<>> /\ Monotonic(h) /\ ~(m < MinSamples)
  BY DEF DeriveSensorHealth
<1>3. a \in [1..n -> Int] /\ \A i \in 1..n : a[i] = h[i].age
  BY <1>1
<1>4. \A i \in 2..n : a[i] < a[i - 1]
  BY <1>1, <1>2 DEF Monotonic
<1> HIDE DEF a
<1>5. \A i, j \in 1..n : i < j => a[j] < a[i]
  <2> HIDE DEF n
  <2> QED
    BY <1>1, <1>3, <1>4, DownAllTheWay
<1>6. n \in 1..n
  BY <1>1, <1>2, EmptySeq
<1>7. \A i \in 1..n : (\A j \in 1..n : a[i] <= a[j]) <=> i = n
  <2> SUFFICES ASSUME NEW i \in 1..n PROVE (\A j \in 1..n : a[i] <= a[j]) <=> i = n
    OBVIOUS
  <2> HIDE DEF n
  <2>1. ASSUME i # n PROVE ~(\A j \in 1..n : a[i] <= a[j])
    <3>1. i < n /\ a[n] < a[i] /\ a[n] \in Int /\ a[i] \in Int
      BY <1>1, <1>3, <1>5, <1>6, <2>1
    <3>2. ~(a[i] <= a[n])
      BY <3>1
    <3> QED
      BY <1>6, <3>2
  <2>2. ASSUME NEW j \in 1..n PROVE a[n] <= a[j]
    <3>1. j = n \/ j < n
      BY <1>1
    <3>2. a[n] \in Int /\ a[j] \in Int
      BY <1>3, <1>6
    <3>3. a[n] = a[j] \/ a[n] < a[j]
      BY <1>5, <1>6, <3>1
    <3> QED
      BY <3>2, <3>3
  <2> QED
    BY <2>1, <2>2
<1>8. {i \in DOMAIN h : \A j \in DOMAIN h : h[i].age <= h[j].age} = {n}
  BY <1>1, <1>3, <1>6, <1>7
<1>9. \E x \in 0..Len(h) : /\ \A i \in (Len(h) - x + 1)..Len(h) : h[i].mark = "well"
                           /\ x < Len(h) => ~(h[Len(h) - x].mark = "well")
  <2>1. PICK x \in 0..n : Ends(x, n, W)
    BY <1>1, EndExists
  <2>2. \A i \in (n - x + 1)..n : h[i].mark = "well"
    BY <2>1 DEF Ends
  <2>3. x < n => n - x \in 1..n /\ n - x \notin W
    BY <1>1, <2>1 DEF Ends
  <2>4. x < n => ~(h[n - x].mark = "well")
    BY <2>3
  <2> HIDE DEF W
  <2> QED
    BY <2>2, <2>4
<1>10. m \in 0..n /\ \A i \in (n - m + 1)..n : h[i].mark = "well"
  BY <1>9 DEF Streak
<1> HIDE DEF m
<1>11. \A i \in (n - MinSamples + 1)..n : i \in (n - m + 1)..n
  BY <1>1, <1>2, <1>10 DEF HistoryAssumption
<1> QED
  BY <1>8, <1>10, <1>11

\* A distance is trusted when no sample of it is at fault: the newest is measured, and far.
LEMMA TrustedSpeaks ==
    ASSUME HistoryAssumption, NEW X, NEW h \in Seq(X), \A x \in X : x.age \in Int /\ x.value \in Nat,
           AssessOdometry(h) = "trusted"
    PROVE  \A i \in {k \in DOMAIN h : \A j \in DOMAIN h : h[k].age <= h[j].age}, j \in DOMAIN h :
               h[i].mark = "measured" /\ h[i].value >= h[j].value
<1> DEFINE n == Len(h)
           a == [i \in 1..n |-> h[i].age]
           v == [i \in 1..n |-> h[i].value]
           T == {i \in DOMAIN h : OdometryFault(h, i) # "none"}
           c == CHOOSE i \in T : \A j \in T : i <= j
           fault == FirstFault(h, OdometryFault)
<1>1. DOMAIN h = 1..n /\ n \in Nat /\ \A i \in DOMAIN h : h[i] \in X
  BY LenProperties, ElementOfSeq
<1>2. fault = IF T = {} THEN "none" ELSE OdometryFault(h, c)
  BY DEF FirstFault
<1>3. T = {}
  <2> SUFFICES ASSUME T # {} PROVE FALSE
    OBVIOUS
  <2>1. c \in T
    BY <1>1, FirstOfThem
  <2>2. OdometryFault(h, c) # "none" /\ OdometryFault(h, c) # "trusted"
    BY <2>1 DEF OdometryFault
  <2>3. fault # "none" /\ fault # "trusted"
    BY <1>2, <2>2
  <2> HIDE DEF fault, T
  <2> QED
    BY <2>3 DEF AssessOdometry, fault
<1>4. h # <<>> /\ Latest(h).mark = "measured"
  BY <1>2, <1>3 DEF AssessOdometry
<1>5. a \in [1..n -> Int] /\ v \in [1..n -> Int] /\ \A i \in 1..n : a[i] = h[i].age /\ v[i] = h[i].value
  BY <1>1
<1>6. ASSUME NEW i \in 2..n PROVE a[i] < a[i - 1] /\ v[i] >= v[i - 1]
  <2>1. i \in DOMAIN h /\ i - 1 \in DOMAIN h /\ i > 1
    BY <1>1
  <2>2. OdometryFault(h, i) = "none"
    BY <1>3, <2>1
  <2>3. ~(h[i].age >= h[i - 1].age) /\ ~(h[i].value < h[i - 1].value)
    BY <2>1, <2>2 DEF OdometryFault
  <2>4. a[i] = h[i].age /\ a[i - 1] = h[i - 1].age /\ v[i] = h[i].value /\ v[i - 1] = h[i - 1].value
    BY <1>1, <1>5, <2>1
  <2>5. a[i] \in Int /\ a[i - 1] \in Int /\ v[i] \in Int /\ v[i - 1] \in Int
    BY <1>1, <1>5, <2>1
  <2> HIDE DEF a, v, n
  <2> QED
    BY <2>3, <2>4, <2>5
<1> HIDE DEF a, v
<1>7. (\A i, j \in 1..n : i < j => a[j] < a[i]) /\ (\A i, j \in 1..n : i <= j => v[j] >= v[i])
  <2> HIDE DEF n
  <2> QED
    BY <1>1, <1>5, <1>6, DownAllTheWay, UpAllTheWay
<1>8. n \in 1..n
  BY <1>1, <1>4, EmptySeq
<1>9. ASSUME NEW i \in DOMAIN h, \A j \in DOMAIN h : h[i].age <= h[j].age PROVE i = n
  <2> SUFFICES ASSUME i # n PROVE FALSE
    OBVIOUS
  <2>1. i \in 1..n /\ i < n
    BY <1>1
  <2>2. a[n] < a[i] /\ a[n] \in Int /\ a[i] \in Int
    BY <1>5, <1>7, <1>8, <2>1
  <2>3. a[i] <= a[n]
    BY <1>1, <1>5, <1>8, <1>9
  <2> QED
    BY <2>2, <2>3
<1>10. ASSUME NEW j \in DOMAIN h PROVE h[n].mark = "measured" /\ h[n].value >= h[j].value
  <2>1. j \in 1..n /\ j <= n
    BY <1>1
  <2>2. v[n] >= v[j]
    BY <1>7, <1>8, <2>1
  <2> QED
    BY <1>4, <1>5, <1>8, <2>1, <2>2 DEF Latest
<1> QED
  BY <1>9, <1>10

\* Radar and camera are fused when the newest fresh sample does not say they disagree.
LEMMA NominalSpeaks ==
    ASSUME HistoryAssumption, NEW X, NEW h \in Seq(X),
           \A x \in X : x.age \in Int /\ x.mark \in {"agree", "disagree", "broken"},
           AssessDisagreement(h) = "nominal"
    PROVE  \E i \in DOMAIN h : h[i].mark = "agree" /\ FreshSample(h[i])
<1> DEFINE F == FreshPlaces(h)
           fresh == ByTime(h, FreshSample)
           n == Cardinality(F)
           m == Streak(fresh, LAMBDA s : s.mark = "disagree")
           W == {i \in 1..n : fresh[i].mark = "disagree"}
<1>1. \A i \in DOMAIN h : h[i] \in X
  BY ElementOfSeq, LenProperties
<1>2. fresh = Sorted(h, F)
  BY DEF ByTime, Sorted, FreshPlaces
<1>3. F \in SUBSET DOMAIN h
  BY DEF FreshPlaces
<1>4. /\ n \in Nat /\ fresh \in Seq(X) /\ Len(fresh) = n
      /\ \E p : InOrder(p, OlderPairs(h, F), F) /\ \A k \in 1..n : fresh[k] = h[p[k]]
  BY <1>2, <1>3, SortedIs
<1>5. fresh # <<>> /\ ~(m >= MinSamples) /\ ~(m > 0)
  BY DEF AssessDisagreement
<1>6. \E x \in 0..Len(fresh) :
          /\ \A i \in (Len(fresh) - x + 1)..Len(fresh) : fresh[i].mark = "disagree"
          /\ x < Len(fresh) => ~(fresh[Len(fresh) - x].mark = "disagree")
  <2>1. PICK x \in 0..n : Ends(x, n, W)
    BY <1>4, EndExists
  <2>2. \A i \in (n - x + 1)..n : fresh[i].mark = "disagree"
    BY <2>1 DEF Ends
  <2>3. x < n => n - x \in 1..n /\ n - x \notin W
    BY <1>4, <2>1 DEF Ends
  <2>4. x < n => ~(fresh[n - x].mark = "disagree")
    BY <2>3
  <2> HIDE DEF W, n, fresh
  <2> QED
    BY <1>4, <2>2, <2>4
<1>7. m \in 0..Len(fresh) /\ (m < Len(fresh) => ~(fresh[Len(fresh) - m].mark = "disagree"))
  BY <1>6 DEF Streak
<1>8. n \in 1..n
  <2>1. n # 0
    BY <1>4, <1>5, EmptySeq
  <2> QED
    BY <1>4, <2>1
<1> HIDE DEF m, fresh, n, F
<1>9. fresh[n].mark # "disagree"
  <2>1. m = 0 /\ 0 < n /\ n - 0 = n
    BY <1>4, <1>5, <1>7, <1>8
  <2> QED
    BY <1>4, <1>7, <2>1
<1>10. PICK p : InOrder(p, OlderPairs(h, F), F) /\ \A k \in 1..n : fresh[k] = h[p[k]]
  BY <1>4
<1>11. p[n] \in F /\ fresh[n] = h[p[n]]
  BY <1>8, <1>10 DEF InOrder, n
<1>12. p[n] \in DOMAIN h /\ FreshSample(h[p[n]]) /\ h[p[n]] \in X
  BY <1>1, <1>11 DEF F, FreshPlaces
<1>13. h[p[n]].mark = "agree"
  BY <1>9, <1>11, <1>12 DEF FreshSample
<1> QED
  BY <1>12, <1>13

\* Evidence of the track is enough when each sample that counts is one without a false alarm.
LEMMA PhysicalSpeaks ==
    ASSUME HistoryAssumption, NEW X, NEW h \in Seq(X),
           \A x \in X : x.age \in Int, AssessFalsePositives(h) = "physical"
    PROVE  Cardinality({i \in DOMAIN h : h[i].mark = "track" /\ FreshSample(h[i])}) >= MinSamples
<1> DEFINE eligible == {i \in DOMAIN h : h[i].age <= PolicyAge /\ h[i].mark # "unreviewed"}
           onTrack == {i \in eligible : h[i].mark \in {"track", "falseOnTrack"}}
           S == {i \in DOMAIN h : h[i].mark = "track" /\ FreshSample(h[i])}
<1>1. DOMAIN h = 1..Len(h) /\ Len(h) \in Nat /\ \A i \in DOMAIN h : h[i] \in X
  BY ElementOfSeq, LenProperties
<1>2. /\ \A i \in DOMAIN h : ~(h[i].age < 0)
      /\ Cardinality(onTrack) >= MinSamples /\ ~UpperExceeds({h[i].mark : i \in onTrack})
  BY DEF AssessFalsePositives
<1>3. ASSUME NEW i \in onTrack PROVE i \in S
  <2>1. h[i].mark \in {h[j].mark : j \in onTrack}
    OBVIOUS
  <2>2. h[i].mark # "falseOnTrack"
    BY <1>2, <2>1 DEF UpperExceeds
  <2>3. i \in DOMAIN h /\ h[i].mark = "track" /\ h[i].age <= PolicyAge /\ h[i].age \in Int
    BY <1>1, <2>2
  <2>4. h[i].age \in 0..PolicyAge
    BY <1>2, <2>3 DEF HistoryAssumption
  <2> QED
    BY <2>3, <2>4 DEF FreshSample
<1>4. IsFiniteSet(S)
  <2>1. IsFiniteSet(DOMAIN h)
    BY <1>1, FS_Interval
  <2> QED
    BY <2>1, FS_Subset
<1> HIDE DEF onTrack, S
<1>5. onTrack \subseteq S
  BY <1>3
<1>6. Cardinality(onTrack) <= Cardinality(S) /\ Cardinality(onTrack) \in Nat /\ Cardinality(S) \in Nat
  BY <1>4, <1>5, FS_Subset, FS_CardinalityType
<1> QED
  BY <1>2, <1>6 DEF S, HistoryAssumption

\* What the accumulator holds of a soak, and how it begins.
Soaks == [uptime : Nat, regressed : BOOLEAN, measured : BOOLEAN, hot : BOOLEAN, low : BOOLEAN]
NoSoak == [uptime |-> 0, regressed |-> FALSE, measured |-> FALSE, hot |-> FALSE, low |-> FALSE]

\* What the accumulator holds stays of its type.
LEMMA SoakStays ==
    ASSUME NEW x \in Soaks, NEW s, s.value \in Nat
    PROVE  ObserveSnapshot(x, s) \in Soaks
BY DEF Soaks, ObserveSnapshot

\* What a snapshot adds to what the accumulator holds.
LEMMA SnapshotAdds ==
    ASSUME NEW x, NEW s
    PROVE  /\ ObserveSnapshot(x, s).uptime = s.value
           /\ ObserveSnapshot(x, s).regressed = (x.regressed \/ s.value + MaxJump < x.uptime)
           /\ ObserveSnapshot(x, s).hot = (x.hot \/ s.mark = "hot")
           /\ ObserveSnapshot(x, s).low = (x.low \/ s.mark = "lowMemory")
<1>1. ObserveSnapshot(x, s).uptime = s.value
  BY DEF ObserveSnapshot
<1>2. ObserveSnapshot(x, s).regressed = (x.regressed \/ s.value + MaxJump < x.uptime)
  BY Zenon DEF ObserveSnapshot
<1>3. ObserveSnapshot(x, s).hot = (x.hot \/ s.mark = "hot")
  BY Zenon DEF ObserveSnapshot
<1>4. ObserveSnapshot(x, s).low = (x.low \/ s.mark = "lowMemory")
  BY Zenon DEF ObserveSnapshot
<1> QED
  BY <1>1, <1>2, <1>3, <1>4, Zenon

\* The snapshots are observed one after the other.
LEMMA SoakFolds ==
    ASSUME NEW X, NEW h \in Seq(X), \A x \in X : x.value \in Nat
    PROVE  \E g \in [0..Len(h) -> Soaks] :
               /\ g[0] = NoSoak /\ g[Len(h)] = FoldLeft(ObserveSnapshot, NoSoak, h)
               /\ \A i \in 1..Len(h) : g[i] = ObserveSnapshot(g[i - 1], h[i])
<1> DEFINE n == Len(h)
           Q(g) == g = [s \in SUBSET DOMAIN h |->
                          IF s = {} THEN NoSoak ELSE ObserveSnapshot(g[s \ {Max(s)}], h[Max(s)])]
           next == [i \in 1..n |-> [x \in Soaks |-> ObserveSnapshot(x, h[i])]]
<1>1. n \in Nat /\ DOMAIN h = 1..n /\ \A i \in 1..n : h[i] \in X
  BY LenProperties, ElementOfSeq
<1>2. next \in [1..n -> [Soaks -> Soaks]]
  BY <1>1, SoakStays
<1>3. NoSoak \in Soaks
  BY DEF Soaks, NoSoak
<1>4. PICK g : IsFold(g, n, Soaks, NoSoak, next)
  <2> HIDE DEF next, n
  <2> QED
    BY <1>1, <1>2, <1>3, FoldExists
<1>5. Q(g)
  <2> SUFFICES ASSUME NEW s \in SUBSET (1..n)
               PROVE  g[s] = IF s = {} THEN NoSoak ELSE ObserveSnapshot(g[s \ {Max(s)}], h[Max(s)])
    BY <1>1, <1>4 DEF IsFold
  <2>1. CASE s = {}
    BY <1>4, <2>1 DEF IsFold
  <2>2. CASE s # {}
    <3>1. Max(s) \in s
      BY <1>1, <2>2, GreatestIsMax
    <3>2. g[s \ {Max(s)}] \in Soaks
      BY <1>4 DEF IsFold
    <3>3. next[Max(s)][g[s \ {Max(s)}]] = ObserveSnapshot(g[s \ {Max(s)}], h[Max(s)])
      BY <3>1, <3>2
    <3> QED
      BY <1>4, <2>2, <3>3 DEF IsFold
  <2> QED
    BY <2>1, <2>2
<1> DEFINE f == CHOOSE x : Q(x)
<1>6. Q(f)
  <2> HIDE DEF Q
  <2> QED
    BY <1>5
<1>7. FoldLeft(ObserveSnapshot, NoSoak, h) = f[DOMAIN h]
  BY DEF FoldLeft, MapThenFoldSet
<1> HIDE DEF f
<1>8. f[{}] = NoSoak
  BY <1>6
<1>9. ASSUME NEW s \in SUBSET (1..n), s # {}, f[s \ {Max(s)}] \in Soaks
      PROVE  f[s] = next[Max(s)][f[s \ {Max(s)}]]
  <2>1. f[s] = ObserveSnapshot(f[s \ {Max(s)}], h[Max(s)])
    BY <1>1, <1>6, <1>9
  <2>2. Max(s) \in 1..n
    BY <1>1, <1>9, GreatestIsMax
  <2> QED
    BY <1>9, <2>1, <2>2
<1> HIDE DEF Q
<1>10. Follows(f, n, Soaks, NoSoak, next)
  BY <1>8, <1>9 DEF Follows
<1>11. PICK r : IsRun(r, n, Soaks, NoSoak, next) /\ r[n] = f[1..n]
  <2> HIDE DEF next, n
  <2>1. n \in Nat
    BY <1>1
  <2>2. next \in [1..n -> [Soaks -> Soaks]]
    BY <1>2
  <2>8. FoldsOf(f, n, Soaks, NoSoak, next)
    BY <1>3, <1>10, <2>1, <2>2 DEF FoldsOf
  <2>9. MadeBySteps(f, n, Soaks, NoSoak, next)
    BY <2>8, FoldsAreMade
  <2> QED
    BY <2>9 DEF MadeBySteps
<1>12. \A i \in 1..n : r[i] = ObserveSnapshot(r[i - 1], h[i])
  <2> SUFFICES ASSUME NEW i \in 1..n PROVE r[i] = ObserveSnapshot(r[i - 1], h[i])
    OBVIOUS
  <2>1. i - 1 \in 0..n
    BY <1>1
  <2>2. r[i - 1] \in Soaks
    BY <1>11, <2>1 DEF IsRun
  <2> QED
    BY <1>11, <2>2 DEF IsRun
<1>13. r \in [0..n -> Soaks] /\ r[0] = NoSoak /\ f[DOMAIN h] = r[n]
  BY <1>1, <1>11 DEF IsRun
<1> HIDE DEF next
<1> QED
  BY <1>7, <1>12, <1>13

\* Nothing that was observed of a soak is forgotten.
LEMMA SoakSpeaks ==
    ASSUME HistoryAssumption, NEW X, NEW h \in Seq(X), \A x \in X : x.value \in Nat, SoakPassed(h)
    PROVE  /\ \A i \in DOMAIN h : h[i].mark \notin {"hot", "lowMemory"}
           /\ \A i \in 2..Len(h) : h[i].value + MaxJump >= h[i - 1].value
<1> DEFINE n == Len(h)
<1>1. n \in Nat /\ DOMAIN h = 1..n /\ \A i \in 1..n : h[i] \in X /\ h[i].value \in Nat
  BY LenProperties, ElementOfSeq
<1>2. PICK g \in [0..n -> Soaks] :
          /\ g[0] = NoSoak /\ g[n] = FoldLeft(ObserveSnapshot, NoSoak, h)
          /\ \A i \in 1..n : g[i] = ObserveSnapshot(g[i - 1], h[i])
  BY SoakFolds
<1>3. ~g[n].regressed /\ ~g[n].hot /\ ~g[n].low
  BY <1>2 DEF SoakPassed, NoSoak
<1> HIDE DEF n
<1> DEFINE P == {i \in 0..n :
                   /\ i > 0 => g[i].uptime = h[i].value
                   /\ ~g[i].regressed => \A k \in 2..i : ~(h[k].value + MaxJump < h[k - 1].value)
                   /\ ~g[i].hot => \A k \in 1..i : h[k].mark # "hot"
                   /\ ~g[i].low => \A k \in 1..i : h[k].mark # "lowMemory"}
<1>4. 0 \in P
  BY <1>1
<1>5. ASSUME NEW i \in 1..n, i - 1 \in P PROVE i \in P
  <2>1. /\ i - 1 > 0 => g[i - 1].uptime = h[i - 1].value
        /\ ~g[i - 1].regressed => \A k \in 2..(i - 1) : ~(h[k].value + MaxJump < h[k - 1].value)
        /\ ~g[i - 1].hot => \A k \in 1..(i - 1) : h[k].mark # "hot"
        /\ ~g[i - 1].low => \A k \in 1..(i - 1) : h[k].mark # "lowMemory"
    BY <1>5
  <2>2. /\ g[i].uptime = h[i].value
        /\ ~g[i].regressed => ~g[i - 1].regressed /\ ~(h[i].value + MaxJump < g[i - 1].uptime)
        /\ ~g[i].hot => ~g[i - 1].hot /\ h[i].mark # "hot"
        /\ ~g[i].low => ~g[i - 1].low /\ h[i].mark # "lowMemory"
    <3>1. g[i] = ObserveSnapshot(g[i - 1], h[i])
      BY <1>2
    <3>2. /\ g[i].uptime = h[i].value
          /\ g[i].regressed = (g[i - 1].regressed \/ h[i].value + MaxJump < g[i - 1].uptime)
          /\ g[i].hot = (g[i - 1].hot \/ h[i].mark = "hot")
          /\ g[i].low = (g[i - 1].low \/ h[i].mark = "lowMemory")
      BY <3>1, SnapshotAdds
    <3> QED
      BY <3>2, Zenon
  <2>3. \A k \in 1..i : k = i \/ k \in 1..(i - 1)
    BY <1>1
  <2>4. \A k \in 2..i : k \in 2..(i - 1) \/ (k = i /\ i - 1 > 0)
    BY <1>1
  <2>5. ASSUME ~g[i].regressed, NEW k \in 2..i PROVE ~(h[k].value + MaxJump < h[k - 1].value)
    BY <2>1, <2>2, <2>4, <2>5
  <2>6. i \in 0..n
    BY <1>1
  <2> QED
    BY <2>1, <2>2, <2>3, <2>5, <2>6
<1>6. \A i \in 0..n : i \in P
  <2> HIDE DEF P
  <2> QED
    BY <1>1, <1>4, <1>5, StepByStep
<1>7. n \in P
  <2> HIDE DEF P
  <2> QED
    BY <1>1, <1>6
<1>8. /\ \A k \in 2..n : ~(h[k].value + MaxJump < h[k - 1].value)
      /\ \A k \in 1..n : h[k].mark # "hot" /\ h[k].mark # "lowMemory"
  BY <1>3, <1>7
<1>9. ASSUME NEW i \in 2..n PROVE h[i].value + MaxJump >= h[i - 1].value
  <2>1. i \in 1..n /\ i - 1 \in 1..n
    BY <1>1
  <2>2. h[i].value \in Nat /\ h[i - 1].value \in Nat /\ MaxJump \in Nat
    BY <1>1, <2>1 DEF HistoryAssumption
  <2> QED
    BY <1>8, <2>2
<1> QED
  BY <1>1, <1>8, <1>9 DEF n

\* TheNewestSpeaks, whatever the history.
LEMMA TheNewestSpeaksHolds ==
    ASSUME HistoryAssumption, HistoryInv
    PROVE  TheNewestSpeaks
<1> DEFINE h == history
           X == SamplesOf(policy)
           newest == {i \in DOMAIN h : \A j \in DOMAIN h : h[i].age <= h[j].age}
<1>1. /\ h \in Seq(X) /\ \A x \in X : x.age \in Int
      /\ \A x \in X : x.value \in Nat
      /\ \A x \in X : x.age \in Int /\ x.value \in Nat
  BY DEF HistoryInv, SamplesOf
<1>2. policy = "health" /\ DeriveSensorHealth(h) = "healthy" =>
          newest = {Len(h)} /\ \A i \in (Len(h) - MinSamples + 1)..Len(h) : h[i].mark = "well"
  <2> HIDE DEF X, h
  <2> QED
    BY <1>1, HealthySpeaks
<1>3. policy = "odometry" /\ AssessOdometry(h) = "trusted" =>
          \A i \in newest, j \in DOMAIN h : h[i].mark = "measured" /\ h[i].value >= h[j].value
  <2> HIDE DEF X, h
  <2> QED
    BY <1>1, TrustedSpeaks
<1>4. policy = "disagreement" /\ AssessDisagreement(h) = "nominal" =>
          \E i \in DOMAIN h : h[i].mark = "agree" /\ FreshSample(h[i])
  <2> SUFFICES ASSUME policy = "disagreement", AssessDisagreement(h) = "nominal"
               PROVE  \E i \in DOMAIN h : h[i].mark = "agree" /\ FreshSample(h[i])
    OBVIOUS
  <2>1. MarksOf["disagreement"] = {"agree", "disagree", "broken"}
    BY DEF MarksOf
  <2>2. \A x \in X : x.age \in Int /\ x.mark \in {"agree", "disagree", "broken"}
    BY <2>1 DEF SamplesOf
  <2> HIDE DEF X, h
  <2> QED
    BY <1>1, <2>2, NominalSpeaks
<1>5. policy = "soak" /\ SoakPassed(h) =>
          /\ \A i \in DOMAIN h : h[i].mark \notin {"hot", "lowMemory"}
          /\ \A i \in 2..Len(h) : h[i].value + MaxJump >= h[i - 1].value
  <2> HIDE DEF X, h
  <2> QED
    BY <1>1, SoakSpeaks
<1>6. policy = "outcomes" /\ AssessFalsePositives(h) = "physical" =>
          Cardinality({i \in DOMAIN h : h[i].mark = "track" /\ FreshSample(h[i])}) >= MinSamples
  <2> HIDE DEF X, h
  <2> QED
    BY <1>1, PhysicalSpeaks
<1>7. policy = "telemetry" => \A i, j \in DOMAIN h :
          i < j => h[i].value < h[j].value /\ h[i].age >= h[j].age
  BY DEF HistoryInv, InSequence
<1> QED
  BY <1>2, <1>3, <1>4, <1>5, <1>6, <1>7 DEF TheNewestSpeaks
=============================================================================
