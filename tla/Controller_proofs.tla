-------------------------- MODULE Controller_proofs --------------------------
(***************************************************************************)
(* Proofs about Controller, for its four implementations, every number     *)
(* of bins and of reads per bin, and every behaviour of the ADC, the PWM   *)
(* and the clients.                                                        *)
(***************************************************************************)
EXTENDS Controller, Operators_proofs, FiniteSetTheorems, WellFoundedInduction

-----------------------------------------------------------------------------
(* Sums: what Total folds a function to *)

\* Of any natural numbers there is a least.
LEMMA Least ==
  ASSUME NEW T \in SUBSET Nat, T # {}
  PROVE  \E n \in T : \A m \in T : n <= m
<1>1. \E n \in T : \A m \in T : ~(<<m, n>> \in OpToRel(<, Nat))
  BY WFMin, NatLessThanWellFounded, Zenon
<1>2. PICK n \in T : \A m \in T : ~(<<m, n>> \in OpToRel(<, Nat))
  BY <1>1
<1>3. ASSUME NEW m \in T PROVE ~(m < n)
  BY <1>2, <1>3 DEF OpToRel
<1> QED
  BY <1>3

\* What Total folds a function with: the element taken from a set, and the sums
\* over all subsets of its domain.
Pick(s) == CHOOSE x \in s : TRUE
SumStep(g, f, s) == IF s = {} THEN 0 ELSE f[Pick(s)] + g[s \ {Pick(s)}]
Sums(f, S) == CHOOSE g : g = [s \in SUBSET S |-> SumStep(g, f, s)]

\* The total of the counts, by which the frequency is computed (controller.c:99), is
\* the sum over the whole domain.
LEMMA TotalIsSum ==
  ASSUME NEW f
  PROVE  Total(f) = Sums(f, DOMAIN f)[DOMAIN f]
BY Zenon DEF Total, FoldFunction, FoldFunctionOnSet, MapThenFoldSet, Sums, SumStep, Pick

\* Among any subsets of a finite set one is minimal: it is what induction over
\* finite sets rests on.
LEMMA MinimalSubset ==
  ASSUME NEW S, IsFiniteSet(S), NEW T \in SUBSET (SUBSET S), T # {}
  PROVE  \E s \in T : \A x \in s : s \ {x} \notin T
<1> DEFINE sizes == {Cardinality(s) : s \in T}
<1>1. \A s \in T : IsFiniteSet(s) /\ Cardinality(s) \in Nat
  BY FS_Subset, FS_CardinalityType
<1>2. PICK n \in sizes : \A m \in sizes : n <= m
  <2>1. sizes \in SUBSET Nat /\ sizes # {}
    BY <1>1
  <2> HIDE DEF sizes
  <2> QED
    BY <2>1, Least
<1>3. PICK s \in T : Cardinality(s) = n
  BY <1>2
<1>4. ASSUME NEW x \in s, s \ {x} \in T
      PROVE  FALSE
  <2>1. Cardinality(s \ {x}) = Cardinality(s) - 1
    BY <1>1, FS_RemoveElement
  <2>2. Cardinality(s) <= Cardinality(s \ {x})
    BY <1>2, <1>3, <1>4
  <2> QED
    BY <1>1, <2>1, <2>2
<1> QED
  BY <1>3, <1>4

\* The sums exist, and are what the recursion says.
LEMMA SumsRecursion ==
  ASSUME NEW S, IsFiniteSet(S), NEW f \in [S -> Nat]
  PROVE  /\ Sums(f, S) \in [SUBSET S -> Nat]
         /\ \A s \in SUBSET S : Sums(f, S)[s] = SumStep(Sums(f, S), f, s)
<1> DEFINE Level(n) == {s \in SUBSET S : Cardinality(s) <= n}
           Holds(n) == \E g \in [Level(n) -> Nat] : \A s \in Level(n) : g[s] = SumStep(g, f, s)
           N == Cardinality(S)
<1>1. \A s \in SUBSET S : /\ IsFiniteSet(s) /\ Cardinality(s) \in Nat /\ Cardinality(s) <= N
                          /\ s # {} => Cardinality(s) # 0
                          /\ \A x \in s : Cardinality(s \ {x}) = Cardinality(s) - 1
  BY FS_Subset, FS_CardinalityType, FS_RemoveElement, FS_EmptySet
<1>2. \A s \in SUBSET S : s # {} => Pick(s) \in s
  BY Zenon DEF Pick
<1>3. N \in Nat
  BY FS_CardinalityType
<1> HIDE DEF N
<1>4. Holds(0)
  <2> DEFINE g == [s \in Level(0) |-> 0]
  <2>1. \A s \in Level(0) : s = {}
    BY <1>1
  <2>2. g \in [Level(0) -> Nat]
    OBVIOUS
  <2>3. \A s \in Level(0) : g[s] = SumStep(g, f, s)
    BY <2>1 DEF SumStep
  <2> QED
    BY <2>2, <2>3
<1>5. ASSUME NEW n \in Nat, Holds(n)
      PROVE  Holds(n + 1)
  <2>1. PICK g \in [Level(n) -> Nat] : \A s \in Level(n) : g[s] = SumStep(g, f, s)
    BY <1>5
  <2> DEFINE h == [s \in Level(n + 1) |-> SumStep(g, f, s)]
  <2>2. \A s \in Level(n + 1) : s # {} => s \ {Pick(s)} \in Level(n) /\ Pick(s) \in S
    BY <1>1, <1>2
  <2>3. \A s \in Level(n + 1) : SumStep(g, f, s) \in Nat
    <3> SUFFICES ASSUME NEW s \in Level(n + 1), s # {} PROVE f[Pick(s)] + g[s \ {Pick(s)}] \in Nat
      BY DEF SumStep
    <3> HIDE DEF Level
    <3>1. f[Pick(s)] \in Nat /\ g[s \ {Pick(s)}] \in Nat
      BY <2>1, <2>2
    <3> QED
      BY <3>1
  <2>4. h \in [Level(n + 1) -> Nat]
    BY <2>3
  <2>5. \A s \in Level(n) : s \in Level(n + 1) /\ h[s] = g[s]
    <3> SUFFICES ASSUME NEW s \in Level(n) PROVE s \in Level(n + 1) /\ h[s] = g[s]
      OBVIOUS
    <3>1. s \in Level(n + 1)
      BY <1>1
    <3>2. h[s] = SumStep(g, f, s)
      BY <3>1
    <3> QED
      BY <2>1, <3>1, <3>2
  <2>6. \A s \in Level(n + 1) : h[s] = SumStep(h, f, s)
    <3> SUFFICES ASSUME NEW s \in Level(n + 1) PROVE h[s] = SumStep(h, f, s)
      OBVIOUS
    <3>1. h[s] = SumStep(g, f, s)
      OBVIOUS
    <3> HIDE DEF h, Level
    <3>2. s # {} => h[s \ {Pick(s)}] = g[s \ {Pick(s)}]
      BY <2>2, <2>5
    <3> QED
      BY <3>1, <3>2 DEF SumStep
  <2> HIDE DEF h, Level
  <2> QED
    BY <2>4, <2>6
<1>6. Holds(N)
  <2> DEFINE T == {n \in 0..N : ~Holds(n)}
  <2> HIDE DEF Holds
  <2>1. SUFFICES ASSUME T # {} PROVE FALSE
    BY <1>3
  <2>2. T \in SUBSET Nat
    BY <1>3
  <2>3. PICK m \in T : \A l \in T : m <= l
    BY <2>1, <2>2, Least, Zenon
  <2>4. m # 0
    BY <1>4, <2>3
  <2>5. m - 1 \in 0..N /\ m - 1 \in Nat /\ (m - 1) + 1 = m /\ ~(m <= m - 1)
    BY <1>3, <2>3, <2>4
  <2>6. Holds(m - 1)
    BY <2>3, <2>5
  <2>7. Holds((m - 1) + 1)
    BY <1>5, <2>5, <2>6
  <2> QED
    BY <2>3, <2>5, <2>7
<1>7. \E g \in [SUBSET S -> Nat] : \A s \in SUBSET S : g[s] = SumStep(g, f, s)
  <2>1. Level(N) = SUBSET S
    BY <1>1
  <2> HIDE DEF Level
  <2> QED
    BY <1>6, <2>1
<1>8. Sums(f, S) = [s \in SUBSET S |-> SumStep(Sums(f, S), f, s)]
  <2>1. PICK g \in [SUBSET S -> Nat] : \A s \in SUBSET S : g[s] = SumStep(g, f, s)
    BY <1>7
  <2>2. g = [s \in SUBSET S |-> SumStep(g, f, s)]
    BY <2>1
  <2> QED
    BY <2>2, Zenon DEF Sums
<1> DEFINE sums == Sums(f, S)
<1>9. DOMAIN sums = SUBSET S /\ \A s \in SUBSET S : sums[s] = SumStep(sums, f, s)
  <2> HIDE DEF sums
  <2>1. sums = [s \in SUBSET S |-> SumStep(sums, f, s)]
    BY <1>8 DEF sums
  <2> QED
    BY <2>1, Zenon
<1> HIDE DEF sums
<1>10. \A s \in SUBSET S : sums[s] \in Nat
  <2> DEFINE T == {s \in SUBSET S : sums[s] \notin Nat}
  <2>1. SUFFICES ASSUME T # {} PROVE FALSE
    OBVIOUS
  <2>2. PICK s \in T : \A x \in s : s \ {x} \notin T
    <3> HIDE DEF T
    <3>1. T \in SUBSET (SUBSET S)
      BY DEF T
    <3> QED
      BY <2>1, <3>1, MinimalSubset
  <2>3. CASE s = {}
    <3>1. sums[s] = 0
      BY <1>9, <2>2, <2>3 DEF SumStep
    <3> QED
      BY <2>2, <3>1
  <2>4. CASE s # {}
    <3>1. Pick(s) \in s /\ s \ {Pick(s)} \in SUBSET S
      BY <1>2, <2>2, <2>4
    <3>2. f[Pick(s)] \in Nat /\ sums[s \ {Pick(s)}] \in Nat
      BY <2>2, <3>1
    <3>3. sums[s] = f[Pick(s)] + sums[s \ {Pick(s)}]
      BY <1>9, <2>2, <2>4 DEF SumStep
    <3> QED
      BY <2>2, <3>2, <3>3
  <2> QED
    BY <2>3, <2>4
<1>11. sums \in [SUBSET S -> Nat]
  <2>1. sums = [s \in SUBSET S |-> SumStep(sums, f, s)]
    BY <1>8 DEF sums
  <2>2. \A s \in SUBSET S : SumStep(sums, f, s) \in Nat
    BY <1>9, <1>10
  <2> QED
    BY <2>1, <2>2
<1> QED
  BY <1>9, <1>11 DEF sums

\* A sum is that of one element and that of the others, whichever is taken.
Additive(g, f, S) ==
  /\ g \in [SUBSET S -> Nat] /\ g[{}] = 0
  /\ \A s \in SUBSET S : \A x \in s : g[s] = f[x] + g[s \ {x}]

\* So it is for the sums by which Total is computed.
LEMMA SumsAdditive ==
  ASSUME NEW S, IsFiniteSet(S), NEW f \in [S -> Nat]
  PROVE  Additive(Sums(f, S), f, S)
<1> DEFINE g == Sums(f, S)
           T == {r \in SUBSET S : \E y \in r : g[r] # f[y] + g[r \ {y}]}
<1>1. g \in [SUBSET S -> Nat] /\ \A r \in SUBSET S : g[r] = SumStep(g, f, r)
  BY SumsRecursion
<1> HIDE DEF g
<1>2. SUFFICES ASSUME T # {} PROVE FALSE
  <2>1. g[{}] = 0
    BY <1>1 DEF SumStep
  <2> QED
    BY <1>1, <2>1 DEF Additive, g
<1>3. PICK r \in T : \A y \in r : r \ {y} \notin T
  <2>1. T \in SUBSET (SUBSET S)
    OBVIOUS
  <2> HIDE DEF T
  <2> QED
    BY <1>2, <2>1, MinimalSubset
<1>4. PICK y \in r : g[r] # f[y] + g[r \ {y}]
  BY <1>3
<1> DEFINE p == Pick(r)
<1>5. p \in r
  BY <1>4, Zenon DEF Pick
<1>6. g[r] = f[p] + g[r \ {p}] /\ p # y
  BY <1>1, <1>3, <1>4 DEF SumStep
<1> HIDE DEF p
<1>7. /\ r \ {p} \in SUBSET S /\ r \ {y} \in SUBSET S
      /\ y \in r \ {p} /\ p \in r \ {y} /\ (r \ {p}) \ {y} = (r \ {y}) \ {p}
  BY <1>3, <1>4, <1>5, <1>6
<1>8. g[r \ {p}] = f[y] + g[(r \ {p}) \ {y}]
  BY <1>3, <1>5, <1>7
<1>9. g[r \ {y}] = f[p] + g[(r \ {y}) \ {p}]
  BY <1>3, <1>4, <1>7
<1>10. /\ f[y] \in Nat /\ f[p] \in Nat /\ (r \ {p}) \ {y} \in SUBSET S
  BY <1>7
<1>11. g[(r \ {p}) \ {y}] \in Nat
  BY <1>1, <1>10
<1>12. g[(r \ {y}) \ {p}] = g[(r \ {p}) \ {y}]
  BY <1>7
<1> HIDE DEF T
<1>13. g[r] = f[y] + g[r \ {y}]
  BY <1>6, <1>8, <1>9, <1>10, <1>11, <1>12
<1> QED
  BY <1>4, <1>13

\* Summing is renaming-proof: what counts is which values are summed, not what
\* they are indexed by.
LEMMA SumsRenamed ==
  ASSUME NEW S, IsFiniteSet(S), NEW f \in [S -> Nat],
         NEW T, IsFiniteSet(T), NEW h \in [T -> Nat],
         NEW b \in [T -> S], \A t, u \in T : b[t] = b[u] => t = u,
         \A t \in T : h[t] = f[b[t]], \A x \in S : \E t \in T : b[t] = x
  PROVE  Sums(h, T)[T] = Sums(f, S)[S]
<1> DEFINE F == Sums(f, S)
           H == Sums(h, T)
           Image(r) == {b[t] : t \in r}
           U == {r \in SUBSET T : H[r] # F[Image(r)]}
<1>1. Additive(F, f, S) /\ Additive(H, h, T)
  BY SumsAdditive
<1> HIDE DEF F, H
<1>2. /\ F \in [SUBSET S -> Nat] /\ F[{}] = 0
      /\ \A r \in SUBSET S : \A x \in r : F[r] = f[x] + F[r \ {x}]
  BY <1>1 DEF Additive
<1>3. /\ H \in [SUBSET T -> Nat] /\ H[{}] = 0
      /\ \A r \in SUBSET T : \A x \in r : H[r] = h[x] + H[r \ {x}]
  BY <1>1 DEF Additive
<1>4. SUFFICES ASSUME U # {} PROVE FALSE
  <2> SUFFICES ASSUME U = {} PROVE H[T] = F[S]
    BY DEF F, H
  <2>1. Image(T) = S
    OBVIOUS
  <2>2. T \in SUBSET T
    OBVIOUS
  <2>3. H[T] = F[Image(T)]
    BY <2>2
  <2> QED
    BY <2>1, <2>3
<1>5. PICK r \in U : \A y \in r : r \ {y} \notin U
  <2>1. U \in SUBSET (SUBSET T)
    OBVIOUS
  <2> HIDE DEF U
  <2> QED
    BY <1>4, <2>1, MinimalSubset
<1>6. r \in SUBSET T /\ H[r] # F[Image(r)] /\ Image(r) \in SUBSET S
  BY <1>5
<1>7. CASE r = {}
  <2>1. Image(r) = {}
    BY <1>7
  <2> QED
    BY <1>2, <1>3, <1>6, <1>7, <2>1
<1>8. CASE r # {}
  <2>1. PICK x \in r : TRUE
    BY <1>8
  <2>2. x \in T /\ b[x] \in Image(r) /\ b[x] \in S /\ h[x] = f[b[x]]
    BY <1>6, <2>1
  <2>3. Image(r \ {x}) = Image(r) \ {b[x]}
    BY <1>6, <2>1
  <2>4. H[r \ {x}] = F[Image(r \ {x})]
    BY <1>5, <1>6, <2>1
  <2> HIDE DEF Image, U
  <2>5. H[r] = h[x] + H[r \ {x}]
    BY <1>3, <1>6, <2>1, <2>2
  <2>6. F[Image(r)] = f[b[x]] + F[Image(r) \ {b[x]}]
    BY <1>2, <1>6, <2>2
  <2> QED
    BY <1>6, <2>2, <2>3, <2>4, <2>5, <2>6
<1> QED
  BY <1>7, <1>8

-----------------------------------------------------------------------------
(* The counts *)

RingType ==
  /\ revolutions \in [Bins -> Nat]
  /\ tail \in Bins
  /\ isClose \in BOOLEAN
  /\ readNo \in 0..(ReadsPerBin - 1)

\* The ring buffer and what indexes it, and the bound on the counts, in one
\* inductive invariant.
RingInv == RingType /\ BinInv

\* The ring starts empty, so its counts are within their bound.
LEMMA RingInit == Init => RingInv
<1> SUFFICES ASSUME Init PROVE RingInv
  OBVIOUS
<1> USE ControllerAssumption
<1>1. revolutions = [k \in Bins |-> 0] /\ tail = 0 /\ readNo = 1 % ReadsPerBin
  BY DEF Init
<1>2. isClose = FALSE
  BY Zenon DEF Init
<1>3. readNo = IF ReadsPerBin = 1 THEN 0 ELSE 1
  <2>1. 0 \in 0..(ReadsPerBin - 1) /\ ReadsPerBin \in Nat \ {0}
    OBVIOUS
  <2> QED
    BY <1>1, <2>1, IncrementMod
<1>4. RingType
  <2>1. isClose \in BOOLEAN
    BY <1>2, Zenon
  <2>2. revolutions \in [Bins -> Nat] /\ tail \in Bins /\ readNo \in 0..(ReadsPerBin - 1)
    BY <1>1, <1>3 DEF Bins
  <2> QED
    BY <2>1, <2>2 DEF RingType
<1>5. BinInv
  BY <1>1, <1>3, <1>4 DEF RingType, Bins, BinInv, BinBound, ReadsDone
<1> QED
  BY <1>4, <1>5 DEF RingInv

\* One reading adds at most one revolution to the current bin, and then only when
\* the magnet was far.
LEMMA ReadingCounts ==
  ASSUME RingType, NEW adc
  PROVE  /\ CountsAfter(adc) \in [Bins -> Nat]
         /\ \A k \in Bins \ {tail} : CountsAfter(adc)[k] = revolutions[k]
         /\ \/ /\ ~isClose /\ IsCloseAfter(adc)
               /\ CountsAfter(adc)[tail] = revolutions[tail] + 1
            \/ /\ IsCloseAfter(adc) = isClose \/ ~IsCloseAfter(adc)
               /\ CountsAfter(adc)[tail] = revolutions[tail]
<1>1. CASE GoneClose(adc)
  <2>1. CountsAfter(adc) = [revolutions EXCEPT ![tail] = revolutions[tail] + 1]
    BY <1>1 DEF CountsAfter
  <2>2. ~isClose /\ IsCloseAfter(adc)
    BY <1>1, Zenon DEF GoneClose, IsCloseAfter
  <2>3. /\ CountsAfter(adc) \in [Bins -> Nat]
        /\ \A k \in Bins \ {tail} : CountsAfter(adc)[k] = revolutions[k]
        /\ CountsAfter(adc)[tail] = revolutions[tail] + 1
    BY <2>1 DEF RingType
  <2> QED
    BY <2>2, <2>3, Zenon
<1>2. CASE ~GoneClose(adc)
  <2>1. CountsAfter(adc) = revolutions
    BY <1>2 DEF CountsAfter
  <2>2. IsCloseAfter(adc) = isClose \/ ~IsCloseAfter(adc)
    BY <1>2, Zenon DEF IsCloseAfter, RingType
  <2> QED
    BY <2>1, <2>2 DEF RingType
<1> QED
  BY <1>1, <1>2

\* After a reading the current bin holds no more than half the readings it got,
\* rounded up, and one reading fewer when the magnet is far.
LEMMA ReadingBound ==
  ASSUME RingInv, NEW adc
  PROVE  /\ 2 * CountsAfter(adc)[tail]
              <= ReadsDone + 1 + (IF IsCloseAfter(adc) THEN 1 ELSE 0)
         /\ \A k \in Bins \ {tail} : 2 * CountsAfter(adc)[k] <= ReadsPerBin + 1
<1> USE ControllerAssumption
<1>1. /\ revolutions[tail] \in Nat /\ ReadsDone \in Nat
      /\ 2 * revolutions[tail] <= ReadsDone + (IF isClose THEN 1 ELSE 0)
  BY DEF RingInv, RingType, BinInv, ReadsDone
<1>2. \A k \in Bins \ {tail} : 2 * CountsAfter(adc)[k] <= ReadsPerBin + 1
  BY ReadingCounts DEF RingInv, BinInv, BinBound
<1>3. CASE /\ ~isClose /\ IsCloseAfter(adc)
           /\ CountsAfter(adc)[tail] = revolutions[tail] + 1
  BY <1>1, <1>2, <1>3
<1>4. CASE /\ IsCloseAfter(adc) = isClose \/ ~IsCloseAfter(adc)
           /\ CountsAfter(adc)[tail] = revolutions[tail]
  BY <1>1, <1>2, <1>4 DEF RingInv, RingType
<1> QED
  BY <1>3, <1>4, ReadingCounts DEF RingInv

\* What a tick does to the hysteresis and the count of reads.
LEMMA TickEffect ==
  ASSUME RingType, NEW adc, Tick(adc)
  PROVE  /\ isClose' = IsCloseAfter(adc) /\ isClose' \in BOOLEAN
         /\ readNo' = IF readNo = ReadsPerBin - 1 THEN 0 ELSE readNo + 1
         /\ readNo' \in 0..(ReadsPerBin - 1)
<1> USE ControllerAssumption
<1>1. isClose' = IsCloseAfter(adc)
  BY DEF Tick
<1>2. IsCloseAfter(adc) \in BOOLEAN
  BY Zenon DEF IsCloseAfter, GoneClose
<1>3. readNo' = (readNo + 1) % ReadsPerBin
  BY DEF Tick
<1>4. readNo \in 0..(ReadsPerBin - 1) /\ ReadsPerBin \in Nat \ {0}
  BY DEF RingType
<1>5. readNo' = IF readNo = ReadsPerBin - 1 THEN 0 ELSE readNo + 1
  BY <1>3, <1>4, IncrementMod
<1>6. isClose' \in BOOLEAN
  BY <1>1, <1>2, Zenon
<1> QED
  BY <1>1, <1>4, <1>5, <1>6

\* A tick that stays in its bin (the read phase alone) keeps the bound.
LEMMA HandleReadKeepsBound ==
  ASSUME RingInv, NEW adc, HandleRead(adc)
  PROVE  RingInv'
<1> USE ControllerAssumption
<1>1. Tick(adc) /\ readNo # 0 /\ revolutions' = CountsAfter(adc) /\ tail' = tail
  BY DEF HandleRead, ControlDue
<1>2. RingType /\ readNo \in 0..(ReadsPerBin - 1) /\ tail \in Bins
  BY DEF RingInv, RingType
<1>3. /\ isClose' = IsCloseAfter(adc) /\ isClose' \in BOOLEAN
      /\ readNo' = IF readNo = ReadsPerBin - 1 THEN 0 ELSE readNo + 1
      /\ readNo' \in 0..(ReadsPerBin - 1)
  BY <1>1, <1>2, TickEffect
<1>4. RingType'
  BY <1>1, <1>2, <1>3, ReadingCounts DEF RingType, Bins
<1>5. ReadsDone' = ReadsDone + 1 /\ ReadsDone \in Nat /\ ReadsDone + 2 <= ReadsPerBin + 1
  BY <1>1, <1>2, <1>3 DEF ReadsDone
<1>6. 2 * revolutions'[tail'] <= ReadsDone' + (IF isClose' THEN 1 ELSE 0)
  BY <1>1, <1>3, <1>5, ReadingBound
<1>7. \A k \in Bins : 2 * revolutions'[k] <= ReadsPerBin + 1
  <2>1. \A k \in Bins \ {tail} : 2 * revolutions'[k] <= ReadsPerBin + 1
    BY <1>1, ReadingBound
  <2>2. 2 * revolutions'[tail] <= ReadsPerBin + 1
    BY <1>1, <1>2, <1>4, <1>5, <1>6 DEF RingType, ReadsDone
  <2> QED
    BY <2>1, <2>2
<1> QED
  BY <1>4, <1>6, <1>7 DEF RingInv, BinInv, BinBound, Bins

\* The bin that ends got its last reading, and the one that starts none.
LEMMA MoveWindowKeepsBound ==
  ASSUME RingInv, NEW adc, MoveWindow(adc)
  PROVE  RingInv'
<1> USE ControllerAssumption
<1>1. /\ Tick(adc) /\ readNo = 0
      /\ revolutions' = [CountsAfter(adc) EXCEPT ![Next1(tail)] = 0]
      /\ tail' = Next1(tail)
  BY DEF MoveWindow, ControlDue, Pushed
<1>2. RingType /\ tail \in Bins
  BY DEF RingInv, RingType
<1>3. /\ isClose' \in BOOLEAN
      /\ readNo' = IF readNo = ReadsPerBin - 1 THEN 0 ELSE readNo + 1
      /\ readNo' \in 0..(ReadsPerBin - 1)
  BY <1>1, <1>2, TickEffect
<1>4. Next1(tail) \in Bins
  <2>1. tail \in 0..(TimeWindowBins - 1) /\ TimeWindowBins \in Nat \ {0}
    BY <1>2 DEF Bins
  <2>2. Next1(tail) = IF tail = TimeWindowBins - 1 THEN 0 ELSE tail + 1
    BY <2>1, IncrementMod DEF Next1
  <2> QED
    BY <2>1, <2>2 DEF Bins
<1>5. CountsAfter(adc) \in [Bins -> Nat]
  BY <1>2, ReadingCounts
<1>6. RingType'
  BY <1>1, <1>3, <1>4, <1>5 DEF RingType, Bins
<1>7. 2 * CountsAfter(adc)[tail] <= ReadsPerBin + 1
  <2>1. ReadsDone = ReadsPerBin - 1
    BY <1>1 DEF ReadsDone
  <2>2. CountsAfter(adc)[tail] \in Nat
    BY <1>2, <1>5
  <2> QED
    BY <2>1, <2>2, ReadingBound
<1>8. \A k \in Bins : 2 * CountsAfter(adc)[k] <= ReadsPerBin + 1
  BY <1>7, ReadingBound
<1>9. \A k \in Bins : 2 * revolutions'[k] <= ReadsPerBin + 1
  BY <1>1, <1>4, <1>5, <1>8
<1>10. revolutions'[tail'] = 0
  BY <1>1, <1>4, <1>5
<1>11. 2 * revolutions'[tail'] <= ReadsDone' + (IF isClose' THEN 1 ELSE 0)
  <2>1. 2 * revolutions'[tail'] = 0
    BY <1>10
  <2>2. 0 <= ReadsDone' + 0 /\ 0 <= ReadsDone' + 1
    BY <1>3 DEF ReadsDone
  <2> QED
    BY <2>1, <2>2
<1> QED
  BY <1>6, <1>9, <1>11 DEF RingInv, BinInv, BinBound, Bins

\* The ring keeps its type and its bound in every behaviour.
LEMMA RingInvariant == Spec => []RingInv
<1>1. Init => RingInv
  BY RingInit
<1>2. RingInv /\ [Next]_vars => RingInv'
  <2> SUFFICES ASSUME RingInv, [Next]_vars PROVE RingInv'
    OBVIOUS
  <2>1. ASSUME NEW adc \in AdcReadings, HandleRead(adc)
        PROVE  RingInv'
    BY <2>1, HandleReadKeepsBound
  <2>2. ASSUME NEW adc \in AdcReadings,
               ShowThenDrive(adc) \/ ShowThenPanic(adc) \/ DriveThenShow(adc)
                 \/ TuneThenDrive(adc)
        PROVE  RingInv'
    <3>1. MoveWindow(adc)
      BY <2>2 DEF ShowThenDrive, ShowThenPanic, DriveThenShow, TuneThenDrive
    <3> QED
      BY <3>1, MoveWindowKeepsBound
  <2>3. CASE TimerExpires \/ WriteParams \/ UNCHANGED vars
    <3>1. UNCHANGED <<revolutions, tail, isClose, readNo>>
      BY <2>3 DEF TimerExpires, WriteParams, vars, ring, iteration
    <3> QED
      BY <3>1 DEF RingInv, RingType, BinInv, BinBound, ReadsDone, Bins
  <2> QED
    BY <2>1, <2>2, <2>3 DEF Next
<1> QED
  BY <1>1, <1>2, PTL DEF Spec

\* In every behaviour no bin counts more than half its readings, rounded up.
THEOREM CountsBounded == Spec => []BinInv
<1>1. RingInv => BinInv
  BY DEF RingInv
<1> QED
  BY <1>1, RingInvariant, PTL
-----------------------------------------------------------------------------
(* The performance counters *)

CountersType ==
  /\ readNo \in 0..(ReadsPerBin - 1) /\ binNo \in 0..(ControlFrequency - 1)
  /\ perfRead \in Nat /\ perfControl \in Nat

\* The counters hold no more samples than there were phases since the last report,
\* which is made by the tick that finds both numbers zero.
CountersInv ==
  /\ CountersType
  /\ perfRead <= (IF ReportDue THEN ControlFrequency * ReadsPerBin
                  ELSE binNo * ReadsPerBin + readNo) - 1
  /\ perfControl <= IF ReportDue THEN ControlFrequency - 1
                    ELSE IF ControlDue THEN binNo - 1 ELSE binNo

\* A step is a tick, or leaves the counters and the numbers of the iteration alone.
LEMMA StepIsTick ==
  ASSUME [Next]_vars
  PROVE  \/ \E adc \in AdcReadings : Tick(adc)
         \/ UNCHANGED <<impl, isClose, readings, iteration, perf>>
BY DEF Next, HandleRead, ShowThenDrive, ShowThenPanic, DriveThenShow, TuneThenDrive,
       MoveWindow, TimerExpires, WriteParams, vars, iteration, perf, tuning

\* A tick keeps the counters within their bounds.
LEMMA TickKeepsCounters ==
  ASSUME CountersInv, NEW adc, Tick(adc)
  PROVE  CountersInv'
<1> DEFINE R == ReadsPerBin
           F == ControlFrequency
<1>1. R \in Nat \ {0} /\ F \in Nat \ {0}
  BY ControllerAssumption
<1>2. /\ readNo \in 0..(R - 1) /\ binNo \in 0..(F - 1)
      /\ perfRead \in Nat /\ perfControl \in Nat
      /\ ReportDue = (readNo = 0 /\ binNo = 0)
      /\ perfRead <= (IF readNo = 0 /\ binNo = 0 THEN F * R ELSE binNo * R + readNo) - 1
      /\ perfControl <= IF readNo = 0 /\ binNo = 0 THEN F - 1
                        ELSE IF readNo = 0 THEN binNo - 1 ELSE binNo
  BY DEF CountersInv, CountersType, ReportDue, ControlDue
<1>3. readNo' = IF readNo = R - 1 THEN 0 ELSE readNo + 1
  BY <1>1, <1>2, IncrementMod DEF Tick
<1>4. binNo' = IF readNo' # 0 THEN binNo ELSE IF binNo = F - 1 THEN 0 ELSE binNo + 1
  BY <1>1, <1>2, IncrementMod DEF Tick
<1>5. IF readNo = 0 /\ binNo = 0 THEN perfRead' = 0 /\ perfControl' = 0
      ELSE /\ perfRead' \in {perfRead, perfRead + 1}
           /\ perfControl' \in IF readNo = 0 THEN {perfControl, perfControl + 1}
                               ELSE {perfControl}
  BY <1>2 DEF Tick, Sampled, ControlDue
<1> HIDE DEF R, F
<1>6. /\ binNo * R \in Nat /\ (binNo + 1) * R = binNo * R + R /\ 0 * R = 0
      /\ F * R \in Nat /\ (binNo = F - 1 => F * R = binNo * R + R)
      /\ F * R >= R
  <2>1. binNo \in Nat /\ F - 1 \in Nat
    BY <1>1, <1>2
  <2>2. (F - 1) * R \in Nat
    BY <1>1, <2>1
  <2>3. (F - 1) * R = F * R - R
    BY <1>1
  <2>4. binNo * R \in Nat /\ F * R \in Nat
    BY <1>1, <2>1
  <2>5. (binNo + 1) * R = binNo * R + R
    BY <1>1, <2>1
  <2> QED
    BY <1>1, <2>1, <2>2, <2>3, <2>4, <2>5
<1>7. /\ readNo' \in 0..(R - 1) /\ binNo' \in 0..(F - 1)
      /\ perfRead' \in Nat /\ perfControl' \in Nat
  BY <1>1, <1>2, <1>3, <1>4, <1>5
<1>8. perfRead' <= (IF readNo' = 0 /\ binNo' = 0 THEN F * R ELSE binNo' * R + readNo') - 1
  <2>1. CASE readNo = 0 /\ binNo = 0
    BY <1>1, <1>2, <1>3, <1>4, <1>5, <1>6, <2>1
  <2>2. CASE ~(readNo = 0 /\ binNo = 0) /\ readNo = R - 1
    <3>1. perfRead' <= binNo * R + readNo
      BY <1>2, <1>5, <1>6, <2>2
    <3>2. readNo' = 0 /\ (binNo' = 0 \/ binNo' = binNo + 1) /\ (binNo' = 0 => binNo = F - 1)
      BY <1>1, <1>2, <1>3, <1>4, <2>2
    <3>3. binNo' # 0 => binNo' * R = binNo * R + R
      BY <1>6, <3>2
    <3>4. perfRead' <= binNo * R + R - 1
      BY <2>2, <3>1
    <3>5. CASE binNo' = 0
      <4>1. perfRead' <= F * R - 1
        BY <1>1, <1>6, <1>7, <3>2, <3>4, <3>5
      <4> QED
        BY <3>2, <3>5, <4>1
    <3>6. CASE binNo' # 0
      <4> DEFINE b == binNo * R
                 bb == binNo' * R
      <4>1. bb = b + R /\ b \in Nat /\ perfRead' <= b + R - 1
        BY <1>6, <3>3, <3>4, <3>6
      <4> HIDE DEF b, bb
      <4>2. perfRead' <= bb - 1
        BY <1>1, <1>7, <4>1
      <4>3. binNo' * R + readNo' = binNo' * R
        BY <1>1, <1>6, <3>2, <3>3, <3>6
      <4> QED
        BY <3>6, <4>2, <4>3 DEF bb
    <3> QED
      BY <3>5, <3>6
  <2>3. CASE ~(readNo = 0 /\ binNo = 0) /\ readNo # R - 1
    BY <1>1, <1>2, <1>3, <1>4, <1>5, <1>6, <2>3
  <2> QED
    BY <2>1, <2>2, <2>3
<1>9. perfControl' <= IF readNo' = 0 /\ binNo' = 0 THEN F - 1
                      ELSE IF readNo' = 0 THEN binNo' - 1 ELSE binNo'
  BY <1>1, <1>2, <1>3, <1>4, <1>5
<1> QED
  BY <1>7, <1>8, <1>9 DEF CountersInv, CountersType, ReportDue, ControlDue, R, F

\* The counters are within their bounds in every behaviour.
LEMMA CountersInvariant == Spec => []CountersInv
<1>1. Init => CountersInv
  <2> SUFFICES ASSUME Init PROVE CountersInv
    OBVIOUS
  <2>1. /\ ReadsPerBin \in Nat \ {0} /\ ControlFrequency \in Nat \ {0}
        /\ 0 \in 0..(ReadsPerBin - 1) /\ 0 \in 0..(ControlFrequency - 1)
    BY ControllerAssumption
  <2>2. /\ readNo = IF ReadsPerBin = 1 THEN 0 ELSE 1
        /\ binNo = IF ReadsPerBin # 1 THEN 0 ELSE IF ControlFrequency = 1 THEN 0 ELSE 1
        /\ perfRead = 0 /\ perfControl = 0
    <3>1. /\ 1 % ReadsPerBin = IF ReadsPerBin = 1 THEN 0 ELSE 1
          /\ 1 % ControlFrequency = IF ControlFrequency = 1 THEN 0 ELSE 1
      BY <2>1, IncrementMod
    <3> QED
      BY <3>1 DEF Init
  <2>3. /\ 0 * ReadsPerBin = 0 /\ 1 * ReadsPerBin = ReadsPerBin
        /\ ReadsPerBin = 1 => ControlFrequency * ReadsPerBin = ControlFrequency
        /\ 1 * 1 = 1
    BY <2>1
  <2>4. ReadsPerBin # 1 => ~ReportDue /\ ~ControlDue
    BY <2>2 DEF ReportDue, ControlDue
  <2> QED
    BY <2>1, <2>2, <2>3, <2>4 DEF CountersInv, CountersType, ReportDue, ControlDue
<1>2. CountersInv /\ [Next]_vars => CountersInv'
  <2> SUFFICES ASSUME CountersInv, [Next]_vars PROVE CountersInv'
    OBVIOUS
  <2>1. CASE \E adc \in AdcReadings : Tick(adc)
    BY <2>1, TickKeepsCounters
  <2>2. CASE UNCHANGED <<iteration, perf>>
    BY <2>2 DEF CountersInv, CountersType, ReportDue, ControlDue, iteration, perf
  <2> QED
    BY <2>1, <2>2, StepIsTick
<1> QED
  BY <1>1, <1>2, PTL DEF Spec

\* No implementation drops a performance sample, whatever the numbers of reads and
\* of bins: the counters hold two reports' worth.
THEOREM SamplesKept == Spec => []PerfNeverFull
<1>1. CountersInv => PerfNeverFull
  <2> SUFFICES ASSUME CountersInv PROVE PerfNeverFull
    OBVIOUS
  <2> DEFINE R == ReadsPerBin
             F == ControlFrequency
  <2>1. /\ R \in Nat \ {0} /\ F \in Nat \ {0}
        /\ readNo \in 0..(R - 1) /\ binNo \in 0..(F - 1)
        /\ perfRead \in Nat /\ perfControl \in Nat
        /\ perfRead <= F * R - 1 \/ perfRead <= binNo * R + readNo - 1
        /\ perfControl <= F - 1 \/ perfControl <= binNo
    BY ControllerAssumption DEF CountersInv, CountersType, ControlDue
  <2> HIDE DEF R, F
  <2>2. /\ (F - 1 - binNo) * R \in Nat
        /\ (F - 1 - binNo) * R = F * R - R - binNo * R
        /\ F * R \in Nat /\ binNo * R \in Nat /\ 2 * R * F = 2 * (F * R)
    <3>1. F - 1 - binNo \in Nat
      BY <2>1
    <3>2. (F - 1 - binNo) * R \in Nat
      BY <2>1, <3>1
    <3>3. (F - 1 - binNo) * R = F * R - R - binNo * R
      BY <2>1
    <3> QED
      BY <2>1, <3>2, <3>3
  <2>3. perfRead < 2 * R * F /\ perfControl < 2 * F
    BY <2>1, <2>2
  <2> QED
    BY <2>3 DEF PerfNeverFull, PerfReadCapacity, PerfControlCapacity, R, F
<1> QED
  BY <1>1, CountersInvariant, PTL

-----------------------------------------------------------------------------
(* The readings of Tune, and their range *)

Reading == [level : Levels, counted : BOOLEAN]
ReadingsType == readings \in Seq(Reading) /\ Len(readings) <= ReadingsCapacity

\* A set of numbers up to a bound has a least and a greatest one.
LEMMA Extremes ==
  ASSUME NEW n \in Nat, NEW T \in SUBSET (0..n), T # {}
  PROVE  Min(T) \in T /\ Max(T) \in T
<1>1. \E x \in T : \A y \in T : x <= y
  <2>1. T \in SUBSET Nat
    OBVIOUS
  <2> QED
    BY <2>1, Least
<1>2. \E x \in T : \A y \in T : x >= y
  <2> DEFINE D == {n - x : x \in T}
  <2>1. D \in SUBSET Nat /\ D # {}
    <3>1. \A x \in T : n - x \in Nat
      OBVIOUS
    <3>2. PICK x \in T : TRUE
      OBVIOUS
    <3>3. n - x \in D
      OBVIOUS
    <3> QED
      BY <3>1, <3>3
  <2>2. PICK d \in D : \A e \in D : d <= e
    <3> HIDE DEF D
    <3> QED
      BY <2>1, Least
  <2>3. PICK x \in T : d = n - x
    BY <2>2
  <2>4. \A y \in T : n - x <= n - y
    BY <2>2, <2>3
  <2> QED
    BY <2>4
<1>3. Min(T) \in T
  BY <1>1, Zenon DEF Min
<1>4. Max(T) \in T
  BY <1>2, Zenon DEF Max
<1> QED
  BY <1>3, <1>4

\* A tick keeps the readings within their capacity, whether its own fails or not.
LEMMA ReadingsInductive ==
  ASSUME ReadingsType, NEW adc \in AdcReadings, Tick(adc)
  PROVE  ReadingsType'
<1>0. ReadingsCapacity \in Nat \ {0}
  BY ControllerAssumption DEF ReadingsCapacity
<1> DEFINE count == GoneClose(adc)
           s == Append(readings, [level |-> adc, counted |-> count])
<1>1. CASE ~(impl = "Tune" /\ adc # Failed)
  <2>1. readings' = readings
    BY <1>1 DEF Tick, ReadingsAfter
  <2> QED
    BY <2>1 DEF ReadingsType
<1>2. CASE impl = "Tune" /\ adc # Failed
  <2>1. readings' = IF Len(s) > ReadingsCapacity THEN Tail(s) ELSE s
    BY <1>2, Zenon DEF Tick, ReadingsAfter, LastReadings
  <2>2. count \in BOOLEAN /\ adc \in Levels
    BY <1>2, Zenon DEF GoneClose, Levels
  <2> HIDE DEF count
  <2>3. [level |-> adc, counted |-> count] \in Reading
    BY <2>2 DEF Reading
  <2>4. s \in Seq(Reading) /\ Len(s) = Len(readings) + 1
    BY <2>3 DEF ReadingsType
  <2> HIDE DEF s
  <2>5. s # <<>> /\ Tail(s) \in Seq(Reading) /\ Len(Tail(s)) = Len(s) - 1
    BY <2>4, HeadTailProperties DEF ReadingsType
  <2> QED
    BY <1>0, <2>1, <2>4, <2>5 DEF ReadingsType
<1> QED
  BY <1>1, <1>2

\* The readings stay within their capacity, whichever fail.
LEMMA ReadingsInvariant == Spec => []ReadingsType
<1> USE ControllerAssumption
<1>1. ReadingsCapacity \in Nat \ {0}
  BY DEF ReadingsCapacity
<1>2. Init => ReadingsType
  BY <1>1 DEF Init, ReadingsType
<1>3. ReadingsType /\ [Next]_vars => ReadingsType'
  <2> SUFFICES ASSUME ReadingsType, [Next]_vars PROVE ReadingsType'
    OBVIOUS
  <2>1. CASE UNCHANGED readings
    BY <2>1 DEF ReadingsType
  <2>2. ASSUME NEW adc \in AdcReadings, Tick(adc)
        PROVE  ReadingsType'
    BY <2>2, ReadingsInductive
  <2> QED
    BY <2>1, <2>2, StepIsTick
<1> QED
  BY <1>2, <1>3, PTL DEF Spec

-----------------------------------------------------------------------------
(* Feedback, the registers and the duty cycle *)

ParamsType ==
  params \in IF impl = "Tune" THEN TuneParams \cup {DefaultTuneParams}
             ELSE Params \cup {DefaultParams}

\* A tick with a window that moves on, as every implementation makes one.
ControlPhase(adc) ==
  ShowThenDrive(adc) \/ ShowThenPanic(adc) \/ DriveThenShow(adc) \/ TuneThenDrive(adc)

\* A step is one of the read phase alone, a control phase, or changes parameters and
\* expirations only.
LEMMA StepCases ==
  ASSUME [Next]_vars
  PROVE  \/ \E adc \in AdcReadings : HandleRead(adc)
         \/ \E adc \in AdcReadings : ControlPhase(adc)
         \/ TimerExpires
         \/ WriteParams
         \/ UNCHANGED vars
BY DEF Next, ControlPhase

\* The implementation never changes.
LEMMA ImplFixed ==
  ASSUME [Next]_vars
  PROVE  impl' = impl
BY DEF Next, HandleRead, ShowThenDrive, ShowThenPanic, DriveThenShow, TuneThenDrive,
       MoveWindow, Tick, TimerExpires, WriteParams, vars

\* A total of counts is a natural number.
LEMMA TotalType ==
  ASSUME NEW revs \in [Bins -> Nat]
  PROVE  Total(revs) \in Nat
<1>1. IsFiniteSet(Bins)
  <2>1. 0 \in Int /\ TimeWindowBins - 1 \in Int
    BY ControllerAssumption
  <2> QED
    BY <2>1, FS_Interval, Zenon DEF Bins
<1>2. Total(revs) = Sums(revs, Bins)[Bins]
  BY TotalIsSum
<1>3. Sums(revs, Bins) \in [SUBSET Bins -> Nat]
  BY <1>1, SumsRecursion
<1> QED
  BY <1>2, <1>3

ConstantsInv == impl \in Impls /\ ParamsType

\* The parameters are what clients may write, or the first ones.
LEMMA ConstantsInvariant == Spec => []ConstantsInv
<1>1. Init => ConstantsInv
  BY DEF Init, ConstantsInv, ParamsType
<1>2. ConstantsInv /\ [Next]_vars => ConstantsInv'
  <2> SUFFICES ASSUME ConstantsInv, [Next]_vars PROVE ConstantsInv'
    OBVIOUS
  <2>1. impl' = impl
    BY ImplFixed
  <2>2. \/ params' = params
        \/ params' \in IF impl = "Tune" THEN TuneParams ELSE Params
    BY DEF Next, HandleRead, ShowThenDrive, ShowThenPanic, DriveThenShow, TuneThenDrive,
       MoveWindow, Tick, TimerExpires, WriteParams, vars
  <2> QED
    BY <2>1, <2>2 DEF ConstantsInv, ParamsType
<1> QED
  BY <1>1, <1>2, PTL DEF Spec

\* The registers of the PID controllers are floats.
LEMMA ParamsAreFloats ==
  ASSUME ConstantsInv, impl # "Tune"
  PROVE  /\ params.target \in Float /\ params.factor \in Float
         /\ params.ti \in Float /\ params.td \in Float
BY ControllerAssumption DEF ConstantsInv, ParamsType, DefaultParams, Float, NaN

OutputsInv ==
  /\ thresholds \in ThresholdPair
  /\ feedback \in FeedbackOfFloats
  /\ shown \in [frequency : Nat, signal : Float,
                range : [min : Levels \cup {NoMin}, max : Levels \cup {NoMax}]]
  /\ duty \in {0, 1}
  /\ expirations \in 0..MaxExpirations

\* The result of a control phase is made of floats.
LEMMA ControlType ==
  ASSUME ConstantsInv, OutputsInv, impl # "Tune", NEW total,
         NEW control \in Control(total)
  PROVE  control \in ControlOfFloats
<1>1. Sign(total) \in Float
  BY DEF Sign, Float, NaN
<1>2. /\ params.target \in Float /\ params.factor \in Float
      /\ params.ti \in Float /\ params.td \in Float
  BY ParamsAreFloats
<1> QED
  BY <1>1, <1>2, RawControlType DEF Control, FrequencyOf, OutputsInv

\* A range is of readings, or shows that there are none.
LEMMA RangeType ==
  ASSUME NEW kept \in Seq(Reading)
  PROVE  RangeOf(kept) \in [min : Levels \cup {NoMin}, max : Levels \cup {NoMax}]
<1> DEFINE L == {kept[k].level : k \in DOMAIN kept}
<1>1. L \in SUBSET Levels
  <2>1. \A k \in DOMAIN kept : kept[k] \in Reading
    OBVIOUS
  <2> QED
    BY <2>1 DEF Reading
<1> HIDE DEF L
<1>2. AdcMax \in Nat /\ NoMin = AdcMax + 1 /\ NoMax = 0 /\ Levels \in SUBSET (0..AdcMax)
  <2>1. AdcMax \in Nat /\ NoMin = AdcMax + 1 /\ NoMax = 0
    BY DEF AdcMax, NoMin, NoMax
  <2>2. Levels \in SUBSET (0..AdcMax)
    BY ControllerAssumption DEF Levels
  <2> QED
    BY <2>1, <2>2
<1>3. Min(L \cup {NoMin}) \in L \cup {NoMin}
  <2>1. L \cup {NoMin} \in SUBSET (0..(AdcMax + 1)) /\ AdcMax + 1 \in Nat
    BY <1>1, <1>2
  <2> QED
    BY <2>1, Extremes
<1>4. Max(L \cup {NoMax}) \in L \cup {NoMax}
  <2>1. L \cup {NoMax} \in SUBSET (0..AdcMax)
    BY <1>1, <1>2
  <2> QED
    BY <1>2, <2>1, Extremes
<1>5. RangeOf(kept) = [min |-> Min(L \cup {NoMin}), max |-> Max(L \cup {NoMax})]
  BY Zenon DEF RangeOf, L
<1> QED
  BY <1>1, <1>3, <1>4, <1>5

\* What a control phase computes is of its type, whatever it is.
LEMMA ControlPhaseType ==
  ASSUME RingInv, ConstantsInv, ReadingsType', OutputsInv,
         NEW adc \in AdcReadings, ControlPhase(adc)
  PROVE  OutputsInv'
<1> DEFINE total == Total(CountsAfter(adc))
           Ranges == [min : Levels \cup {NoMin}, max : Levels \cup {NoMax}]
<1>1. total \in Nat
  BY ReadingCounts, TotalType DEF RingInv
<1>2. NoRange \in Ranges
  BY DEF NoRange
<1>3. expirations' \in 0..MaxExpirations
  <2>1. expirations' = 0
    BY DEF ControlPhase, ShowThenDrive, ShowThenPanic, DriveThenShow, TuneThenDrive,
       MoveWindow, Tick
  <2> QED
    BY <2>1, ControllerAssumption
<1> HIDE DEF total, Ranges
<1>4. ASSUME NEW control \in Control(total), NEW signal \in Limited(control.signal),
             impl # "Tune"
      PROVE  /\ control \in ControlOfFloats /\ Sanitised(control) \in FeedbackOfFloats
             /\ [delta |-> control.delta, integ |-> control.integ] \in FeedbackOfFloats
             /\ signal \in Float /\ DutyOf(signal) \in SUBSET {0, 1}
             /\ Shown(total, signal) \in [frequency : Nat, signal : Float, range : Ranges]
  <2>1. control \in ControlOfFloats
    BY <1>4, ControlType
  <2>2. control.signal \in Float /\ control.delta \in Float /\ control.integ \in Float
    BY <2>1 DEF ControlOfFloats
  <2>3. signal \in {0, 1, NaN}
    BY <2>2, LimitedType
  <2>4. signal \in Float /\ DutyOf(signal) \in SUBSET {0, 1}
    BY <2>3 DEF Float, NaN, DutyOf
  <2>5. Sanitised(control) \in FeedbackOfFloats
    BY <2>2 DEF Sanitised, FiniteOrZero, FeedbackOfFloats, Float, NaN
  <2> QED
    BY <1>1, <1>2, <2>1, <2>2, <2>4, <2>5 DEF Shown, FeedbackOfFloats
<1>5. CASE ShowThenDrive(adc)
  <2>1. impl # "Tune" /\ thresholds' = thresholds
    BY <1>5 DEF ShowThenDrive
  <2>2. PICK control \in Control(total) : \E signal \in Limited(control.signal) :
          /\ shown' = Shown(total, signal)
          /\ \/ duty' \in DutyOf(signal) /\ feedback' = Sanitised(control)
             \/ UNCHANGED <<duty, feedback>>
    BY <1>5, Zenon DEF ShowThenDrive, total
  <2> QED
    BY <1>3, <1>4, <2>1, <2>2 DEF OutputsInv, Ranges
<1>6. CASE ShowThenPanic(adc)
  <2>1. impl # "Tune" /\ UNCHANGED <<thresholds, duty, feedback>>
    BY <1>6 DEF ShowThenPanic
  <2>2. PICK control \in Control(total) :
          NaN \in Limited(control.signal) /\ shown' = Shown(total, NaN)
    BY <1>6, Zenon DEF ShowThenPanic, total
  <2> QED
    BY <1>3, <1>4, <2>1, <2>2 DEF OutputsInv, Ranges
<1>7. CASE DriveThenShow(adc)
  <2>1. impl # "Tune" /\ thresholds' = thresholds
    BY <1>7 DEF DriveThenShow
  <2>2. CASE UNCHANGED outputs
    BY <1>3, <2>1, <2>2 DEF OutputsInv, outputs
  <2>3. CASE ~UNCHANGED outputs
    <3>1. PICK control \in Control(total) : \E signal \in Limited(control.signal) :
            /\ duty' \in DutyOf(signal)
            /\ shown' = Shown(total, signal)
            /\ feedback' = [delta |-> control.delta, integ |-> control.integ]
      BY <1>7, <2>3, Zenon DEF DriveThenShow, total
    <3> QED
      BY <1>3, <1>4, <2>1, <3>1 DEF OutputsInv, Ranges
  <2> QED
    BY <2>2, <2>3
<1>8. CASE TuneThenDrive(adc)
  <2>1. params \in [signal : Float, close : Int, far : Int]
    BY <1>8, ControllerAssumption
       DEF TuneThenDrive, ConstantsInv, ParamsType, DefaultTuneParams, Float, NaN
  <2>2. /\ thresholds' = [close |-> params.close, far |-> params.far]
        /\ shown' = [frequency |-> total, signal |-> params.signal, range |-> RangeOf(readings')]
        /\ duty' \in TuneDutyOf(params.signal) \cup {duty}
        /\ feedback' = feedback
    BY <1>8, Zenon DEF TuneThenDrive, total
  <2>3. RangeOf(readings') \in Ranges
    BY RangeType DEF ReadingsType, Ranges
  <2>4. TuneDutyOf(params.signal) \in SUBSET {0, 1}
    BY DEF TuneDutyOf
  <2> QED
    BY <1>1, <1>3, <2>1, <2>2, <2>3, <2>4 DEF OutputsInv, Ranges, ThresholdPair
<1> QED
  BY <1>5, <1>6, <1>7, <1>8 DEF ControlPhase

\* The outputs keep their types in every behaviour.
LEMMA OutputsInvariant == Spec => []OutputsInv
<1>1. Init => OutputsInv
  <2> SUFFICES ASSUME Init PROVE OutputsInv
    OBVIOUS
  <2>1. 0 \in 0..MaxExpirations /\ Thresholds \in ThresholdPair
    BY ControllerAssumption
  <2> QED
    BY <2>1 DEF Init, OutputsInv, Shown, NoRange, FeedbackOfFloats, Float, NaN
<1>2. RingInv /\ ConstantsInv /\ ReadingsType' /\ OutputsInv /\ [Next]_vars => OutputsInv'
  <2> SUFFICES ASSUME RingInv, ConstantsInv, ReadingsType', OutputsInv, [Next]_vars
               PROVE  OutputsInv'
    OBVIOUS
  <2> USE ControllerAssumption
  <2>1. ASSUME NEW adc \in AdcReadings, HandleRead(adc)
        PROVE  OutputsInv'
    BY <2>1 DEF HandleRead, Tick, outputs, OutputsInv
  <2>2. ASSUME NEW adc \in AdcReadings, ControlPhase(adc)
        PROVE  OutputsInv'
    BY <2>2, ControlPhaseType
  <2>3. CASE TimerExpires
    BY <2>3 DEF TimerExpires, tuning, outputs, OutputsInv
  <2>4. CASE WriteParams
    BY <2>4 DEF WriteParams, tuning, outputs, OutputsInv
  <2>5. CASE UNCHANGED vars
    BY <2>5 DEF vars, OutputsInv
  <2> QED
    BY <2>1, <2>2, <2>3, <2>4, <2>5, StepCases
<1> QED
  BY <1>1, <1>2, RingInvariant, ConstantsInvariant, ReadingsInvariant, PTL DEF Spec

\* Every variable keeps its type in every behaviour.
THEOREM TypeCorrect == Spec => []TypeOK
<1> DEFINE Flag == panicked \in BOOLEAN
<1>1. Init => Flag
  BY Zenon DEF Init
<1>2. Flag /\ [Next]_vars => Flag'
  BY Zenon DEF Next, HandleRead, ShowThenDrive, ShowThenPanic, DriveThenShow, TuneThenDrive,
     TimerExpires, WriteParams, vars
<1>3. Flag /\ RingInv /\ CountersInv /\ ConstantsInv /\ ReadingsType /\ OutputsInv => TypeOK
  BY DEF RingInv, RingType, CountersInv, CountersType, ConstantsInv, ParamsType, ReadingsType,
     Reading, OutputsInv, FeedbackOfFloats, TypeOK
<1> QED
  BY <1>1, <1>2, <1>3, RingInvariant, CountersInvariant, ConstantsInvariant,
     ReadingsInvariant, OutputsInvariant, PTL DEF Spec

\* In C and Rust nothing infinite and no NaN feeds the next control phase, whatever
\* clients wrote and whatever the formula made of it.
THEOREM FeedbackStaysFinite == Spec => []FeedbackFinite
<1>1. Init => FeedbackFinite
  BY DEF Init, FeedbackFinite, IsFinite
<1>2. FeedbackFinite /\ [Next]_vars => FeedbackFinite'
  <2> SUFFICES ASSUME FeedbackFinite, [Next]_vars, impl' \in {"C", "Rust"}
               PROVE  IsFinite(feedback'.delta) /\ IsFinite(feedback'.integ)
    BY DEF FeedbackFinite, IsFinite
  <2>1. impl' = impl
    BY ImplFixed
  <2>2. feedback' = feedback \/ \E control : feedback' = Sanitised(control)
    <3>1. ASSUME NEW adc, ShowThenDrive(adc)
          PROVE  feedback' = feedback \/ \E control : feedback' = Sanitised(control)
      BY <3>1, Zenon DEF ShowThenDrive
    <3> QED
      BY <2>1, <3>1 DEF Next, HandleRead, ShowThenPanic, DriveThenShow, TuneThenDrive,
         TimerExpires, WriteParams, outputs, vars
  <2> QED
    BY <2>1, <2>2, SanitisedFinite DEF FeedbackFinite, IsFinite, Finite
<1> QED
  BY <1>1, <1>2, PTL DEF Spec

-----------------------------------------------------------------------------
(* The sliding window *)

N == TimeWindowBins

\* The counts seen as a window that ends with the bin t, and where its bins are.
Place(t, k) == (t + k) % N
WindowOf(revs, t) == [k \in 1..N |-> revs[Place(t, k)]]

\* Counting round less than twice.
LEMMA RoundMod ==
  ASSUME NEW n \in Nat \ {0}, NEW k \in 0..(2 * n - 1)
  PROVE  k % n = IF k < n THEN k ELSE k - n
OBVIOUS

\* Where the bins of the window that ends with t are.
LEMMA Places ==
  ASSUME NEW t \in Bins, NEW k \in 1..N
  PROVE  /\ Place(t, k) \in Bins
         /\ Place(t, k) = IF t + k < N THEN t + k ELSE t + k - N
<1>1. N \in Nat \ {0} /\ t \in 0..(N - 1)
  BY ControllerAssumption DEF N, Bins
<1>2. t + k \in 0..(2 * N - 1)
  BY <1>1
<1>3. Place(t, k) = IF t + k < N THEN t + k ELSE t + k - N
  <2> DEFINE j == t + k
  <2>1. j \in 0..(2 * N - 1)
    BY <1>2
  <2> HIDE DEF j
  <2>2. j % N = IF j < N THEN j ELSE j - N
    BY <1>1, <2>1, RoundMod
  <2>3. Place(t, k) = j % N
    BY Zenon DEF Place, j
  <2> QED
    BY <1>1, <2>1, <2>2, <2>3 DEF j
<1> QED
  BY <1>1, <1>3 DEF Bins, N

\* The window holds the same counts as the ring.
LEMMA SameTotal ==
  ASSUME NEW revs \in [Bins -> Nat], NEW t \in Bins
  PROVE  W!Total(WindowOf(revs, t)) = Total(revs)
<1> DEFINE w == WindowOf(revs, t)
           b == [k \in 1..N |-> Place(t, k)]
<1>1. N \in Nat \ {0} /\ Bins = 0..(N - 1) /\ t \in 0..(N - 1)
  BY ControllerAssumption DEF N, Bins
<1>2. IsFiniteSet(Bins) /\ IsFiniteSet(1..N)
  <2>1. 0 \in Int /\ 1 \in Int /\ N \in Int /\ N - 1 \in Int
    BY <1>1
  <2> QED
    BY <1>1, <2>1, FS_Interval, Zenon
<1>3. \A k \in 1..N : b[k] \in Bins /\ b[k] = IF t + k < N THEN t + k ELSE t + k - N
  BY Places
<1>4. b \in [1..N -> Bins]
  BY Places
<1> HIDE DEF b
<1>5. \A k, l \in 1..N : b[k] = b[l] => k = l
  <2>1. SUFFICES ASSUME NEW k \in 1..N, NEW l \in 1..N, b[k] = b[l]
                 PROVE  k = l
    OBVIOUS
  <2>2. /\ (IF t + k < N THEN t + k ELSE t + k - N) = (IF t + l < N THEN t + l ELSE t + l - N)
        /\ N \in Nat /\ t \in Int /\ k \in Int /\ l \in Int /\ t >= 0 /\ t < N
        /\ k >= 1 /\ k <= N /\ l >= 1 /\ l <= N
    BY <1>1, <1>3, <2>1
  <2> QED
    BY ONLY <2>2
<1>6. ASSUME NEW j \in Bins
      PROVE  \E k \in 1..N : b[k] = j
  <2>1. CASE j > t
    <3>1. j - t \in 1..N /\ b[j - t] = j
      BY <1>1, <1>3, <2>1
    <3> QED
      BY <3>1
  <2>2. CASE ~(j > t)
    <3>1. j - t + N \in 1..N /\ b[j - t + N] = j
      BY <1>1, <1>3, <2>2
    <3> QED
      BY <3>1
  <2> QED
    BY <2>1, <2>2
<1>7. w \in [1..N -> Nat] /\ \A k \in 1..N : w[k] = revs[b[k]]
  BY Places DEF WindowOf, b
<1> HIDE DEF w
<1>8. Sums(w, 1..N)[1..N] = Sums(revs, Bins)[Bins]
  <2> DEFINE I == 1..N
  <2>1. /\ IsFiniteSet(I) /\ w \in [I -> Nat] /\ b \in [I -> Bins]
        /\ \A k, l \in I : b[k] = b[l] => k = l
        /\ \A k \in I : w[k] = revs[b[k]]
        /\ \A j \in Bins : \E k \in I : b[k] = j
    BY <1>2, <1>4, <1>5, <1>6, <1>7
  <2> HIDE DEF I
  <2>2. Sums(w, I)[I] = Sums(revs, Bins)[Bins]
    BY <1>2, <2>1, SumsRenamed
  <2> QED
    BY <2>2 DEF I
<1>9. Total(w) = Sums(w, 1..N)[1..N] /\ Total(revs) = Sums(revs, Bins)[Bins]
  BY <1>7, TotalIsSum
<1>10. W!Total(w) = Total(w)
  BY Zenon DEF W!Total, W!FoldFunction, W!FoldFunctionOnSet, W!MapThenFoldSet,
     Total, FoldFunction, FoldFunctionOnSet, MapThenFoldSet
<1> QED
  BY <1>8, <1>9, <1>10 DEF w

\* A reading counts in the last bin of the window, or nowhere.
LEMMA WindowReads ==
  ASSUME RingType, NEW adc
  PROVE  WindowOf(CountsAfter(adc), tail) \in W!Read
<1>1. N \in Nat \ {0} /\ tail \in Bins /\ tail \in 0..(N - 1)
  BY ControllerAssumption DEF RingType, N, Bins
<1>2. Window = WindowOf(revolutions, tail)
  BY DEF Window, WindowOf, Place, N
<1>3. W!Read = {Window, [Window EXCEPT ![N] = Window[N] + 1]}
  BY DEF W!Read, N
<1>4. CASE ~GoneClose(adc)
  BY <1>2, <1>3, <1>4 DEF CountsAfter
<1>5. CASE GoneClose(adc)
  <2>1. CountsAfter(adc) = [revolutions EXCEPT ![tail] = revolutions[tail] + 1]
    BY <1>5 DEF CountsAfter
  <2>2. \A k \in 1..N : Place(tail, k) \in Bins /\ (Place(tail, k) = tail <=> k = N)
    <3>1. \A k \in 1..N : /\ Place(tail, k) \in Bins
                          /\ Place(tail, k) = IF tail + k < N THEN tail + k ELSE tail + k - N
      BY <1>1, Places
    <3> QED
      BY <1>1, <3>1
  <2>3. DOMAIN revolutions = Bins
    BY DEF RingType
  <2>4. \A k \in 1..N : CountsAfter(adc)[Place(tail, k)]
                          = IF k = N THEN revolutions[tail] + 1 ELSE revolutions[Place(tail, k)]
    BY <1>1, <2>1, <2>2, <2>3
  <2>5. Window = [k \in 1..N |-> revolutions[Place(tail, k)]]
    BY <1>2 DEF WindowOf
  <2>6. Window[N] = revolutions[tail]
    BY <1>1, <2>2, <2>5
  <2>7. WindowOf(CountsAfter(adc), tail) = [Window EXCEPT ![N] = Window[N] + 1]
    BY <2>2, <2>4, <2>5, <2>6 DEF WindowOf
  <2> QED
    BY <1>3, <2>7
<1> QED
  BY <1>4, <1>5

\* The push moves every count one place down the window; an empty bin comes last.
LEMMA WindowShifts ==
  ASSUME NEW revs \in [Bins -> Nat], NEW t \in Bins
  PROVE  LET w == WindowOf(revs, t)
             v == WindowOf([revs EXCEPT ![Next1(t)] = 0], Next1(t))
         IN  /\ w \in [1..N -> Nat] /\ v \in [1..N -> Nat]
             /\ v[N] = 0
             /\ \A k \in 1..(N - 1) : v[k] = w[k + 1]
<1> DEFINE w == WindowOf(revs, t)
           v == WindowOf([revs EXCEPT ![Next1(t)] = 0], Next1(t))
           u == Next1(t)
<1>1. N \in Nat \ {0} /\ Bins = 0..(N - 1) /\ t \in 0..(N - 1)
  BY ControllerAssumption DEF N, Bins
<1>2. u = (IF t = N - 1 THEN 0 ELSE t + 1) /\ u \in Bins
  <2>1. u = Place(t, 1)
    BY Zenon DEF Next1, Place, N
  <2> HIDE DEF u
  <2> QED
    BY <1>1, <2>1, Places
<1> HIDE DEF u
<1>3. \A k \in 1..N : /\ Place(u, k) \in Bins
                      /\ Place(u, k) = IF u + k < N THEN u + k ELSE u + k - N
  BY <1>2, Places
<1>4. \A k \in 1..N : /\ Place(t, k) \in Bins
                      /\ Place(t, k) = IF t + k < N THEN t + k ELSE t + k - N
  BY Places
<1>5. \A k \in 1..N : Place(u, k) = u <=> k = N
  BY <1>1, <1>2, <1>3
<1>6. \A k \in 1..(N - 1) : Place(u, k) = Place(t, k + 1)
  <2> SUFFICES ASSUME NEW k \in 1..(N - 1) PROVE Place(u, k) = Place(t, k + 1)
    OBVIOUS
  <2>1. k \in 1..N /\ k + 1 \in 1..N
    BY <1>1
  <2>2. Place(u, k) = IF u + k < N THEN u + k ELSE u + k - N
    BY <1>3, <2>1
  <2>3. Place(t, k + 1) = IF t + (k + 1) < N THEN t + (k + 1) ELSE t + (k + 1) - N
    BY <1>4, <2>1
  <2> QED
    BY <1>1, <1>2, <2>2, <2>3
<1>7. w \in [1..N -> Nat] /\ \A k \in 1..N : w[k] = revs[Place(t, k)]
  BY <1>4 DEF WindowOf
<1>8. v = [k \in 1..N |-> [revs EXCEPT ![u] = 0][Place(u, k)]]
  BY DEF WindowOf, u
<1>9. /\ v[N] = 0
      /\ \A k \in 1..(N - 1) : v[k] = revs[Place(t, k + 1)]
  <2> HIDE DEF v
  <2>1. \A k \in 1..N : v[k] = [revs EXCEPT ![u] = 0][Place(u, k)]
    BY <1>8
  <2>2. \A j \in Bins : [revs EXCEPT ![u] = 0][j] = IF j = u THEN 0 ELSE revs[j]
    BY <1>2
  <2>3. \A k \in 1..N : v[k] = IF k = N THEN 0 ELSE revs[Place(u, k)]
    BY <1>3, <1>5, <2>1, <2>2
  <2> QED
    BY <1>1, <1>6, <2>3
<1>10. v \in [1..N -> Nat]
  <2>1. [revs EXCEPT ![u] = 0] \in [Bins -> Nat]
    BY <1>2
  <2> DEFINE r == [revs EXCEPT ![u] = 0]
  <2> HIDE DEF r
  <2>2. \A k \in 1..N : r[Place(u, k)] \in Nat
    BY <1>3, <2>1 DEF r
  <2> QED
    BY <1>8, <2>2 DEF r
<1>11. \A k \in 1..(N - 1) : k + 1 \in 1..N
  BY <1>1
<1> HIDE DEF w, v
<1> QED
  BY <1>7, <1>9, <1>10, <1>11 DEF w, v, u

\* So the ring is a window that loses its head and gets a count of none at its end.
LEMMA WindowMoves ==
  ASSUME NEW revs \in [Bins -> Nat], NEW t \in Bins
  PROVE  WindowOf([revs EXCEPT ![Next1(t)] = 0], Next1(t)) = W!Moved(WindowOf(revs, t))
<1> DEFINE w == WindowOf(revs, t)
           v == WindowOf([revs EXCEPT ![Next1(t)] = 0], Next1(t))
<1>1. N \in Nat \ {0}
  BY ControllerAssumption DEF N
<1>2. /\ w \in [1..N -> Nat] /\ v \in [1..N -> Nat]
      /\ v[N] = 0
      /\ \A k \in 1..(N - 1) : v[k] = w[k + 1]
  BY WindowShifts, Zenon
<1> HIDE DEF w, v
<1>3. /\ w \in Seq(Nat) /\ Len(w) = N /\ v \in Seq(Nat) /\ Len(v) = N
  <2>1. w \in Seq(Nat) /\ Len(w) = N
    BY <1>1, <1>2
  <2>2. v \in Seq(Nat) /\ Len(v) = N
    BY <1>1, <1>2
  <2> QED
    BY <2>1, <2>2
<1>4. Append(Tail(w), 0) = v
  <2>1. w # <<>>
    BY <1>1, <1>3
  <2>2. Tail(w) \in Seq(Nat) /\ Len(Tail(w)) = N - 1 /\ \A k \in 1..(N - 1) : Tail(w)[k] = w[k + 1]
    BY <1>1, <1>3, <2>1, HeadTailProperties
  <2>3. /\ Append(Tail(w), 0) \in Seq(Nat) /\ Len(Append(Tail(w), 0)) = N
        /\ \A k \in 1..(N - 1) : Append(Tail(w), 0)[k] = Tail(w)[k]
        /\ Append(Tail(w), 0)[N] = 0
    BY <1>1, <2>2
  <2>4. \A k \in 1..N : Append(Tail(w), 0)[k] = v[k]
    <3> SUFFICES ASSUME NEW k \in 1..N PROVE Append(Tail(w), 0)[k] = v[k]
      OBVIOUS
    <3>1. CASE k = N
      BY <1>2, <2>3, <3>1
    <3>2. CASE k # N
      <4>1. k \in 1..(N - 1) /\ k + 1 \in 1..N
        BY <1>1, <3>2
      <4>2. Append(Tail(w), 0)[k] = w[k + 1]
        BY <2>2, <2>3, <4>1
      <4> QED
        BY <1>2, <4>1, <4>2
    <3> QED
      BY <3>1, <3>2
  <2> QED
    BY <1>3, <2>3, <2>4, SeqEqual
<1> QED
  BY <1>4 DEF W!Moved, w, v


\* A step of the controller is a step of the window, or none.
LEMMA WindowStep ==
  ASSUME RingInv, [Next]_vars
  PROVE  [W!Next]_(W!vars)
<1>1. Window = WindowOf(revolutions, tail) /\ Window' = WindowOf(revolutions', tail')
  BY DEF Window, WindowOf, Place, N
<1>2. (impl = "Zig")' = (impl = "Zig")
  BY ImplFixed
<1>3. RingType /\ tail \in Bins
  BY DEF RingInv, RingType
<1>4. ASSUME NEW adc \in AdcReadings, HandleRead(adc)
      PROVE  W!Count
  <2>1. revolutions' = CountsAfter(adc) /\ tail' = tail /\ shown' = shown
    BY <1>4 DEF HandleRead, outputs
  <2>2. WindowOf(CountsAfter(adc), tail) \in W!Read
    BY <1>3, WindowReads
  <2> QED
    BY <1>1, <2>1, <2>2 DEF W!Count
<1>5. ASSUME NEW adc \in AdcReadings, ControlPhase(adc)
      PROVE  W!Move \/ ((impl = "Zig") /\ W!MoveUnreported)
  <2> DEFINE w == WindowOf(CountsAfter(adc), tail)
  <2>1. /\ revolutions' = [CountsAfter(adc) EXCEPT ![Next1(tail)] = 0]
        /\ tail' = Next1(tail)
    BY <1>5 DEF ControlPhase, ShowThenDrive, ShowThenPanic, DriveThenShow, TuneThenDrive,
       MoveWindow, Pushed
  <2>2. CountsAfter(adc) \in [Bins -> Nat]
    BY <1>3, ReadingCounts
  <2>3. w \in W!Read
    BY <1>3, WindowReads
  <2>4. Window' = W!Moved(w)
    BY <1>1, <1>3, <2>1, <2>2, WindowMoves
  <2>5. W!Total(w) = Total(CountsAfter(adc))
    BY <1>3, <2>2, SameTotal
  <2>6. \/ shown'.frequency = Total(CountsAfter(adc))
        \/ impl = "Zig" /\ shown' = shown
    <3> DEFINE total == Total(CountsAfter(adc))
    <3> HIDE DEF total
    <3>1. CASE ShowThenDrive(adc)
      <4>1. \E signal : shown' = Shown(total, signal)
        BY <3>1, Zenon DEF ShowThenDrive, total
      <4> QED
        BY <4>1 DEF Shown, total
    <3>2. CASE ShowThenPanic(adc)
      <4>1. shown' = Shown(total, NaN)
        BY <3>2, Zenon DEF ShowThenPanic, total
      <4> QED
        BY <4>1 DEF Shown, total
    <3>3. CASE DriveThenShow(adc)
      <4>1. impl = "Zig" /\ ((\E signal : shown' = Shown(total, signal)) \/ shown' = shown)
        BY <3>3, Zenon DEF DriveThenShow, outputs, total
      <4> QED
        BY <4>1 DEF Shown, total
    <3>4. CASE TuneThenDrive(adc)
      BY <3>4 DEF TuneThenDrive, total
    <3> QED
      BY <1>5, <3>1, <3>2, <3>3, <3>4 DEF ControlPhase
  <2> HIDE DEF w
  <2>7. CASE shown'.frequency = Total(CountsAfter(adc))
    BY <2>3, <2>4, <2>5, <2>7 DEF W!Move
  <2>8. CASE impl = "Zig" /\ shown' = shown
    BY <2>3, <2>4, <2>8 DEF W!MoveUnreported
  <2> QED
    BY <2>6, <2>7, <2>8
<1>6. CASE TimerExpires \/ WriteParams \/ UNCHANGED vars
  <2>1. UNCHANGED <<revolutions, tail, shown>>
    BY <1>6 DEF TimerExpires, WriteParams, vars, ring, outputs
  <2>2. Window' = Window
    BY <1>1, <2>1
  <2> QED
    BY <1>2, <2>1, <2>2 DEF W!vars
<1> QED
  BY <1>2, <1>4, <1>5, <1>6, StepCases DEF W!Next

\* Every implementation reports the revolutions of the last bins each time the window
\* moves on (Zig unless the PWM fails): the ring buffer is a sliding window, however
\* many bins there are.
THEOREM WindowImplemented == Spec => ImplementsWindow
<1>1. Init => W!Init
  <2> SUFFICES ASSUME Init PROVE W!Init
    OBVIOUS
  <2>1. revolutions = [k \in Bins |-> 0] /\ tail = 0 /\ shown.frequency = 0
    BY DEF Init, Shown
  <2>2. tail \in Bins
    BY <2>1, ControllerAssumption DEF Bins
  <2>3. Window = [k \in 1..TimeWindowBins |-> 0]
    <3>1. \A k \in 1..N : Place(tail, k) \in Bins
      BY <2>2, Places
    <3>2. \A k \in 1..N : revolutions[Place(tail, k)] = 0
      BY <2>1, <3>1
    <3> QED
      BY <3>2 DEF Window, Place, N
  <2>4. (impl = "Zig") \in BOOLEAN
    BY Zenon
  <2> QED
    BY <2>1, <2>3, <2>4, Zenon DEF W!Init
<1>2. RingInv /\ [Next]_vars => [W!Next]_(W!vars)
  BY WindowStep
<1> QED
  BY <1>1, <1>2, RingInvariant, PTL DEF Spec, ImplementsWindow, W!Spec

-----------------------------------------------------------------------------
(* The range of Tune covers the window *)

\* The readings counted among the last m.
Recent(s, m) == {k \in DOMAIN s : k > Len(s) - m /\ s[k].counted}

\* There are finitely many of them, as the ring of readings is finite.
LEMMA RecentFinite ==
  ASSUME NEW s \in Seq(Reading), NEW m
  PROVE  IsFiniteSet(Recent(s, m)) /\ Cardinality(Recent(s, m)) \in Nat
<1>1. Recent(s, m) \in SUBSET (1..Len(s))
  BY DEF Recent
<1>2. IsFiniteSet(1..Len(s))
  <2>1. 1 \in Int /\ Len(s) \in Int
    OBVIOUS
  <2> QED
    BY <2>1, FS_Interval, Zenon
<1> QED
  BY <1>1, <1>2, FS_Subset, FS_CardinalityType

\* Among more readings at least as many are counted.
LEMMA RecentWider ==
  ASSUME NEW s \in Seq(Reading), NEW m \in Nat, NEW n \in Nat, m <= n
  PROVE  Cardinality(Recent(s, m)) <= Cardinality(Recent(s, n))
<1>1. Recent(s, m) \in SUBSET Recent(s, n)
  BY DEF Recent
<1> QED
  BY <1>1, RecentFinite, FS_Subset

\* A reading that is added is among the last.
LEMMA RecentGrows ==
  ASSUME NEW s \in Seq(Reading), NEW e \in Reading, NEW m \in Nat
  PROVE  Cardinality(Recent(Append(s, e), m + 1))
           >= Cardinality(Recent(s, m)) + IF e.counted THEN 1 ELSE 0
<1> DEFINE n == Len(s)
           t == Append(s, e)
<1>1. /\ t \in Seq(Reading) /\ Len(t) = n + 1 /\ n \in Nat
      /\ \A k \in 1..n : t[k] = s[k] /\ t[n + 1] = e
      /\ DOMAIN s = 1..n /\ DOMAIN t = 1..(n + 1) /\ n + 1 \in DOMAIN t
  OBVIOUS
<1>2. t[n + 1] = e
  OBVIOUS
<1> HIDE DEF t
<1>3. Recent(s, m) \in SUBSET Recent(t, m + 1)
  BY <1>1 DEF Recent
<1>4. n + 1 \notin Recent(s, m)
  BY <1>1 DEF Recent
<1>5. CASE e.counted
  <2>1. n + 1 \in Recent(t, m + 1)
    BY <1>1, <1>2, <1>5 DEF Recent
  <2>2. Recent(s, m) \cup {n + 1} \in SUBSET Recent(t, m + 1)
    BY <1>3, <2>1
  <2>3. Cardinality(Recent(s, m) \cup {n + 1}) = Cardinality(Recent(s, m)) + 1
    BY <1>4, RecentFinite, FS_AddElement
  <2>4. Cardinality(Recent(s, m) \cup {n + 1}) <= Cardinality(Recent(t, m + 1))
    BY <1>1, <2>2, RecentFinite, FS_Subset
  <2>5. Cardinality(Recent(s, m)) \in Nat /\ Cardinality(Recent(t, m + 1)) \in Nat
    BY <1>1, RecentFinite
  <2> QED
    BY <1>5, <2>3, <2>4, <2>5 DEF t
<1>6. CASE ~e.counted
  <2>1. Cardinality(Recent(s, m)) <= Cardinality(Recent(t, m + 1))
    BY <1>1, <1>3, RecentFinite, FS_Subset
  <2>2. Cardinality(Recent(s, m)) \in Nat /\ Cardinality(Recent(t, m + 1)) \in Nat
    BY <1>1, RecentFinite
  <2> QED
    BY <1>6, <2>1, <2>2 DEF t
<1> QED
  BY <1>5, <1>6

\* The oldest reading is not among the last, unless all are.
LEMMA RecentKept ==
  ASSUME NEW s \in Seq(Reading), NEW m \in Nat, m < Len(s)
  PROVE  Cardinality(Recent(s, m)) <= Cardinality(Recent(Tail(s), m))
<1> DEFINE n == Len(s)
           t == Tail(s)
           f == [k \in Recent(s, m) |-> k - 1]
<1>1. /\ t \in Seq(Reading) /\ Len(t) = n - 1 /\ n \in Nat /\ n > 0
      /\ \A k \in 1..(n - 1) : t[k] = s[k + 1]
  <2>1. s # <<>>
    OBVIOUS
  <2> QED
    BY <2>1, HeadTailProperties
<1> HIDE DEF t
<1>2. \A k \in Recent(s, m) : k \in 2..n /\ k > n - m /\ s[k].counted
  BY DEF Recent
<1>3. ASSUME NEW k \in Recent(s, m)
      PROVE  k - 1 \in Recent(t, m)
  <2>1. k - 1 \in 1..(n - 1) /\ k - 1 > (n - 1) - m /\ t[k - 1] = s[k]
    BY <1>1, <1>2
  <2>2. t[k - 1].counted
    BY <1>2, <2>1
  <2>3. DOMAIN t = 1..(n - 1)
    BY <1>1
  <2> QED
    BY <1>1, <2>1, <2>2, <2>3 DEF Recent
<1>4. f \in [Recent(s, m) -> Recent(t, m)]
  BY <1>3
<1>5. \A k, l \in Recent(s, m) : f[k] = f[l] => k = l
  BY <1>2
<1>6. /\ IsFiniteSet(Recent(s, m)) /\ IsFiniteSet(Recent(t, m))
      /\ Cardinality(Recent(s, m)) \in Nat /\ Cardinality(Recent(t, m)) \in Nat
  BY <1>1, RecentFinite
<1> HIDE DEF f
<1>7. ~(Cardinality(Recent(t, m)) < Cardinality(Recent(s, m)))
  BY <1>4, <1>5, <1>6, FS_PigeonHole
<1> QED
  BY <1>6, <1>7 DEF t

\* What a tick of Tune adds to the readings counted.
LEMMA TickCounts ==
  ASSUME ReadingsType, impl = "Tune", NEW adc \in AdcReadings, Tick(adc),
         NEW m \in Nat, m < ReadingsCapacity
  PROVE  Cardinality(Recent(readings', m + 1))
           >= Cardinality(Recent(readings, m)) + IF GoneClose(adc) THEN 1 ELSE 0
<1> DEFINE count == GoneClose(adc)
           e == [level |-> adc, counted |-> count]
           s == Append(readings, e)
<1>1. readings \in Seq(Reading) /\ Len(readings) <= ReadingsCapacity
      /\ ReadingsCapacity \in Nat
  BY ControllerAssumption DEF ReadingsType, ReadingsCapacity
<1>2. CASE adc = Failed
  <2>1. ~GoneClose(adc) /\ readings' = readings
    BY <1>2 DEF GoneClose, Tick, ReadingsAfter
  <2>2. Cardinality(Recent(readings, m)) <= Cardinality(Recent(readings, m + 1))
    BY <1>1, RecentWider
  <2>3. Cardinality(Recent(readings, m)) \in Nat /\ Cardinality(Recent(readings, m + 1)) \in Nat
    BY <1>1, RecentFinite
  <2> QED
    BY <2>1, <2>2, <2>3
<1>3. CASE adc # Failed
  <2>1. readings' = IF Len(s) > ReadingsCapacity THEN Tail(s) ELSE s
    BY <1>3, Zenon DEF Tick, ReadingsAfter, LastReadings
  <2>2. count \in BOOLEAN /\ adc \in Levels
    BY <1>3, Zenon DEF GoneClose, Levels
  <2> HIDE DEF count
  <2>3. e \in Reading /\ e.counted = count
    BY <2>2 DEF Reading
  <2> HIDE DEF e
  <2>4. s \in Seq(Reading) /\ Len(s) = Len(readings) + 1
    BY <1>1, <2>3
  <2>5. Cardinality(Recent(s, m + 1))
          >= Cardinality(Recent(readings, m)) + IF count THEN 1 ELSE 0
    <3>1. Cardinality(Recent(s, m + 1))
            >= Cardinality(Recent(readings, m)) + IF e.counted THEN 1 ELSE 0
      BY <1>1, <2>3, RecentGrows
    <3> QED
      BY <2>3, <3>1
  <2> HIDE DEF s
  <2>6. CASE Len(s) > ReadingsCapacity
    <3>1. readings' = Tail(s) /\ m + 1 < Len(s)
      BY <1>1, <2>1, <2>4, <2>6
    <3>2. Cardinality(Recent(s, m + 1)) <= Cardinality(Recent(Tail(s), m + 1))
      BY <2>4, <3>1, RecentKept
    <3>3. Tail(s) \in Seq(Reading)
      BY <2>4, <3>1
    <3>4. /\ Cardinality(Recent(s, m + 1)) \in Nat
          /\ Cardinality(Recent(Tail(s), m + 1)) \in Nat
          /\ Cardinality(Recent(readings, m)) \in Nat
      BY <1>1, <2>4, <3>3, RecentFinite
    <3> QED
      BY <2>5, <3>1, <3>2, <3>4 DEF count
  <2>7. CASE ~(Len(s) > ReadingsCapacity)
    BY <2>1, <2>5, <2>7 DEF count
  <2> QED
    BY <2>6, <2>7
<1> QED
  BY <1>2, <1>3

\* The sums of the last counts of a window: p[a] is that of the last a + 1.
PartialSums(p, w) ==
  /\ p \in [0..(N - 1) -> Nat]
  /\ p[0] = w[N]
  /\ \A a \in 1..(N - 1) : p[a] = p[a - 1] + w[N - a]

\* The last of them is the total.
LEMMA PartialSumsEnd ==
  ASSUME NEW revs \in [Bins -> Nat], NEW t \in Bins, NEW p,
         PartialSums(p, WindowOf(revs, t))
  PROVE  p[N - 1] = Total(revs)
<1> DEFINE w == WindowOf(revs, t)
           g == Sums(w, 1..N)
           T == {a \in 0..(N - 1) : p[a] # g[(N - a)..N]}
<1>1. N \in Nat \ {0}
  BY ControllerAssumption DEF N
<1>2. w \in [1..N -> Nat]
  BY Places DEF WindowOf
<1>3. g \in [SUBSET (1..N) -> Nat] /\ g[{}] = 0
      /\ \A s \in SUBSET (1..N) : \A x \in s : g[s] = w[x] + g[s \ {x}]
  <2>1. IsFiniteSet(1..N)
    <3>1. 1 \in Int /\ N \in Int
      BY <1>1
    <3> QED
      BY <3>1, FS_Interval, Zenon
  <2> DEFINE I == 1..N
  <2> HIDE DEF I, w
  <2>2. Additive(Sums(w, I), w, I)
    BY <1>2, <2>1, SumsAdditive DEF I
  <2> QED
    BY <2>2 DEF Additive, I
<1>4. Total(revs) = g[1..N]
  <2>1. Total(w) = Total(revs)
    <3>1. W!Total(w) = Total(w)
      BY Zenon DEF W!Total, W!FoldFunction, W!FoldFunctionOnSet, W!MapThenFoldSet,
         Total, FoldFunction, FoldFunctionOnSet, MapThenFoldSet
    <3> QED
      BY <3>1, SameTotal
  <2>2. Total(w) = Sums(w, DOMAIN w)[DOMAIN w]
    BY TotalIsSum
  <2>3. DOMAIN w = 1..N
    BY <1>2
  <2> QED
    BY <2>1, <2>2, <2>3
<1>5. /\ p \in [0..(N - 1) -> Nat] /\ p[0] = w[N]
      /\ \A a \in 1..(N - 1) : p[a] = p[a - 1] + w[N - a]
  BY DEF PartialSums
<1> HIDE DEF w, g
<1>6. g[N..N] = w[N]
  <2>1. N..N \in SUBSET (1..N) /\ N \in N..N /\ (N..N) \ {N} = {} /\ w[N] \in Nat
    BY <1>1, <1>2
  <2> QED
    BY <1>3, <2>1
<1>7. ASSUME NEW a \in 1..(N - 1)
      PROVE  g[(N - a)..N] = w[N - a] + g[(N - (a - 1))..N]
  <2>1. /\ (N - a)..N \in SUBSET (1..N) /\ N - a \in (N - a)..N
        /\ ((N - a)..N) \ {N - a} = (N - (a - 1))..N
    BY <1>1
  <2> DEFINE I == (N - a)..N
             J == (N - (a - 1))..N
             k == N - a
  <2>2. I \in SUBSET (1..N) /\ k \in I /\ I \ {k} = J
    BY <2>1
  <2> HIDE DEF I, J, k
  <2>3. g[I] = w[k] + g[J]
    BY <1>3, <2>2
  <2> QED
    BY <2>3 DEF I, J, k
<1>8. T = {}
  <2> SUFFICES ASSUME T # {} PROVE FALSE
    OBVIOUS
  <2>1. T \in SUBSET Nat
    BY <1>1
  <2>2. PICK a \in T : \A b \in T : a <= b
    BY <2>1, Least, Zenon
  <2>3. CASE a = 0
    BY <1>1, <1>5, <1>6, <2>2, <2>3
  <2>4. CASE a # 0
    <3>1. a \in 1..(N - 1) /\ a - 1 \in 0..(N - 1) /\ ~(a <= a - 1)
      BY <1>1, <2>2, <2>4
    <3>2. p[a - 1] = g[(N - (a - 1))..N]
      BY <2>2, <3>1
    <3>3. p[a] = p[a - 1] + w[N - a] /\ p[a - 1] \in Nat /\ w[N - a] \in Nat
      <4>1. N - a \in 1..N
        BY <1>1, <3>1
      <4> QED
        BY <1>2, <1>5, <3>1, <4>1
    <3>4. p[a] = g[(N - a)..N]
      BY <1>7, <3>1, <3>2, <3>3
    <3> QED
      BY <2>2, <3>4
  <2> QED
    BY <2>3, <2>4
<1>9. p[N - 1] = g[(N - (N - 1))..N]
  <2>1. N - 1 \in 0..(N - 1)
    BY <1>1
  <2> QED
    BY <1>8, <2>1
<1>10. N - (N - 1) = 1
  BY <1>1
<1> QED
  BY <1>4, <1>9, <1>10

\* The last bins of the window hold no more revolutions than are counted among as many
\* readings as those bins can have.
Covered(w, kept, done) ==
  \E p : /\ PartialSums(p, w)
         /\ \A a \in 0..(N - 1) : p[a] <= Cardinality(Recent(kept, a * ReadsPerBin + done))

CoverInv ==
  impl = "Tune" => ReadsDone \in Nat /\ Covered(Window, readings, ReadsDone)

\* The same after a reading, of the window that has it.
LEMMA ReadingCovers ==
  ASSUME RingType, ReadingsType, CoverInv, impl = "Tune", NEW adc \in AdcReadings, Tick(adc)
  PROVE  Covered(WindowOf(CountsAfter(adc), tail), readings', ReadsDone + 1)
<1> DEFINE R == ReadsPerBin
           w == WindowOf(CountsAfter(adc), tail)
           d == IF GoneClose(adc) THEN 1 ELSE 0
           C(m) == Cardinality(Recent(readings, m))
           D(m) == Cardinality(Recent(readings', m))
<1>1. N \in Nat \ {0} /\ R \in Nat \ {0} /\ ReadingsCapacity = N * R /\ tail \in Bins
      /\ ReadsDone \in 0..(R - 1)
  BY ControllerAssumption DEF N, ReadingsCapacity, RingType, ReadsDone
<1>2. Window = WindowOf(revolutions, tail)
  BY DEF Window, WindowOf, Place, N
<1>3. PICK p : /\ PartialSums(p, Window)
               /\ \A a \in 0..(N - 1) : p[a] <= C(a * R + ReadsDone)
  BY DEF CoverInv, Covered
<1>4. /\ p \in [0..(N - 1) -> Nat] /\ p[0] = Window[N]
      /\ \A a \in 1..(N - 1) : p[a] = p[a - 1] + Window[N - a]
  BY <1>3 DEF PartialSums
<1>5. \A k \in 1..N : w[k] = IF k = N THEN Window[k] + d ELSE Window[k]
  <2>1. \A k \in 1..N : /\ Place(tail, k) \in Bins
                        /\ Place(tail, k) = IF tail + k < N THEN tail + k ELSE tail + k - N
    BY <1>1, Places
  <2>2. \A k \in 1..N : Place(tail, k) = tail <=> k = N
    BY <1>1, <2>1 DEF Bins, N
  <2>3. \A j \in Bins : CountsAfter(adc)[j] = IF j = tail THEN revolutions[j] + d
                                              ELSE revolutions[j]
    BY DEF CountsAfter, RingType
  <2> QED
    BY <1>2, <2>1, <2>2, <2>3 DEF WindowOf
<1> DEFINE q == [a \in 0..(N - 1) |-> p[a] + d]
<1>6. d \in Nat
  OBVIOUS
<1>7. \A m \in Nat : m < ReadingsCapacity => D(m + 1) >= C(m) + d
  BY TickCounts
<1>8. \A m : C(m) \in Nat
  BY RecentFinite DEF ReadingsType
<1> HIDE DEF w, d, C, D
<1>9. PartialSums(q, w)
  <2>1. q \in [0..(N - 1) -> Nat] /\ \A a \in 0..(N - 1) : q[a] = p[a] + d
    BY <1>4, <1>6
  <2> HIDE DEF q
  <2>2. q[0] = w[N]
    BY <1>1, <1>4, <1>5, <2>1
  <2>3. ASSUME NEW a \in 1..(N - 1)
        PROVE  q[a] = q[a - 1] + w[N - a]
    <3>1. a \in 0..(N - 1) /\ a - 1 \in 0..(N - 1) /\ N - a \in 1..N /\ N - a # N
      BY <1>1
    <3>2. w[N - a] = Window[N - a] /\ p[a] = p[a - 1] + Window[N - a]
      BY <1>4, <1>5, <3>1
    <3>3. p[a] \in Nat /\ p[a - 1] \in Nat /\ Window[N - a] \in Nat
      <4>1. Place(tail, N - a) \in Bins
        BY <1>1, <3>1, Places
      <4> QED
        BY <1>2, <1>4, <3>1, <4>1 DEF WindowOf, RingType
    <3> QED
      BY <1>6, <2>1, <3>1, <3>2, <3>3
  <2> QED
    BY <2>1, <2>2, <2>3 DEF PartialSums
<1>10. ASSUME NEW a \in 0..(N - 1)
       PROVE  q[a] <= D(a * R + (ReadsDone + 1))
  <2>1. a * R + ReadsDone \in Nat /\ a * R + ReadsDone < N * R
        /\ a * R + (ReadsDone + 1) = (a * R + ReadsDone) + 1
    <3>1. (N - 1 - a) * R \in Nat
      <4>1. N - 1 - a \in Nat
        BY <1>1
      <4> QED
        BY <1>1, <4>1
    <3>2. (N - 1 - a) * R = N * R - R - a * R
      BY <1>1
    <3>3. a * R \in Nat /\ N * R \in Nat
      BY <1>1
    <3> QED
      BY <1>1, <3>1, <3>2, <3>3
  <2> DEFINE m == a * R + ReadsDone
  <2>2. m \in Nat /\ m < ReadingsCapacity
    BY <1>1, <2>1
  <2>3. p[a] <= C(m) /\ p[a] \in Nat
    BY <1>3, <1>4
  <2> HIDE DEF m
  <2>4. D(m + 1) >= C(m) + d /\ C(m) \in Nat
    BY <1>7, <1>8, <2>2
  <2>5. D(m + 1) \in Int
    <3>1. readings' \in Seq(Reading)
      BY ReadingsInductive DEF ReadingsType
    <3> QED
      BY <3>1, RecentFinite DEF D
  <2>6. p[a] + d <= D(m + 1)
    BY <1>6, <2>3, <2>4, <2>5
  <2> QED
    BY <2>1, <2>6 DEF m
<1> QED
  BY <1>9, <1>10 DEF Covered, w, D, R

\* Once the window has moved on, it is covered again.
LEMMA PushCovers ==
  ASSUME RingType, ReadingsType', NEW adc,
         Covered(WindowOf(CountsAfter(adc), tail), readings', ReadsPerBin)
  PROVE  Covered(WindowOf(Pushed(CountsAfter(adc)), Next1(tail)), readings', 0)
<1> DEFINE R == ReadsPerBin
           w == WindowOf(CountsAfter(adc), tail)
           v == WindowOf(Pushed(CountsAfter(adc)), Next1(tail))
           D(m) == Cardinality(Recent(readings', m))
<1>1. N \in Nat \ {0} /\ R \in Nat \ {0} /\ tail \in Bins
  BY ControllerAssumption DEF N, RingType
<1>2. /\ w \in [1..N -> Nat] /\ v \in [1..N -> Nat] /\ v[N] = 0
      /\ \A k \in 1..(N - 1) : v[k] = w[k + 1]
  <2>1. CountsAfter(adc) \in [Bins -> Nat]
    BY ReadingCounts
  <2> QED
    BY <1>1, <2>1, WindowShifts, Zenon DEF Pushed
<1>3. PICK q : PartialSums(q, w) /\ \A a \in 0..(N - 1) : q[a] <= D(a * R + R)
  BY DEF Covered
<1> HIDE DEF w, v, R
<1>4. /\ q \in [0..(N - 1) -> Nat] /\ q[0] = w[N]
      /\ \A a \in 1..(N - 1) : q[a] = q[a - 1] + w[N - a]
  BY <1>3 DEF PartialSums
<1> DEFINE p == [a \in 0..(N - 1) |-> IF a = 0 THEN 0 ELSE q[a - 1]]
<1>5. /\ p \in [0..(N - 1) -> Nat] /\ p[0] = 0
      /\ \A a \in 1..(N - 1) : p[a] = q[a - 1]
  <2>1. \A a \in 0..(N - 1) : a # 0 => a - 1 \in 0..(N - 1)
    BY <1>1
  <2> QED
    BY <1>1, <1>4, <2>1
<1> HIDE DEF p
<1>6. PartialSums(p, v)
  <2>1. ASSUME NEW a \in 1..(N - 1)
        PROVE  p[a] = p[a - 1] + v[N - a]
    <3>1. N - a \in 1..(N - 1) /\ a - 1 \in 0..(N - 1) /\ N - a + 1 = N - (a - 1)
      BY <1>1
    <3>2. v[N - a] = w[N - (a - 1)] /\ p[a] = q[a - 1]
      BY <1>2, <1>5, <3>1
    <3>3. CASE a = 1
      <4>1. p[a - 1] = 0 /\ q[a - 1] = w[N] /\ w[N] \in Nat /\ N - (a - 1) = N
        BY <1>1, <1>2, <1>4, <1>5, <3>3
      <4> QED
        BY <3>2, <4>1
    <3>4. CASE a # 1
      <4>1. a - 1 \in 1..(N - 1)
        BY <1>1, <3>4
      <4>2. p[a - 1] = q[(a - 1) - 1] /\ q[a - 1] = q[(a - 1) - 1] + w[N - (a - 1)]
        BY <1>4, <1>5, <4>1
      <4> QED
        BY <3>2, <4>2
    <3> QED
      BY <3>3, <3>4
  <2> QED
    BY <1>2, <1>5, <2>1 DEF PartialSums
<1>7. ASSUME NEW a \in 0..(N - 1)
      PROVE  p[a] <= D(a * R + 0)
  <2> HIDE DEF D
  <2>1. CASE a = 0
    <3>1. D(a * R + 0) \in Nat
      BY RecentFinite DEF D, ReadingsType
    <3> QED
      BY <1>5, <2>1, <3>1
  <2>2. CASE a # 0
    <3>1. a \in 1..(N - 1) /\ a - 1 \in 0..(N - 1)
      BY <1>1, <2>2
    <3>2. (a - 1) * R + R = a * R + 0
      BY <1>1, <3>1
    <3>3. q[a - 1] <= D((a - 1) * R + R)
      BY <1>3, <3>1 DEF D
    <3> QED
      BY <1>5, <3>1, <3>2, <3>3
  <2> QED
    BY <2>1, <2>2
<1> QED
  BY <1>6, <1>7 DEF Covered, v, D, R

\* The window is covered in every behaviour of Tune.
LEMMA CoverInvariant == Spec => []CoverInv
<1>1. Init => CoverInv
  <2> SUFFICES ASSUME Init PROVE CoverInv
    OBVIOUS
  <2>1. RingType /\ ReadsDone \in Nat
    BY RingInit, ControllerAssumption DEF RingInv, RingType, ReadsDone
  <2>2. revolutions = [k \in Bins |-> 0] /\ tail \in Bins /\ readings = <<>> /\ N \in Nat \ {0}
    BY <2>1, ControllerAssumption DEF Init, RingType, N
  <2>3. Window = [k \in 1..N |-> 0]
    <3>1. \A k \in 1..N : Place(tail, k) \in Bins
      BY <2>2, Places
    <3>2. \A k \in 1..N : revolutions[Place(tail, k)] = 0
      BY <2>2, <3>1
    <3> QED
      BY <3>2 DEF Window, Place, N
  <2> DEFINE p == [a \in 0..(N - 1) |-> 0]
  <2>4. PartialSums(p, Window)
    <3>1. p \in [0..(N - 1) -> Nat] /\ \A a \in 0..(N - 1) : p[a] = 0
      OBVIOUS
    <3>2. \A a \in 1..(N - 1) : a \in 0..(N - 1) /\ a - 1 \in 0..(N - 1) /\ N - a \in 1..N
      BY <2>2
    <3> HIDE DEF p
    <3> QED
      BY <2>2, <2>3, <3>1, <3>2 DEF PartialSums
  <2>5. ASSUME NEW m
        PROVE  Cardinality(Recent(readings, m)) \in Nat
    <3>1. readings \in Seq(Reading)
      BY <2>2
    <3> QED
      BY <3>1, RecentFinite
  <2>6. \A a \in 0..(N - 1) : p[a] <= Cardinality(Recent(readings, a * ReadsPerBin + ReadsDone))
    BY <2>5
  <2> QED
    BY <2>1, <2>4, <2>6 DEF CoverInv, Covered
<1>2. RingInv /\ ReadingsType /\ CoverInv /\ [Next]_vars => CoverInv'
  <2> SUFFICES ASSUME RingInv, ReadingsType, CoverInv, [Next]_vars, impl' = "Tune"
               PROVE  ReadsDone' \in Nat /\ Covered(Window', readings', ReadsDone')
    BY DEF CoverInv, Covered
  <2>1. impl = "Tune"
    BY ImplFixed
  <2>2. RingType /\ readNo \in 0..(ReadsPerBin - 1) /\ ReadsPerBin \in Nat \ {0}
    BY ControllerAssumption DEF RingInv, RingType
  <2>3. Window' = WindowOf(revolutions', tail') /\ Window = WindowOf(revolutions, tail)
    BY DEF Window, WindowOf, Place, N
  <2>4. ASSUME NEW adc \in AdcReadings, HandleRead(adc)
        PROVE  ReadsDone' \in Nat /\ Covered(Window', readings', ReadsDone')
    <3>1. Tick(adc) /\ readNo # 0 /\ revolutions' = CountsAfter(adc) /\ tail' = tail
      BY <2>4 DEF HandleRead, ControlDue
    <3>2. readNo' = IF readNo = ReadsPerBin - 1 THEN 0 ELSE readNo + 1
      BY <2>2, <3>1, TickEffect
    <3>3. ReadsDone' = ReadsDone + 1 /\ ReadsDone + 1 \in Nat
      BY <2>2, <3>1, <3>2 DEF ReadsDone
    <3>4. Covered(WindowOf(CountsAfter(adc), tail), readings', ReadsDone + 1)
      BY <2>1, <2>2, <3>1, ReadingCovers
    <3> QED
      BY <2>3, <3>1, <3>3, <3>4
  <2>5. ASSUME NEW adc \in AdcReadings, ControlPhase(adc)
        PROVE  ReadsDone' \in Nat /\ Covered(Window', readings', ReadsDone')
    <3>1. /\ Tick(adc) /\ readNo = 0 /\ tail' = Next1(tail)
          /\ revolutions' = Pushed(CountsAfter(adc))
      BY <2>5 DEF ControlPhase, ShowThenDrive, ShowThenPanic, DriveThenShow, TuneThenDrive,
         MoveWindow, ControlDue
    <3>2. readNo' = IF readNo = ReadsPerBin - 1 THEN 0 ELSE readNo + 1
      BY <2>2, <3>1, TickEffect
    <3>3. ReadsDone' = 0 /\ ReadsDone + 1 = ReadsPerBin
      BY <2>2, <3>1, <3>2 DEF ReadsDone
    <3>4. Covered(WindowOf(CountsAfter(adc), tail), readings', ReadsDone + 1)
      BY <2>1, <2>2, <3>1, ReadingCovers
    <3>5. ReadingsType'
      BY <3>1, ReadingsInductive
    <3>6. Covered(WindowOf(Pushed(CountsAfter(adc)), Next1(tail)), readings', 0)
      BY <2>2, <3>3, <3>4, <3>5, PushCovers
    <3> QED
      BY <2>3, <3>1, <3>3, <3>6
  <2>6. CASE TimerExpires \/ WriteParams \/ UNCHANGED vars
    <3>1. UNCHANGED <<revolutions, tail, readNo, readings>>
      BY <2>6 DEF TimerExpires, WriteParams, vars, ring, iteration, tuning
    <3>2. Window' = Window /\ ReadsDone' = ReadsDone
      BY <2>3, <3>1 DEF ReadsDone
    <3> QED
      BY <2>1, <3>1, <3>2 DEF CoverInv
  <2> QED
    BY <2>4, <2>5, <2>6, StepCases
<1> QED
  BY <1>1, <1>2, RingInvariant, ReadingsInvariant, PTL DEF Spec

\* Whenever Tune shows a frequency, the range it shows with it is taken over readings
\* that include every revolution counted, however many bins there are and whichever
\* readings failed.
THEOREM RangeCovers == Spec => RangeCoversWindow
<1>1. RingInv /\ ReadingsType /\ CoverInv /\ [Next]_vars
        => [tail' # tail /\ impl = "Tune" => shown'.frequency <= Counted']_vars
  <2> SUFFICES ASSUME RingInv, ReadingsType, CoverInv, Next, tail' # tail, impl = "Tune"
               PROVE  shown'.frequency <= Counted'
    OBVIOUS
  <2>1. PICK adc \in AdcReadings : TuneThenDrive(adc)
    BY DEF Next, HandleRead, ShowThenDrive, ShowThenPanic, DriveThenShow, TimerExpires,
       WriteParams, ring
  <2>2. /\ Tick(adc) /\ readNo = 0
        /\ shown'.frequency = Total(CountsAfter(adc))
    BY <2>1 DEF TuneThenDrive, MoveWindow, ControlDue
  <2>3. /\ RingType /\ tail \in Bins /\ ReadsPerBin \in Nat \ {0} /\ N \in Nat \ {0}
        /\ ReadsDone + 1 = ReadsPerBin
    BY <2>2, ControllerAssumption DEF RingInv, RingType, ReadsDone, N
  <2>4. Covered(WindowOf(CountsAfter(adc), tail), readings', ReadsPerBin)
    BY <2>2, <2>3, ReadingCovers
  <2>5. PICK p : /\ PartialSums(p, WindowOf(CountsAfter(adc), tail))
                 /\ \A a \in 0..(N - 1) :
                      p[a] <= Cardinality(Recent(readings', a * ReadsPerBin + ReadsPerBin))
    BY <2>4 DEF Covered
  <2>6. CountsAfter(adc) \in [Bins -> Nat]
    BY <2>3, ReadingCounts
  <2>7. p[N - 1] = Total(CountsAfter(adc)) /\ N - 1 \in 0..(N - 1)
    BY <2>3, <2>5, <2>6, PartialSumsEnd
  <2> DEFINE m == (N - 1) * ReadsPerBin + ReadsPerBin
  <2>8. Total(CountsAfter(adc)) <= Cardinality(Recent(readings', m))
    BY <2>5, <2>7
  <2> HIDE DEF m
  <2>9. readings' \in Seq(Reading)
    BY <2>2, ReadingsInductive DEF ReadingsType
  <2>10. Counted' = Cardinality(Recent(readings', Len(readings')))
    <3>1. Recent(readings', Len(readings')) = {k \in DOMAIN readings' : readings'[k].counted}
      BY <2>9 DEF Recent
    <3> QED
      BY <3>1 DEF Counted
  <2>11. Cardinality(Recent(readings', m)) <= Cardinality(Recent(readings', Len(readings')))
    <3>1. Recent(readings', m) \in SUBSET Recent(readings', Len(readings'))
      BY <2>9 DEF Recent
    <3> QED
      BY <2>9, <3>1, RecentFinite, FS_Subset
  <2>12. /\ Cardinality(Recent(readings', m)) \in Nat
         /\ Cardinality(Recent(readings', Len(readings'))) \in Nat
         /\ Total(CountsAfter(adc)) \in Nat
    BY <2>6, <2>9, RecentFinite, TotalType
  <2> QED
    BY <2>2, <2>8, <2>10, <2>11, <2>12
<1> QED
  BY <1>1, RingInvariant, ReadingsInvariant, CoverInvariant, PTL DEF Spec, RangeCoversWindow
=============================================================================
