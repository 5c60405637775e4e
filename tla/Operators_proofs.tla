--------------------------- MODULE Operators_proofs ---------------------------
(***************************************************************************)
(* Lemmas about the operators that several modules are built from: how the *)
(* poll loops take an element out of an array, how the controllers count   *)
(* round, and what the PID formula makes of classes of floats.             *)
(***************************************************************************)
EXTENDS SwapRemove, Pid, SequenceTheorems, TLAPS

-----------------------------------------------------------------------------
(* Taking an element out of an array *)

\* Removing an entry the way the loops do (the last one takes its place) yields
\* a sequence that is one shorter.
LEMMA RemoveAtType ==
  ASSUME NEW S, NEW s \in Seq(S), NEW k \in 1..Len(s)
  PROVE  /\ RemoveAt(s, k) \in Seq(S)
         /\ Len(RemoveAt(s, k)) = Len(s) - 1
         /\ \A j \in 1..(Len(s) - 1) :
              RemoveAt(s, k)[j] = IF j = k THEN s[Len(s)] ELSE s[j]
<1>1. Len(s) - 1 \in Nat
  OBVIOUS
<1>2. RemoveAt(s, k) \in [1..(Len(s) - 1) -> S]
  BY DEF RemoveAt
<1>3. RemoveAt(s, k) \in Seq(S)
  BY <1>1, <1>2
<1>4. Len(RemoveAt(s, k)) = Len(s) - 1
  BY <1>1, <1>3 DEF RemoveAt
<1> QED
  BY <1>3, <1>4 DEF RemoveAt

\* In a sequence without repetitions it takes away that element and no other.
LEMMA RemoveAtRange ==
  ASSUME NEW S, NEW s \in Seq(S), NEW k \in 1..Len(s),
         \A j, l \in 1..Len(s) : s[j] = s[l] => j = l
  PROVE  /\ SeqRange(RemoveAt(s, k)) = SeqRange(s) \ {s[k]}
         /\ \A j, l \in 1..(Len(s) - 1) :
              RemoveAt(s, k)[j] = RemoveAt(s, k)[l] => j = l
<1> DEFINE t == RemoveAt(s, k)
           n == Len(s)
<1>1. /\ Len(t) = n - 1
      /\ \A j \in 1..(n - 1) : t[j] = IF j = k THEN s[n] ELSE s[j]
  BY RemoveAtType
<1>2. \A j, l \in 1..(n - 1) : t[j] = t[l] => j = l
  BY <1>1
<1>3. SeqRange(t) = {t[j] : j \in 1..(n - 1)}
  BY <1>1 DEF SeqRange
<1>4. ASSUME NEW x \in SeqRange(t)
      PROVE  x \in SeqRange(s) \ {s[k]}
  <2>1. PICK j \in 1..(n - 1) : x = t[j]
    BY <1>3
  <2>2. CASE j = k
    BY <2>1, <2>2, <1>1 DEF SeqRange
  <2>3. CASE j # k
    BY <2>1, <2>3, <1>1 DEF SeqRange
  <2> QED
    BY <2>2, <2>3
<1>5. ASSUME NEW x \in SeqRange(s) \ {s[k]}
      PROVE  x \in SeqRange(t)
  <2>1. PICK j \in 1..n : x = s[j] /\ j # k
    BY DEF SeqRange
  <2>2. CASE j = n
    <3>1. k \in 1..(n - 1) /\ t[k] = x
      BY <2>1, <2>2, <1>1
    <3> QED
      BY <3>1, <1>3
  <2>3. CASE j # n
    <3>1. j \in 1..(n - 1) /\ t[j] = x
      BY <2>1, <2>3, <1>1
    <3> QED
      BY <3>1, <1>3
  <2> QED
    BY <2>2, <2>3
<1> QED
  BY <1>2, <1>4, <1>5

\* Marking an entry of an array of poll entries (its descriptor is negated) leaves
\* an array of entries; the entry keeps its place and its events, and no other
\* changes.
LEMMA MarkEffect ==
  ASSUME NEW V, NEW s \in Seq([fd : Int, revents : V]), NEW k \in 1..Len(s), NEW t,
         t = [s EXCEPT ![k].fd = -s[k].fd]
  PROVE  /\ t \in Seq([fd : Int, revents : V])
         /\ Len(t) = Len(s)
         /\ t[k].fd = -s[k].fd
         /\ \A j \in 1..Len(s) : j # k => t[j].fd = s[j].fd
         /\ \A j \in 1..Len(s) : t[j].revents = s[j].revents
<1> DEFINE e == [s[k] EXCEPT !.fd = -s[k].fd]
           R == [fd : Int, revents : V]
<1>1. t = [s EXCEPT ![k] = e]
  BY Zenon
<1>2. s[k] \in R /\ s \in Seq(R)
  BY ElementOfSeq
<1>3. e \in R /\ e.fd = -s[k].fd /\ e.revents = s[k].revents
  BY <1>2
<1> HIDE DEF e, R
<1>4. DOMAIN s = 1..Len(s)
  BY <1>2
<1>5. t \in Seq(R) /\ Len(t) = Len(s)
  <2>1. [s EXCEPT ![k] = e] \in Seq(R) /\ Len([s EXCEPT ![k] = e]) = Len(s)
    BY <1>2, <1>3, ExceptSeq
  <2> QED
    BY <1>1, <2>1, Zenon
<1>6. t[k] = e /\ \A j \in 1..Len(s) : j # k => t[j] = s[j]
  BY <1>1, <1>4
<1> QED
  BY <1>3, <1>5, <1>6 DEF R

-----------------------------------------------------------------------------
(* Counting round *)

\* Adding one modulo a positive number.
LEMMA IncrementMod ==
  ASSUME NEW n \in Nat \ {0}, NEW k \in 0..(n - 1)
  PROVE  (k + 1) % n = IF k = n - 1 THEN 0 ELSE k + 1
OBVIOUS

-----------------------------------------------------------------------------
(* Arithmetic on classes of floats *)

Finite == -1..1

\* A class of floats is one of six.
LEMMA FloatCases ==
  ASSUME NEW x \in Float
  PROVE  x = -2 \/ x = -1 \/ x = 0 \/ x = 1 \/ x = 2 \/ x = 3
BY DEF Float, NaN

\* Every operation on floats yields floats.
LEMMA PlusType ==
  ASSUME NEW x \in Float, NEW y \in Float
  PROVE  Plus(x, y) \in SUBSET Float
BY OverflowAssumption, FloatCases DEF Plus, Float, NaN, Size, Sign, Overflowed

\* The product.
LEMMA TimesType ==
  ASSUME NEW x \in Float, NEW y \in Float
  PROVE  Times(x, y) \in SUBSET Float
BY OverflowAssumption, FloatCases DEF Times, Float, NaN, Size, Sign, Overflowed

\* The quotient, also of zeros.
LEMMA OverType ==
  ASSUME NEW x \in Float, NEW y \in Float
  PROVE  Over(x, y) \in SUBSET Float
BY OverflowAssumption, FloatCases DEF Over, Float, NaN, Size, Sign, Overflowed

\* The negation.
LEMMA MinusType ==
  ASSUME NEW x \in Float
  PROVE  Minus(x) \in Float
BY DEF Minus, Float, NaN

\* Without overflow arithmetic on finite numbers stays finite.
LEMMA FiniteArithmetic ==
  ASSUME ~MayOverflow, NEW x \in Finite, NEW y \in Finite
  PROVE  /\ Plus(x, y) \in SUBSET Finite
         /\ Times(x, y) \in SUBSET Finite
         /\ Minus(x) \in Finite
         /\ y # 0 => Over(x, y) \in SUBSET Finite
         /\ Over(x, 2) = {0}
<1>1. (x = -1 \/ x = 0 \/ x = 1) /\ (y = -1 \/ y = 0 \/ y = 1)
  BY DEF Finite
<1>0. \A z : Overflowed(z) = {}
  BY Zenon DEF Overflowed
<1>2. Plus(x, y) \in SUBSET Finite
  BY <1>0, <1>1 DEF Plus, Finite, NaN, Size, Sign
<1>3. Times(x, y) \in SUBSET Finite
  BY <1>0, <1>1 DEF Times, Finite, NaN, Size, Sign
<1>4. Minus(x) \in Finite
  BY <1>1 DEF Minus, Finite, NaN
<1>5. y # 0 => Over(x, y) \in SUBSET Finite
  BY <1>0, <1>1 DEF Over, Finite, NaN, Size, Sign
<1>6. Over(x, 2) = {0}
  BY <1>1 DEF Over, Finite, NaN, Size, Sign
<1> QED
  BY <1>2, <1>3, <1>4, <1>5, <1>6

\* The same of sets of operands.
LEMMA AnyType ==
  ASSUME NEW X \in SUBSET Float, NEW Y \in SUBSET Float
  PROVE  /\ PlusAny(X, Y) \in SUBSET Float
         /\ TimesAny(X, Y) \in SUBSET Float
         /\ OverAny(X, Y) \in SUBSET Float
<1>1. \A x \in X, y \in Y : Plus(x, y) \in SUBSET Float
  BY PlusType
<1>2. \A x \in X, y \in Y : Times(x, y) \in SUBSET Float
  BY TimesType
<1>3. \A x \in X, y \in Y : Over(x, y) \in SUBSET Float
  BY OverType
<1> QED
  BY <1>1, <1>2, <1>3 DEF PlusAny, TimesAny, OverAny

\* With finite operands, and divisors that are not zero, the classes are finite as
\* long as no operation leaves the range.
LEMMA AnyFinite ==
  ASSUME ~MayOverflow, NEW X \in SUBSET Finite, NEW Y \in SUBSET Finite
  PROVE  /\ PlusAny(X, Y) \in SUBSET Finite
         /\ TimesAny(X, Y) \in SUBSET Finite
         /\ 0 \notin Y => OverAny(X, Y) \in SUBSET Finite
<1>1. \A x \in X, y \in Y : Plus(x, y) \in SUBSET Finite
  BY FiniteArithmetic
<1>2. \A x \in X, y \in Y : Times(x, y) \in SUBSET Finite
  BY FiniteArithmetic
<1>3. 0 \notin Y => \A x \in X, y \in Y : Over(x, y) \in SUBSET Finite
  BY FiniteArithmetic
<1> QED
  BY <1>1, <1>2, <1>3 DEF PlusAny, TimesAny, OverAny

-----------------------------------------------------------------------------
(* The PID formula *)

ParamsOfFloats == [target : Float, factor : Float, ti : Float, td : Float]
FeedbackOfFloats == [delta : Float, integ : Float]
ControlOfFloats == [signal : Float, delta : Float, integ : Float]

\* The parts of the formula.
Integral(p)       == TimesAny(Over(p.factor, p.ti), {1})
Derivative(p)     == OverAny(Times(p.factor, p.td), {1})
Integrals(p, fb)  == PlusAny({fb.integ}, TimesAny(Integral(p), {fb.delta}))
Signals(p, fb, delta, integ) ==
  PlusAny(PlusAny(Times(p.factor, delta), {integ}),
          TimesAny(Derivative(p), Plus(delta, Minus(fb.delta))))

\* Each result of the formula is made of its parts.
LEMMA RawControlParts ==
  ASSUME NEW p, NEW f, NEW fb, NEW c \in RawControl(p, f, fb)
  PROVE  \E d \in Plus(p.target, Minus(f)), g \in Integrals(p, fb) :
         \E s \in Signals(p, fb, d, g) : c = [signal |-> s, delta |-> d, integ |-> g]
<1> DEFINE D == Plus(p.target, Minus(f))
           G == Integrals(p, fb)
           S(d, g) == Signals(p, fb, d, g)
<1>1. c \in UNION {UNION {{[signal |-> s, delta |-> d, integ |-> g] : s \in S(d, g)}
                         : g \in G} : d \in D}
  BY Zenon DEF RawControl, Integrals, Signals, Integral, Derivative
<1> HIDE DEF D, G, S
<1>2. PICK d \in D :
        c \in UNION {{[signal |-> s, delta |-> d, integ |-> g] : s \in S(d, g)} : g \in G}
  BY <1>1, Zenon
<1>3. PICK g \in G : c \in {[signal |-> s, delta |-> d, integ |-> g] : s \in S(d, g)}
  BY <1>2, Zenon
<1>4. \E s \in S(d, g) : c = [signal |-> s, delta |-> d, integ |-> g]
  BY <1>3, Zenon
<1> QED
  BY <1>4 DEF D, G, S

\* Whatever floats it is given, the formula comes to floats.
LEMMA RawControlType ==
  ASSUME NEW p, p.target \in Float, p.factor \in Float, p.ti \in Float, p.td \in Float,
         NEW f \in Float, NEW fb \in FeedbackOfFloats,
         NEW c \in RawControl(p, f, fb)
  PROVE  c \in ControlOfFloats
<1>1. fb.integ \in Float /\ fb.delta \in Float /\ 1 \in Float
  BY DEF FeedbackOfFloats, Float, NaN
<1>2. Integral(p) \in SUBSET Float
  BY <1>1, OverType, AnyType DEF Integral
<1>3. Derivative(p) \in SUBSET Float
  BY <1>1, TimesType, AnyType DEF Derivative
<1>4. Integrals(p, fb) \in SUBSET Float
  BY <1>1, <1>2, AnyType DEF Integrals
<1>5. PICK d \in Plus(p.target, Minus(f)), g \in Integrals(p, fb) :
        \E s \in Signals(p, fb, d, g) : c = [signal |-> s, delta |-> d, integ |-> g]
  BY RawControlParts
<1>6. d \in Float /\ g \in Float
  BY <1>4, MinusType, PlusType
<1>7. Signals(p, fb, d, g) \in SUBSET Float
  <2>1. Times(p.factor, d) \in SUBSET Float
    BY <1>6, TimesType
  <2>2. Plus(d, Minus(fb.delta)) \in SUBSET Float
    BY <1>1, <1>6, MinusType, PlusType
  <2> QED
    BY <1>3, <1>6, <2>1, <2>2, AnyType DEF Signals
<1> QED
  BY <1>5, <1>6, <1>7 DEF ControlOfFloats

\* From finite feedback and parameters the formula is meant for (the integration
\* time is positive or infinite) it comes to finite numbers.
LEMMA RawControlFinite ==
  ASSUME ~MayOverflow,
         NEW p, p.target \in Finite, p.factor \in Finite, p.ti \in {1, 2}, p.td \in Finite,
         NEW f \in Finite, NEW fb, fb.delta \in Finite, fb.integ \in Finite,
         NEW c \in RawControl(p, f, fb)
  PROVE  c.signal \in Finite
<1>1. 1 \in Finite /\ 0 \in Finite
  BY DEF Finite
<1>2. Integral(p) \in SUBSET Finite
  <2>1. Over(p.factor, p.ti) \in SUBSET Finite
    BY <1>1, FiniteArithmetic
  <2> QED
    BY <1>1, <2>1, AnyFinite DEF Integral
<1>3. Derivative(p) \in SUBSET Finite
  <2>1. Times(p.factor, p.td) \in SUBSET Finite
    BY FiniteArithmetic
  <2>2. {1} \in SUBSET Finite /\ 0 \notin {1}
    BY <1>1
  <2> QED
    BY <2>1, <2>2, AnyFinite DEF Derivative
<1>4. Integrals(p, fb) \in SUBSET Finite
  BY <1>1, <1>2, AnyFinite DEF Integrals
<1>5. PICK d \in Plus(p.target, Minus(f)), g \in Integrals(p, fb) :
        \E s \in Signals(p, fb, d, g) : c = [signal |-> s, delta |-> d, integ |-> g]
  BY RawControlParts
<1>6. d \in Finite /\ g \in Finite
  BY <1>4, FiniteArithmetic
<1>7. Signals(p, fb, d, g) \in SUBSET Finite
  <2>1. Times(p.factor, d) \in SUBSET Finite
    BY <1>6, FiniteArithmetic
  <2>2. Plus(d, Minus(fb.delta)) \in SUBSET Finite
    BY <1>6, FiniteArithmetic
  <2> QED
    BY <1>3, <1>6, <2>1, <2>2, AnyFinite DEF Signals
<1> QED
  BY <1>5, <1>7

\* The limits of the duty cycle keep a signal a float, and a number a number.
LEMMA LimitedType ==
  ASSUME NEW x \in Float
  PROVE  /\ Limited(x) \in SUBSET {0, 1, NaN}
         /\ x \in Finite => Limited(x) \in SUBSET {0, 1}
BY DEF Limited, Float, Finite, NaN

\* What finite_or_zero lets through is finite.
LEMMA SanitisedFinite ==
  ASSUME NEW c
  PROVE  Sanitised(c).delta \in Finite /\ Sanitised(c).integ \in Finite
BY DEF Sanitised, FiniteOrZero, IsFinite, Finite
=============================================================================
