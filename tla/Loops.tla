------------------------------- MODULE Loops -------------------------------
(***************************************************************************)
(* Facts that the proofs of several components need: induction on a set of *)
(* numbers, what a recursive function over the turns of a loop is, sums    *)
(* over sequences and finite sets, and the ranks of a total order.  They   *)
(* say nothing of the program.                                             *)
(***************************************************************************)
EXTENDS Integers, Sequences, FiniteSets, FiniteSetTheorems, WellFoundedInduction, TLAPS

-----------------------------------------------------------------------------
(* Induction on a set of numbers, and the loops that a recursive function  *)
(* stands for.                                                             *)

Less == {pair \in Nat \X Nat : pair[1] < pair[2]}

\* Every nonempty set of naturals has a least element.
LEMMA LeastNumber ==
  ASSUME NEW T, T \subseteq Nat, T # {}
  PROVE  \E x \in T : \A y \in T : ~(y < x)
<1>1. IsWellFoundedOn(Less, Nat)
  BY NatLessThanWellFounded, Zenon DEF OpToRel, Less
<1>2. PICK x \in T : \A y \in T : ~(<<y, x>> \in Less)
  BY <1>1, WFMin, Zenon
<1>3. \A y \in T : y < x => <<y, x>> \in Less
  BY DEF Less
<1> QED
  BY <1>2, <1>3

\* What holds before the first turn of a loop and goes on holding with each, holds
\* after all of them: S is the set of turns after which it holds.
LEMMA LoopInduction ==
  ASSUME NEW N \in Nat, NEW S, 0 \in S, \A n \in 1..N : n - 1 \in S => n \in S
  PROVE  0..N \subseteq S
<1> SUFFICES ASSUME (0..N) \ S # {} PROVE FALSE
  OBVIOUS
<1>1. PICK x \in (0..N) \ S : \A y \in (0..N) \ S : ~(y < x)
  <2>1. (0..N) \ S \subseteq Nat
    OBVIOUS
  <2> QED
    BY <2>1, LeastNumber, Zenon
<1>2. x \in 1..N /\ x - 1 \in 0..N /\ x - 1 < x
  BY <1>1
<1> QED
  BY <1>1, <1>2

(* turn maps the number of a turn and the state before it to the state     *)
(* after it; f holds the states after the turns.                           *)
TurnsOver(turn, N, X) == \A n \in 1..N, x \in X : turn[<<n, x>>] \in X

RunOf(f, N, start, turn) == f[0] = start /\ \A n \in 1..N : f[n] = turn[<<n, f[n - 1]>>]

\* A loop of N turns over a set X has a run.
LEMMA LoopRuns ==
  ASSUME NEW N \in Nat, NEW X, NEW start \in X, NEW turn, TurnsOver(turn, N, X)
  PROVE  \E f \in [0..N -> X] : RunOf(f, N, start, turn)
<1> DEFINE Run(f, n) == f[0] = start /\ \A i \in 1..n : f[i] = turn[<<i, f[i - 1]>>]
           S == {n \in 0..N : \E f \in [0..n -> X] : Run(f, n)}
<1>1. 0 \in S
  <2>1. PICK f : f = [i \in 0..0 |-> start]
    OBVIOUS
  <2>2. f \in [0..0 -> X] /\ Run(f, 0)
    BY <2>1
  <2> QED
    BY <2>2
<1>2. ASSUME NEW n \in 1..N, n - 1 \in S PROVE n \in S
  <2>1. PICK f \in [0..(n - 1) -> X] : Run(f, n - 1)
    BY <1>2
  <2>2. f[n - 1] \in X /\ turn[<<n, f[n - 1]>>] \in X
    BY <2>1 DEF TurnsOver
  <2>3. PICK g : g = [i \in 0..n |-> IF i = n THEN turn[<<n, f[n - 1]>>] ELSE f[i]]
    OBVIOUS
  <2>4. g \in [0..n -> X] /\ g[n] = turn[<<n, f[n - 1]>>] /\ \A i \in 0..(n - 1) : g[i] = f[i]
    BY <2>2, <2>3
  <2>5. Run(g, n)
    <3>1. g[0] = start
      BY <2>1, <2>4
    <3>2. ASSUME NEW i \in 1..n PROVE g[i] = turn[<<i, g[i - 1]>>]
      <4>1. CASE i = n
        BY <2>4, <4>1
      <4>2. CASE i # n
        BY <2>1, <2>4, <4>2
      <4> QED
        BY <4>1, <4>2
    <3> QED
      BY <3>1, <3>2
  <2>6. n \in 0..N /\ \E h \in [0..n -> X] : Run(h, n)
    <3> HIDE DEF Run
    <3> QED
      BY <2>4, <2>5
  <2> QED
    BY <2>6
<1>3. 0..N \subseteq S
  <2> HIDE DEF S
  <2> QED
    BY <1>1, <1>2, LoopInduction
<1>4. N \in S
  BY <1>3
<1> QED
  BY <1>4 DEF RunOf

\* A sequence, whatever its elements are.
IsSeq(s) == \E X : s \in Seq(X)

\* Appending to a sequence of any elements.
LEMMA Appended ==
  ASSUME NEW s, IsSeq(s), NEW e
  PROVE  /\ IsSeq(Append(s, e)) /\ Len(s) \in Nat /\ Len(s) + 1 \notin DOMAIN s
         /\ DOMAIN Append(s, e) = DOMAIN s \cup {Len(s) + 1}
         /\ Append(s, e)[Len(s) + 1] = e /\ \A i \in DOMAIN s : Append(s, e)[i] = s[i]
<1>1. PICK X : s \in Seq(X)
  BY DEF IsSeq
<1>2. s \in Seq(X \cup {e}) /\ Append(s, e) \in Seq(X \cup {e})
  BY <1>1
<1>3. IsSeq(Append(s, e))
  BY <1>2 DEF IsSeq
<1>4. /\ Len(s) \in Nat /\ Len(s) + 1 \notin DOMAIN s
      /\ DOMAIN Append(s, e) = DOMAIN s \cup {Len(s) + 1}
      /\ Append(s, e)[Len(s) + 1] = e /\ \A i \in DOMAIN s : Append(s, e)[i] = s[i]
  BY <1>2
<1> QED
  BY <1>3, <1>4

\* A sequence with other elements.
LEMMA Replaced ==
  ASSUME NEW s, IsSeq(s), NEW t, t = [i \in DOMAIN s |-> t[i]]
  PROVE  IsSeq(t) /\ DOMAIN t = DOMAIN s
<1>1. PICK X : s \in Seq(X)
  BY DEF IsSeq
<1>2. PICK Y : Y = {t[i] : i \in DOMAIN s}
  OBVIOUS
<1>3. t \in Seq(Y) /\ DOMAIN t = DOMAIN s
  BY <1>1, <1>2
<1> QED
  BY <1>3 DEF IsSeq

-----------------------------------------------------------------------------
(* Sums over finite sets.                                                  *)

(* The element with which the sum over a set begins.                       *)
First(s) == CHOOSE x \in s : TRUE

\* h holds the sum of the weights over each set of elements.
SumsOf(h, w, D) ==
  /\ h \in [SUBSET D -> Nat]
  /\ h[{}] = 0
  /\ \A s \in SUBSET D : s # {} => h[s] = w[First(s)] + h[s \ {First(s)}]

Weights(w, D) == IsFiniteSet(D) /\ w \in [D -> Nat]

\* Taking one element out of a finite set.
LEMMA OneLess ==
  ASSUME NEW D, IsFiniteSet(D), NEW s \in SUBSET D, s # {}
  PROVE  /\ First(s) \in s /\ s \ {First(s)} \in SUBSET D
         /\ Cardinality(s) \in 1..Cardinality(D) /\ Cardinality(D) \in Nat
         /\ \A i \in s : Cardinality(s \ {i}) = Cardinality(s) - 1
<1>1. IsFiniteSet(s) /\ Cardinality(s) \in Nat /\ Cardinality(D) \in Nat /\ Cardinality(s) <= Cardinality(D)
  BY FS_Subset, FS_CardinalityType
<1>2. \A i \in s : Cardinality(s \ {i}) = Cardinality(s) - 1 /\ Cardinality(s \ {i}) \in Nat
  <2> TAKE i \in s
  <2>1. IsFiniteSet(s \ {i}) /\ Cardinality(s \ {i}) = Cardinality(s) - 1
    BY <1>1, FS_RemoveElement
  <2> QED
    BY <2>1, FS_CardinalityType
<1>3. First(s) \in s
  BY Zenon DEF First
<1>4. Cardinality(s) \in 1..Cardinality(D)
  <2>1. PICK k \in Nat : k = Cardinality(s \ {First(s)})
    BY <1>2, <1>3
  <2>2. Cardinality(s) = k + 1
    BY <1>1, <1>2, <1>3, <2>1
  <2> QED
    BY <1>1, <2>2
<1> QED
  BY <1>1, <1>2, <1>3, <1>4

(* One more turn of the sum: right for sets with one more element.         *)
SumMore(h, w, D) == [s \in SUBSET D |-> IF s = {} THEN 0 ELSE w[First(s)] + h[s \ {First(s)}]]

\* The sums exist.
LEMMA SumsExist ==
  ASSUME NEW w, NEW D, Weights(w, D)
  PROVE  \E h : SumsOf(h, w, D)
<1> DEFINE X == [SUBSET D -> Nat]
           N == Cardinality(D) + 1
<1>1. IsFiniteSet(D) /\ N \in Nat /\ N - 1 \in Nat /\ N - 1 = Cardinality(D) /\ \A i \in D : w[i] \in Nat
  BY FS_CardinalityType DEF Weights
<1>2. PICK zero : zero = [s \in SUBSET D |-> 0]
  OBVIOUS
<1>3. zero \in X
  BY <1>2
<1>4. ASSUME NEW h \in X PROVE SumMore(h, w, D) \in X
  <2>1. \A s \in SUBSET D : s # {} => w[First(s)] + h[s \ {First(s)}] \in Nat
    BY <1>1, <1>4, OneLess
  <2> QED
    BY <2>1 DEF SumMore
<1> HIDE DEF X, N
<1>5. PICK turn : turn = [p \in (1..N) \X X |-> SumMore(p[2], w, D)]
  OBVIOUS
<1>6. \A n \in 1..N, x \in X : turn[<<n, x>>] = SumMore(x, w, D)
  BY <1>5
<1>7. PICK run \in [0..N -> X] : RunOf(run, N, zero, turn)
  <2>1. TurnsOver(turn, N, X)
    BY <1>4, <1>6 DEF TurnsOver
  <2> QED
    BY <1>1, <1>3, <2>1, LoopRuns
<1>8. ASSUME NEW n \in 1..N PROVE run[n - 1] \in X /\ run[n] = SumMore(run[n - 1], w, D)
  <2>1. n - 1 \in 0..N
    BY <1>1
  <2>2. run[n - 1] \in X
    BY <1>7, <2>1, Zenon
  <2> QED
    BY <1>6, <1>7, <2>2 DEF RunOf
<1> DEFINE S == {n \in 0..(N - 1) : \A s \in SUBSET D : Cardinality(s) <= n => run[n][s] = run[n + 1][s]}
<1>9. 0 \in S
  <2>1. 0 \in 0..(N - 1) /\ 1 \in 1..N /\ 1 - 1 = 0 /\ 0 + 1 = 1
    BY <1>1
  <2>2. ASSUME NEW s \in SUBSET D, Cardinality(s) <= 0 PROVE run[0][s] = run[1][s]
    <3>1. s = {}
      BY <1>1, <2>2, OneLess
    <3>2. run[1][s] = 0
      BY <1>8, <2>1, <3>1 DEF SumMore
    <3>3. run[0][s] = 0
      BY <1>2, <1>7 DEF RunOf
    <3> QED
      BY <3>2, <3>3
  <2> QED
    BY <2>1, <2>2
<1>10. ASSUME NEW n \in 1..(N - 1), n - 1 \in S PROVE n \in S
  <2>1. n \in 0..(N - 1) /\ n \in 1..N /\ n + 1 \in 1..N /\ (n + 1) - 1 = n /\ (n - 1) + 1 = n
    BY <1>1
  <2>2. \A s \in SUBSET D : Cardinality(s) <= n - 1 => run[n - 1][s] = run[n][s]
    BY <1>10, <2>1
  <2>3. run[n] = SumMore(run[n - 1], w, D) /\ run[n + 1] = SumMore(run[n], w, D)
    <3>1. \A m \in 1..N : run[m] = SumMore(run[m - 1], w, D)
      BY <1>8
    <3>2. run[n + 1] = SumMore(run[(n + 1) - 1], w, D)
      BY <2>1, <3>1
    <3> QED
      BY <2>1, <3>1, <3>2
  <2>4. ASSUME NEW s \in SUBSET D, Cardinality(s) <= n PROVE run[n][s] = run[n + 1][s]
    <3>1. CASE s = {}
      BY <2>3, <3>1 DEF SumMore
    <3>2. CASE s # {}
      <4>1. s \ {First(s)} \in SUBSET D /\ Cardinality(s \ {First(s)}) <= n - 1
        BY <1>1, <2>4, <3>2, OneLess
      <4>2. run[n - 1][s \ {First(s)}] = run[n][s \ {First(s)}]
        BY <2>2, <4>1
      <4> QED
        BY <2>3, <3>2, <4>2 DEF SumMore
    <3> QED
      BY <3>1, <3>2
  <2> QED
    BY <2>1, <2>4
<1>11. 0..(N - 1) \subseteq S
  <2> HIDE DEF S
  <2> QED
    BY <1>1, <1>9, <1>10, LoopInduction
<1>12. N - 1 \in 0..(N - 1) /\ N \in 1..N /\ N \in 0..N /\ (N - 1) + 1 = N
  BY <1>1
<1>13. \A s \in SUBSET D : Cardinality(s) <= N - 1 => run[N - 1][s] = run[N][s]
  BY <1>11, <1>12
<1>14. run[N] = SumMore(run[N - 1], w, D) /\ run[N] \in X
  BY <1>7, <1>8, <1>12
<1>15. SumsOf(run[N], w, D)
  <2>1. run[N] \in [SUBSET D -> Nat] /\ run[N][{}] = 0
    BY <1>14 DEF SumMore, X
  <2>2. ASSUME NEW s \in SUBSET D, s # {} PROVE run[N][s] = w[First(s)] + run[N][s \ {First(s)}]
    <3>1. s \ {First(s)} \in SUBSET D /\ Cardinality(s \ {First(s)}) <= N - 1
      <4>1. /\ s \ {First(s)} \in SUBSET D /\ Cardinality(s) \in 1..Cardinality(D)
            /\ Cardinality(s \ {First(s)}) = Cardinality(s) - 1
        BY <1>1, <2>2, OneLess
      <4> QED
        BY <1>1, <4>1
    <3>2. run[N - 1][s \ {First(s)}] = run[N][s \ {First(s)}]
      BY <1>13, <3>1
    <3> QED
      BY <1>14, <2>2, <3>2 DEF SumMore
  <2> QED
    BY <2>1, <2>2 DEF SumsOf
<1> QED
  BY <1>15

\* A function that adds up so holds the sums.
LEMMA SumsAre ==
  ASSUME NEW w, NEW D, Weights(w, D), NEW sum, DOMAIN sum = SUBSET D, sum = [s \in SUBSET D |-> sum[s]],
         sum[{}] = 0, \A s \in SUBSET D : s # {} => sum[s] = w[First(s)] + sum[s \ {First(s)}]
  PROVE  SumsOf(sum, w, D)
<1>1. IsFiniteSet(D) /\ Cardinality(D) \in Nat /\ \A i \in D : w[i] \in Nat
  BY FS_CardinalityType DEF Weights
<1> DEFINE S == {n \in 0..Cardinality(D) : \A s \in SUBSET D : Cardinality(s) <= n => sum[s] \in Nat}
<1>2. 0 \in S
  <2>1. \A s \in SUBSET D : Cardinality(s) <= 0 => s = {}
    BY <1>1, OneLess
  <2>2. \A s \in SUBSET D : Cardinality(s) <= 0 => sum[s] \in Nat
    <3> TAKE s \in SUBSET D
    <3> HAVE Cardinality(s) <= 0
    <3>1. s = {}
      BY <2>1
    <3>2. sum[s] = 0
      BY <3>1, Zenon
    <3> QED
      BY <3>2
  <2>3. 0 \in 0..Cardinality(D)
    BY <1>1
  <2> QED
    BY <2>2, <2>3
<1>3. ASSUME NEW n \in 1..Cardinality(D), n - 1 \in S PROVE n \in S
  <2>1. \A s \in SUBSET D : Cardinality(s) <= n - 1 => sum[s] \in Nat
    BY <1>3
  <2>2. ASSUME NEW s \in SUBSET D, Cardinality(s) <= n PROVE sum[s] \in Nat
    <3>1. CASE s = {}
      BY <3>1
    <3>2. CASE s # {}
      <4>1. First(s) \in D /\ s \ {First(s)} \in SUBSET D /\ Cardinality(s \ {First(s)}) <= n - 1
        BY <1>1, <2>2, <3>2, OneLess
      <4>2. sum[s \ {First(s)}] \in Nat
        BY <2>1, <4>1
      <4>3. PICK a \in Nat : a = w[First(s)]
        BY <1>1, <4>1
      <4>4. PICK b \in Nat : b = sum[s \ {First(s)}]
        BY <4>2
      <4>5. sum[s] = a + b
        BY <3>2, <4>3, <4>4
      <4> QED
        BY <4>5
    <3> QED
      BY <3>1, <3>2
  <2>3. n \in 0..Cardinality(D)
    BY <1>1
  <2> QED
    BY <2>2, <2>3
<1>4. 0..Cardinality(D) \subseteq S
  <2> HIDE DEF S
  <2> QED
    BY <1>1, <1>2, <1>3, LoopInduction
<1>5. \A s \in SUBSET D : sum[s] \in Nat
  <2> TAKE s \in SUBSET D
  <2>1. Cardinality(s) <= Cardinality(D)
    BY <1>1, FS_Subset
  <2>2. Cardinality(D) \in S
    <3>1. Cardinality(D) \in 0..Cardinality(D)
      BY <1>1
    <3> HIDE DEF S
    <3> QED
      BY <1>4, <3>1
  <2> QED
    BY <2>1, <2>2
<1>6. sum \in [SUBSET D -> Nat]
  BY <1>5
<1> QED
  BY <1>6 DEF SumsOf

\* The sum takes its elements in any order.
LEMMA SumAny ==
  ASSUME NEW w, NEW D, Weights(w, D), NEW h, SumsOf(h, w, D), NEW s \in SUBSET D, NEW i \in s
  PROVE  h[s] = w[i] + h[s \ {i}]
<1> DEFINE S == {n \in 0..Cardinality(D) :
                   \A t \in SUBSET D : Cardinality(t) <= n => \A j \in t : h[t] = w[j] + h[t \ {j}]}
<1>1. IsFiniteSet(D) /\ Cardinality(D) \in Nat /\ (\A j \in D : w[j] \in Nat) /\ h \in [SUBSET D -> Nat]
  BY FS_CardinalityType DEF Weights, SumsOf
<1>2. 0 \in S
  <2>1. \A t \in SUBSET D : Cardinality(t) <= 0 => t = {}
    BY <1>1, OneLess
  <2> QED
    BY <1>1, <2>1
<1>3. ASSUME NEW n \in 1..Cardinality(D), n - 1 \in S PROVE n \in S
  <2>1. \A t \in SUBSET D : Cardinality(t) <= n - 1 => \A j \in t : h[t] = w[j] + h[t \ {j}]
    BY <1>3
  <2>2. ASSUME NEW t \in SUBSET D, Cardinality(t) <= n, NEW j \in t PROVE h[t] = w[j] + h[t \ {j}]
    <3>1. PICK c \in t : c = First(t)
      BY <1>1, OneLess
    <3>2. h[t] = w[c] + h[t \ {c}]
      BY <3>1 DEF SumsOf
    <3>3. CASE j = c
      BY <3>2, <3>3
    <3>4. CASE j # c
      <4>1. /\ t \ {c} \in SUBSET D /\ t \ {j} \in SUBSET D /\ j \in t \ {c} /\ c \in t \ {j}
            /\ (t \ {c}) \ {j} = (t \ {j}) \ {c} /\ (t \ {c}) \ {j} \in SUBSET D
        BY <3>4
      <4>2. Cardinality(t \ {c}) <= n - 1 /\ Cardinality(t \ {j}) <= n - 1
        <5>1. Cardinality(t \ {c}) = Cardinality(t) - 1 /\ Cardinality(t \ {j}) = Cardinality(t) - 1
          BY <1>1, OneLess
        <5>2. Cardinality(t) \in Nat
          BY <1>1, OneLess
        <5> QED
          BY <2>2, <5>1, <5>2
      <4>3. h[t \ {c}] = w[j] + h[(t \ {c}) \ {j}] /\ h[t \ {j}] = w[c] + h[(t \ {j}) \ {c}]
        BY <2>1, <4>1, <4>2
      <4>4. PICK r \in Nat : r = h[(t \ {c}) \ {j}] /\ r = h[(t \ {j}) \ {c}]
        BY <1>1, <4>1
      <4>5. w[j] \in Nat /\ w[c] \in Nat
        BY <1>1
      <4> QED
        BY <3>2, <4>3, <4>4, <4>5
    <3> QED
      BY <3>3, <3>4
  <2>3. n \in 0..Cardinality(D)
    BY <1>1
  <2> QED
    BY <2>2, <2>3
<1>4. 0..Cardinality(D) \subseteq S
  <2> HIDE DEF S
  <2> QED
    BY <1>1, <1>2, <1>3, LoopInduction
<1>5. Cardinality(s) <= Cardinality(D) /\ Cardinality(D) \in S
  BY <1>1, <1>4, FS_Subset
<1> QED
  BY <1>5

\* Two weights that agree on a set have the same sum over it.
LEMMA SumsAgree ==
  ASSUME NEW D, NEW w, Weights(w, D), NEW h, SumsOf(h, w, D),
         NEW v, Weights(v, D), NEW k, SumsOf(k, v, D),
         NEW s \in SUBSET D, \A i \in s : w[i] = v[i]
  PROVE  h[s] = k[s]
<1> DEFINE S == {n \in 0..Cardinality(D) :
                   \A t \in SUBSET s : Cardinality(t) <= n => h[t] = k[t]}
<1>1. IsFiniteSet(D) /\ Cardinality(D) \in Nat /\ h[{}] = 0 /\ k[{}] = 0
  BY FS_CardinalityType DEF Weights, SumsOf
<1>2. 0 \in S
  <2>1. \A t \in SUBSET D : Cardinality(t) <= 0 => t = {}
    BY <1>1, OneLess
  <2>2. \A t \in SUBSET s : t \in SUBSET D
    OBVIOUS
  <2>3. \A t \in SUBSET s : Cardinality(t) <= 0 => h[t] = k[t]
    BY <1>1, <2>1, <2>2
  <2>4. 0 \in 0..Cardinality(D)
    BY <1>1
  <2> QED
    BY <2>3, <2>4
<1>3. ASSUME NEW n \in 1..Cardinality(D), n - 1 \in S PROVE n \in S
  <2>1. \A t \in SUBSET s : Cardinality(t) <= n - 1 => h[t] = k[t]
    BY <1>3
  <2>2. ASSUME NEW t \in SUBSET s, Cardinality(t) <= n PROVE h[t] = k[t]
    <3>1. CASE t = {}
      BY <1>1, <3>1
    <3>2. CASE t # {}
      <4>1. t \in SUBSET D
        OBVIOUS
      <4>2. First(t) \in s /\ t \ {First(t)} \in SUBSET s
        BY <1>1, <3>2, <4>1, OneLess
      <4>3. Cardinality(t \ {First(t)}) <= n - 1
        <5>1. Cardinality(t \ {First(t)}) = Cardinality(t) - 1 /\ Cardinality(t) \in Nat
          BY <1>1, <3>2, <4>1, OneLess
        <5> QED
          BY <2>2, <5>1
      <4>4. h[t \ {First(t)}] = k[t \ {First(t)}] /\ w[First(t)] = v[First(t)]
        BY <2>1, <4>2, <4>3
      <4> QED
        BY <3>2, <4>1, <4>4 DEF SumsOf
    <3> QED
      BY <3>1, <3>2
  <2>3. n \in 0..Cardinality(D)
    BY <1>1
  <2> QED
    BY <2>2, <2>3
<1>4. 0..Cardinality(D) \subseteq S
  <2> HIDE DEF S
  <2> QED
    BY <1>1, <1>2, <1>3, LoopInduction
<1>5. Cardinality(s) <= Cardinality(D) /\ Cardinality(D) \in S /\ s \in SUBSET s
  BY <1>1, <1>4, FS_Subset
<1> QED
  BY <1>5

-----------------------------------------------------------------------------
(* Sums over the turns of a loop: x is what w adds up to over 1..N.        *)
AddsUp(x, w, N) ==
  \E t \in [0..N -> Nat] : t[0] = 0 /\ (\A n \in 1..N : t[n] = t[n - 1] + w[n]) /\ x = t[N]

\* There is a sum.
LEMMA SumOfTurns ==
  ASSUME NEW N \in Nat, NEW w \in [1..N -> Nat]
  PROVE  \E x \in Nat : AddsUp(x, w, N)
<1>1. PICK turn : turn = [p \in (1..N) \X Nat |-> p[2] + w[p[1]]]
  OBVIOUS
<1>2. \A n \in 1..N, x \in Nat : turn[<<n, x>>] = x + w[n] /\ turn[<<n, x>>] \in Nat
  BY <1>1
<1>3. PICK f \in [0..N -> Nat] : RunOf(f, N, 0, turn)
  <2>1. TurnsOver(turn, N, Nat)
    BY <1>2, Zenon DEF TurnsOver
  <2> QED
    BY <2>1, LoopRuns
<1>4. ASSUME NEW n \in 1..N PROVE f[n] = f[n - 1] + w[n]
  <2>1. f[n - 1] \in Nat
    <3>1. n - 1 \in 0..N
      OBVIOUS
    <3> QED
      BY <1>3, <3>1, Zenon
  <2>2. f[n] = turn[<<n, f[n - 1]>>]
    BY <1>3, Zenon DEF RunOf
  <2> QED
    BY <1>2, <2>1, <2>2, Zenon
<1>5. f[0] = 0 /\ f[N] \in Nat
  <2>1. N \in 0..N
    OBVIOUS
  <2> QED
    BY <1>3, <2>1, Zenon DEF RunOf
<1>6. AddsUp(f[N], w, N)
  BY <1>3, <1>4, <1>5, Zenon DEF AddsUp
<1> QED
  BY <1>5, <1>6

\* Where the parts are at most the sum of two others, so is the whole.
LEMMA SumsBelow ==
  ASSUME NEW N \in Nat, NEW w \in [1..N -> Nat], NEW v \in [1..N -> Nat], NEW u \in [1..N -> Nat],
         NEW x, AddsUp(x, w, N), NEW y, AddsUp(y, v, N), NEW z, AddsUp(z, u, N),
         \A n \in 1..N : u[n] <= w[n] + v[n]
  PROVE  x \in Nat /\ y \in Nat /\ z \in Nat /\ z <= x + y
<1>1. PICK a \in [0..N -> Nat] : a[0] = 0 /\ (\A n \in 1..N : a[n] = a[n - 1] + w[n]) /\ x = a[N]
  BY DEF AddsUp
<1>2. PICK b \in [0..N -> Nat] : b[0] = 0 /\ (\A n \in 1..N : b[n] = b[n - 1] + v[n]) /\ y = b[N]
  BY DEF AddsUp
<1>3. PICK c \in [0..N -> Nat] : c[0] = 0 /\ (\A n \in 1..N : c[n] = c[n - 1] + u[n]) /\ z = c[N]
  BY DEF AddsUp
<1> DEFINE S == {n \in 0..N : c[n] <= a[n] + b[n]}
<1>4. 0 \in S
  BY <1>1, <1>2, <1>3
<1>5. ASSUME NEW n \in 1..N, n - 1 \in S PROVE n \in S
  <2>1. PICK k \in 0..N : k = n - 1
    OBVIOUS
  <2>2. c[k] <= a[k] + b[k] /\ a[k] \in Nat /\ b[k] \in Nat /\ c[k] \in Nat
    BY <1>5, <2>1
  <2>3. w[n] \in Nat /\ v[n] \in Nat /\ u[n] \in Nat /\ u[n] <= w[n] + v[n] /\ n \in 0..N
    OBVIOUS
  <2>4. a[n] = a[k] + w[n] /\ b[n] = b[k] + v[n] /\ c[n] = c[k] + u[n]
    BY <1>1, <1>2, <1>3, <2>1
  <2>5. c[n] <= a[n] + b[n]
    <3>1. PICK p \in Nat, q \in Nat, r \in Nat : p = a[k] /\ q = b[k] /\ r = c[k]
      BY <2>2
    <3>2. PICK e \in Nat, f \in Nat, g \in Nat : e = w[n] /\ f = v[n] /\ g = u[n]
      BY <2>3
    <3>3. a[n] = p + e /\ b[n] = q + f /\ c[n] = r + g /\ r <= p + q /\ g <= e + f
      BY <2>2, <2>3, <2>4, <3>1, <3>2
    <3> QED
      BY <3>3
  <2> QED
    BY <2>3, <2>5
<1>6. 0..N \subseteq S
  <2> HIDE DEF S
  <2> QED
    BY <1>4, <1>5, LoopInduction
<1>7. N \in S
  BY <1>6
<1> QED
  BY <1>1, <1>2, <1>3, <1>7

\* The sum of nothing is nothing.
LEMMA SumOfZeros ==
  ASSUME NEW N \in Nat
  PROVE  AddsUp(0, [n \in 1..N |-> 0], N)
<1>1. PICK t : t = [n \in 0..N |-> 0]
  OBVIOUS
<1>2. t \in [0..N -> Nat] /\ t[0] = 0 /\ t[N] = 0 /\ \A n \in 1..N : t[n] = 0 /\ t[n - 1] = 0
  BY <1>1
<1>3. \A n \in 1..N : t[n] = t[n - 1] + [m \in 1..N |-> 0][n]
  BY <1>2
<1> QED
  BY <1>2, <1>3, Zenon DEF AddsUp

MoreAt(v, w, N, i, d) == v[i] = w[i] + d /\ \A n \in 1..N : n # i => v[n] = w[n]

\* With one part more by d, the whole is.
LEMMA SumAt ==
  ASSUME NEW N \in Nat, NEW w \in [1..N -> Nat], NEW v \in [1..N -> Nat], NEW x, AddsUp(x, w, N),
         NEW y, AddsUp(y, v, N), NEW i \in 1..N, NEW d \in Nat, MoreAt(v, w, N, i, d)
  PROVE  y = x + d
<1>1. PICK a \in [0..N -> Nat] : a[0] = 0 /\ (\A n \in 1..N : a[n] = a[n - 1] + w[n]) /\ x = a[N]
  BY DEF AddsUp
<1>2. PICK b \in [0..N -> Nat] : b[0] = 0 /\ (\A n \in 1..N : b[n] = b[n - 1] + v[n]) /\ y = b[N]
  BY DEF AddsUp
<1>0. v[i] = w[i] + d /\ \A n \in 1..N : n # i => v[n] = w[n]
  BY DEF MoreAt
<1> DEFINE S == {n \in 0..N : b[n] = IF n < i THEN a[n] ELSE a[n] + d}
<1>3. 0 \in S
  BY <1>1, <1>2
<1>4. ASSUME NEW n \in 1..N, n - 1 \in S PROVE n \in S
  <2>1. PICK p \in Nat : p = a[n - 1]
    BY <1>1
  <2>2. PICK q \in Nat : q = w[n]
    OBVIOUS
  <2>3. a[n] = p + q /\ n \in 0..N
    BY <1>1, <2>1, <2>2
  <2>4. CASE n < i
    BY <1>0, <1>2, <1>4, <2>1, <2>2, <2>3, <2>4
  <2>5. CASE n = i
    <3>1. b[n - 1] = p /\ v[n] = q + d
      BY <1>0, <1>4, <2>1, <2>2, <2>5
    <3> QED
      BY <1>2, <2>3, <2>5, <3>1
  <2>6. CASE n > i
    <3>1. b[n - 1] = p + d /\ v[n] = q
      BY <1>0, <1>4, <2>1, <2>2, <2>6
    <3> QED
      BY <1>2, <2>3, <2>6, <3>1
  <2> QED
    BY <2>4, <2>5, <2>6
<1>5. 0..N \subseteq S
  <2> HIDE DEF S
  <2> QED
    BY <1>3, <1>4, LoopInduction
<1>6. N \in S
  BY <1>5
<1> QED
  BY <1>1, <1>2, <1>6

\* Zeros at the end add nothing.
LEMMA SumLonger ==
  ASSUME NEW N \in Nat, NEW M \in Nat, N <= M, NEW w \in [1..N -> Nat], NEW v \in [1..M -> Nat],
         NEW x, AddsUp(x, w, N), NEW y, AddsUp(y, v, M), \A n \in 1..M : v[n] = IF n <= N THEN w[n] ELSE 0
  PROVE  y = x
<1>1. PICK a \in [0..N -> Nat] : a[0] = 0 /\ (\A n \in 1..N : a[n] = a[n - 1] + w[n]) /\ x = a[N]
  BY DEF AddsUp
<1>2. PICK b \in [0..M -> Nat] : b[0] = 0 /\ (\A n \in 1..M : b[n] = b[n - 1] + v[n]) /\ y = b[M]
  BY DEF AddsUp
<1> DEFINE S == {n \in 0..M : b[n] = IF n <= N THEN a[n] ELSE a[N]}
<1>3. 0 \in S
  BY <1>1, <1>2
<1>4. ASSUME NEW n \in 1..M, n - 1 \in S PROVE n \in S
  <2>1. CASE n <= N
    <3>1. b[n - 1] = a[n - 1] /\ v[n] = w[n] /\ n \in 1..N
      BY <1>4, <2>1
    <3> QED
      BY <1>1, <1>2, <2>1, <3>1
  <2>2. CASE n > N
    <3>1. v[n] = 0 /\ a[N] \in Nat
      BY <1>1, <2>2
    <3>2. b[n - 1] = a[N]
      <4>1. CASE n - 1 = N
        BY <1>4, <4>1
      <4>2. CASE n - 1 > N
        BY <1>4, <4>2
      <4> QED
        BY <2>2, <4>1, <4>2
    <3> QED
      BY <1>2, <2>2, <3>1, <3>2
  <2> QED
    BY <2>1, <2>2
<1>5. 0..M \subseteq S
  <2> HIDE DEF S
  <2> QED
    BY <1>3, <1>4, LoopInduction
<1>6. M \in S
  BY <1>5
<1> QED
  BY <1>1, <1>2, <1>6

\* There is one sum.
LEMMA SumSame ==
  ASSUME NEW N \in Nat, NEW w \in [1..N -> Nat], NEW x, AddsUp(x, w, N), NEW y, AddsUp(y, w, N)
  PROVE  x = y
<1>1. N <= N /\ \A n \in 1..N : w[n] = IF n <= N THEN w[n] ELSE 0
  OBVIOUS
<1> QED
  BY <1>1, SumLonger

-----------------------------------------------------------------------------
(* Ranks in a finite set with a strict order, a set R of pairs.            *)

OrderedBy(S, R) ==
  /\ IsFiniteSet(S)
  /\ \A i \in S : <<i, i>> \notin R
  /\ \A i, j, k \in S : <<i, j>> \in R /\ <<j, k>> \in R => <<i, k>> \in R
  /\ \A i, j \in S : i # j => <<i, j>> \in R \/ <<j, i>> \in R

Ahead(i, S, R) == {j \in S : <<j, i>> \in R}

\* Every rank is taken.
LEMMA RanksTaken ==
  ASSUME NEW S, NEW R, OrderedBy(S, R), NEW n \in 1..Cardinality(S)
  PROVE  \E i \in S : Cardinality(Ahead(i, S, R)) = n - 1
<1>1. IsFiniteSet(S)
  BY DEF OrderedBy
<1>2. PICK N \in Nat : N = Cardinality(S)
  BY <1>1, FS_CardinalityType
<1>3. ASSUME NEW i \in S
      PROVE  /\ IsFiniteSet(Ahead(i, S, R)) /\ Cardinality(Ahead(i, S, R)) \in 0..(N - 1)
             /\ i \notin Ahead(i, S, R)
  <2>1. i \notin Ahead(i, S, R) /\ Ahead(i, S, R) \in SUBSET (S \ {i})
    BY DEF Ahead, OrderedBy
  <2>2. IsFiniteSet(S \ {i}) /\ Cardinality(S \ {i}) = N - 1
    BY <1>1, <1>2, FS_RemoveElement
  <2>3. IsFiniteSet(Ahead(i, S, R)) /\ Cardinality(Ahead(i, S, R)) <= N - 1
    BY <2>1, <2>2, FS_Subset
  <2>4. Cardinality(Ahead(i, S, R)) \in Nat
    BY <2>3, FS_CardinalityType
  <2> QED
    BY <1>2, <2>1, <2>3, <2>4
<1>4. ASSUME NEW i \in S, NEW j \in S, <<i, j>> \in R
      PROVE  Cardinality(Ahead(i, S, R)) # Cardinality(Ahead(j, S, R))
  <2>1. Ahead(i, S, R) \in SUBSET Ahead(j, S, R) /\ i \in Ahead(j, S, R)
    BY <1>4 DEF Ahead, OrderedBy
  <2>2. Ahead(i, S, R) # Ahead(j, S, R)
    BY <1>3, <2>1
  <2> QED
    BY <1>3, <2>1, <2>2, FS_Subset
<1>5. PICK rank : rank = [i \in S |-> Cardinality(Ahead(i, S, R))]
  OBVIOUS
<1>6. rank \in [S -> 0..(N - 1)] /\ \A i \in S : rank[i] = Cardinality(Ahead(i, S, R))
  BY <1>3, <1>5
<1>7. ASSUME NEW i \in S, NEW j \in S, rank[i] = rank[j] PROVE i = j
  <2>1. ~(<<i, j>> \in R) /\ ~(<<j, i>> \in R)
    BY <1>4, <1>6, <1>7
  <2> QED
    BY <2>1 DEF OrderedBy
<1>8. rank \in Injection(S, 0..(N - 1))
  BY <1>6, <1>7 DEF Injection, IsInjective
<1>9. IsFiniteSet(0..(N - 1)) /\ Cardinality(0..(N - 1)) = N
  <2>1. 0 \in Int /\ N - 1 \in Int /\ (IF 0 > N - 1 THEN 0 ELSE (N - 1) - 0 + 1) = N
    BY <1>2
  <2> QED
    BY <2>1, FS_Interval
<1>10. rank \in Surjection(S, 0..(N - 1))
  BY <1>2, <1>8, <1>9, FS_Injection
<1>11. n - 1 \in 0..(N - 1)
  BY <1>2
<1> QED
  BY <1>6, <1>10, <1>11 DEF Surjection

=============================================================================
