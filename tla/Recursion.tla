------------------------------ MODULE Recursion ------------------------------
(***************************************************************************)
(* Induction and recursion for the proofs about lists.  The theorems of    *)
(* the library take the induction hypothesis as an operator; here it is a  *)
(* set of numbers, and the body of a recursive function is a function.     *)
(***************************************************************************)
EXTENDS Integers, TLAPS, WellFoundedInduction

\* A set of natural numbers that is not empty has a least member.
LEMMA LeastNatural ==
  ASSUME NEW S \in SUBSET Nat, S # {}
  PROVE  \E m \in S : \A k \in S : m <= k
<1> DEFINE R == {pair \in Nat \X Nat : pair[1] < pair[2]}
<1>1. R = OpToRel(<, Nat)
  BY DEF OpToRel
<1>2. IsWellFoundedOn(R, Nat)
  BY <1>1, NatLessThanWellFounded
<1> HIDE DEF R
<1>3. PICK x \in S : \A y \in S : ~(<<y, x>> \in R)
  BY <1>2, WFMin
<1>4. ASSUME NEW k \in S
      PROVE  x <= k
  <2>1. ~(<<k, x>> \in R) /\ <<k, x>> \in Nat \X Nat
    BY <1>3
  <2>2. ~(k < x)
    BY <2>1 DEF R
  <2>3. QED
    BY <2>2
<1>5. QED
  BY <1>4

\* Induction: a set with 0 and every successor has all natural numbers.
LEMMA Induction ==
  ASSUME NEW S \in SUBSET Nat, 0 \in S, \A n \in S : n + 1 \in S
  PROVE  S = Nat
<1>1. SUFFICES ASSUME Nat \ S # {} PROVE FALSE
  OBVIOUS
<1>2. PICK m \in Nat \ S : \A k \in Nat \ S : m <= k
  BY <1>1, LeastNatural
<1>3. m - 1 \in Nat /\ m - 1 \in S
  BY <1>2
<1>4. QED
  BY <1>2, <1>3

\* Induction on a measure: T has every member of D, when it has each one whose
\* predecessors it has.
LEMMA MeasureInduction ==
  ASSUME NEW D, NEW T, NEW w \in [D -> Nat],
         \A d \in D : (\A e \in D : w[e] < w[d] => e \in T) => d \in T
  PROVE  \A d \in D : d \in T
<1> DEFINE S == {n \in Nat : \A d \in D : w[d] < n => d \in T}
<1>1. 0 \in S
  OBVIOUS
<1>2. ASSUME NEW n \in S
      PROVE  n + 1 \in S
  <2>1. ASSUME NEW d \in D, w[d] < n + 1
        PROVE  d \in T
    <3>1. \A e \in D : w[e] < w[d] => e \in T
      BY <2>1
    <3>2. QED
      BY <3>1
  <2>2. n + 1 \in Nat
    OBVIOUS
  <2>3. QED
    BY <2>1, <2>2
<1>3. S = Nat
  <2> HIDE DEF S
  <2>1. S \in SUBSET Nat
    BY DEF S
  <2>2. QED
    BY <1>1, <1>2, <2>1, Induction
<1>4. ASSUME NEW d \in D
      PROVE  d \in T
  <2>1. w[d] + 1 \in Nat /\ w[d] < w[d] + 1
    OBVIOUS
  <2>2. w[d] + 1 \in S
    BY <1>3, <2>1
  <2>3. QED
    BY <2>1, <2>2
<1>5. QED
  BY <1>4

\* The body of a recursive function from D to X: rule gives the function that
\* the calls make of a function; the calls have arguments of smaller measure w.
Recursive(D, X, w, rule) ==
  /\ w \in [D -> Nat]
  /\ rule \in [[D -> X] -> [D -> X]]
  /\ \A g, h \in [D -> X] : \A d \in D :
       (\A e \in D : w[e] < w[d] => g[e] = h[e]) => rule[g][d] = rule[h][d]

\* Two functions that obey the rule wherever the measure is below n agree there.
LEMMA RuleDetermines ==
  ASSUME NEW D, NEW X, NEW w, NEW rule, Recursive(D, X, w, rule),
         NEW n \in Nat, NEW g \in [D -> X], NEW h \in [D -> X],
         \A d \in D : w[d] < n => g[d] = rule[g][d] /\ h[d] = rule[h][d]
  PROVE  \A d \in D : w[d] < n => g[d] = h[d]
<1> USE DEF Recursive
<1> DEFINE S == {k \in Nat : \A d \in D : w[d] < k /\ w[d] < n => g[d] = h[d]}
<1>1. 0 \in S
  OBVIOUS
<1>2. ASSUME NEW k \in S
      PROVE  k + 1 \in S
  <2>1. ASSUME NEW d \in D, w[d] < k + 1, w[d] < n
        PROVE  g[d] = h[d]
    <3>1. \A e \in D : w[e] < w[d] => g[e] = h[e]
      BY <2>1
    <3>2. rule[g][d] = rule[h][d]
      BY <3>1
    <3>3. QED
      BY <2>1, <3>2
  <2>2. k + 1 \in Nat
    OBVIOUS
  <2>3. QED
    BY <2>1, <2>2
<1>3. S = Nat
  <2> HIDE DEF S
  <2>1. S \in SUBSET Nat
    BY DEF S
  <2>2. QED
    BY <1>1, <1>2, <2>1, Induction
<1>4. n \in S
  BY <1>3
<1>5. QED
  BY <1>4

\* For every n some function obeys the rule wherever the measure is below n.
LEMMA RuleApproximated ==
  ASSUME NEW D, NEW X, NEW w, NEW rule, Recursive(D, X, w, rule), X # {}
  PROVE  \A n \in Nat : \E g \in [D -> X] : \A d \in D : w[d] < n => g[d] = rule[g][d]
<1> USE DEF Recursive
<1> DEFINE S == {n \in Nat : \E g \in [D -> X] : \A d \in D : w[d] < n => g[d] = rule[g][d]}
<1>1. 0 \in S
  <2>1. PICK x \in X : TRUE
    OBVIOUS
  <2> DEFINE g == [d \in D |-> x]
  <2>2. g \in [D -> X]
    OBVIOUS
  <2>3. \A d \in D : w[d] < 0 => g[d] = rule[g][d]
    OBVIOUS
  <2> HIDE DEF g
  <2>4. \E f \in [D -> X] : \A d \in D : w[d] < 0 => f[d] = rule[f][d]
    BY <2>2, <2>3
  <2>5. QED
    BY <2>4
<1>2. ASSUME NEW n \in S
      PROVE  n + 1 \in S
  <2>1. PICK g \in [D -> X] : \A d \in D : w[d] < n => g[d] = rule[g][d]
    OBVIOUS
  <2> DEFINE h == [d \in D |-> IF w[d] < n THEN g[d] ELSE rule[g][d]]
  <2>2. rule[g] \in [D -> X]
    OBVIOUS
  <2>3. h \in [D -> X]
    BY <2>2
  <2>4. ASSUME NEW d \in D, w[d] < n + 1
        PROVE  h[d] = rule[h][d]
    <3>1. \A e \in D : w[e] < w[d] => g[e] = h[e]
      BY <2>4
    <3>2. rule[g][d] = rule[h][d]
      BY <2>3, <3>1
    <3>3. h[d] = rule[g][d]
      BY <2>1
    <3>4. QED
      BY <3>2, <3>3
  <2>5. n + 1 \in Nat
    OBVIOUS
  <2>6. QED
    BY <2>3, <2>4, <2>5
<1>3. S = Nat
  <2> HIDE DEF S
  <2>1. S \in SUBSET Nat
    BY DEF S
  <2>2. QED
    BY <1>1, <1>2, <2>1, Induction
<1>4. QED
  BY <1>3

\* Some function is what the recursive definition says of it.
HasSolution(D, X, rule) == \E g \in [D -> X] : g = rule[g]

\* A recursive definition whose calls have smaller arguments defines a function.
LEMMA RecursionDefines ==
  ASSUME NEW D, NEW X, NEW w, NEW rule, Recursive(D, X, w, rule), X # {}
  PROVE  HasSolution(D, X, rule)
<1> DEFINE Upto(n) == {g \in [D -> X] : \A d \in D : w[d] < n => g[d] = rule[g][d]}
           G == [n \in Nat |-> CHOOSE g \in Upto(n) : TRUE]
           lim == [d \in D |-> G[w[d] + 1][d]]
<1>0. w \in [D -> Nat] /\ rule \in [[D -> X] -> [D -> X]]
  BY DEF Recursive
<1>1. ASSUME NEW n \in Nat
      PROVE  G[n] \in Upto(n)
  <2>1. \E g \in [D -> X] : \A d \in D : w[d] < n => g[d] = rule[g][d]
    BY RuleApproximated
  <2>2. \E g : g \in Upto(n)
    BY <2>1
  <2> HIDE DEF Upto
  <2>3. (CHOOSE g \in Upto(n) : TRUE) \in Upto(n)
    BY <2>2
  <2>4. QED
    BY <2>3
<1> HIDE DEF G
<1>2. ASSUME NEW d \in D
      PROVE  /\ w[d] + 1 \in Nat
             /\ G[w[d] + 1] \in [D -> X]
             /\ \A e \in D : w[e] < w[d] + 1 => G[w[d] + 1][e] = rule[G[w[d] + 1]][e]
  <2>1. w[d] + 1 \in Nat
    BY <1>0
  <2>2. QED
    BY <1>1, <2>1
<1>3. lim \in [D -> X]
  BY <1>2
<1>4. ASSUME NEW d \in D, NEW e \in D, w[e] < w[d]
      PROVE  lim[e] = G[w[d] + 1][e]
  <2> DEFINE g == G[w[e] + 1]
             h == G[w[d] + 1]
             n == w[e] + 1
  <2>1. n \in Nat /\ g \in [D -> X] /\ h \in [D -> X]
    BY <1>2
  <2>2. \A c \in D : w[c] < n => g[c] = rule[g][c]
    BY <1>2
  <2>3. \A c \in D : w[c] < n => h[c] = rule[h][c]
    BY <1>0, <1>2, <1>4
  <2>4. w[e] < n
    BY <1>0
  <2>5. lim[e] = g[e]
    OBVIOUS
  <2> HIDE DEF g, h, n, lim
  <2>6. \A c \in D : w[c] < n => g[c] = h[c]
    BY <2>1, <2>2, <2>3, RuleDetermines
  <2>7. g[e] = h[e]
    BY <2>4, <2>6
  <2>8. QED
    BY <2>5, <2>7 DEF h
<1>5. ASSUME NEW d \in D
      PROVE  lim[d] = rule[lim][d]
  <2> DEFINE h == G[w[d] + 1]
  <2>1. h \in [D -> X] /\ h[d] = rule[h][d]
    BY <1>0, <1>2
  <2>2. \A e \in D : w[e] < w[d] => h[e] = lim[e]
    BY <1>4
  <2>3. lim[d] = h[d]
    OBVIOUS
  <2> HIDE DEF h, lim
  <2>4. rule[h][d] = rule[lim][d]
    BY <1>3, <2>1, <2>2 DEF Recursive
  <2>5. QED
    BY <2>1, <2>3, <2>4
<1> HIDE DEF lim
<1>6. rule[lim] \in [D -> X]
  BY <1>0, <1>3
<1>7. lim = rule[lim]
  BY <1>3, <1>5, <1>6
<1>8. QED
  BY <1>3, <1>7 DEF HasSolution

\* A loop of N rounds: next[x][n] is what round n makes of x.
Loop(N, X, start, next) ==
  {g \in [0 .. N -> X] : g[0] = start /\ \A n \in 1 .. N : g[n] = next[g[n-1]][n]}

\* The results of the rounds of a loop are a function.
LEMMA LoopDefines ==
  ASSUME NEW N \in Nat, NEW X, NEW start \in X, NEW next \in [X -> [1 .. N -> X]]
  PROVE  \E g : g \in Loop(N, X, start, next)
<1> DEFINE D == 0 .. N
           w == [n \in D |-> n]
           body(g, n) == IF n = 0 THEN start ELSE next[g[n-1]][n]
           rule == [g \in [D -> X] |-> [n \in D |-> body(g, n)]]
<1>1. w \in [D -> Nat]
  OBVIOUS
<1>2. ASSUME NEW g \in [D -> X], NEW n \in D
      PROVE  body(g, n) \in X
  <2>1. CASE n = 0
    BY <2>1
  <2>2. CASE n # 0
    <3>1. n \in 1 .. N /\ n - 1 \in D
      BY <2>2
    <3>2. g[n-1] \in X
      BY <3>1
    <3>3. QED
      BY <2>2, <3>1, <3>2
  <2>3. QED
    BY <2>1, <2>2
<1>3. rule \in [[D -> X] -> [D -> X]]
  BY <1>2
<1>4. ASSUME NEW g \in [D -> X], NEW h \in [D -> X], NEW n \in D,
             \A e \in D : w[e] < w[n] => g[e] = h[e]
      PROVE  rule[g][n] = rule[h][n]
  <2>1. CASE n = 0
    BY <2>1
  <2>2. CASE n # 0
    <3>1. n - 1 \in D /\ w[n-1] < w[n]
      BY <2>2
    <3>2. g[n-1] = h[n-1]
      BY <1>4, <3>1
    <3>3. QED
      BY <2>2, <3>2
  <2>3. QED
    BY <2>1, <2>2
<1>5. \A g \in [D -> X] : rule[g] = [n \in D |-> body(g, n)]
  OBVIOUS
<1>6. X # {}
  OBVIOUS
<1> HIDE DEF D, w, body, rule
<1>7. Recursive(D, X, w, rule)
  BY <1>1, <1>3, <1>4 DEF Recursive
<1>8. HasSolution(D, X, rule)
  BY <1>6, <1>7, RecursionDefines
<1>9. PICK g \in [D -> X] : g = rule[g]
  BY <1>8 DEF HasSolution
<1>10. g = [n \in D |-> body(g, n)]
  BY <1>5, <1>9
<1>11. g \in [0 .. N -> X] /\ g[0] = start
  BY <1>9, <1>10 DEF D, body
<1>12. ASSUME NEW n \in 1 .. N
       PROVE  g[n] = next[g[n-1]][n]
  <2>1. n \in D /\ n # 0
    BY DEF D
  <2>2. QED
    BY <1>10, <2>1 DEF body
<1>13. QED
  BY <1>11, <1>12 DEF Loop

\* What holds at the start and is kept by each round holds after each.
LEMMA LoopInduction ==
  ASSUME NEW N \in Nat, NEW T, 0 \in T, \A n \in 1 .. N : n - 1 \in T => n \in T
  PROVE  \A n \in 0 .. N : n \in T
<1> DEFINE S == {n \in Nat : n <= N => n \in T}
<1>1. 0 \in S
  OBVIOUS
<1>2. ASSUME NEW n \in S
      PROVE  n + 1 \in S
  <2>1. n \in Nat /\ n + 1 \in Nat /\ (n <= N => n \in T)
    OBVIOUS
  <2>2. ASSUME n + 1 <= N
        PROVE  n + 1 \in T
    <3>1. n + 1 \in 1 .. N /\ (n + 1) - 1 = n /\ n <= N
      BY <2>1, <2>2
    <3>2. QED
      BY <2>1, <3>1
  <2>3. QED
    BY <2>1, <2>2
<1>3. S = Nat
  <2> HIDE DEF S
  <2>1. S \in SUBSET Nat
    BY DEF S
  <2>2. QED
    BY <1>1, <1>2, <2>1, Induction
<1>4. QED
  BY <1>3
=============================================================================
