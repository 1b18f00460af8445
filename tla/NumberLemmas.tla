---------------------------- MODULE NumberLemmas ---------------------------
(***************************************************************************)
(* Facts about Max and Min, and about recursions along 0..N, that the      *)
(* proofs of several components cite.                                      *)
(***************************************************************************)
EXTENDS Integers, FiniteSets, FiniteSetsExt, WellFoundedInduction, TLAPS

\* A set of naturals that is not empty has a least element, its Min.
LEMMA MinOfNats ==
    ASSUME NEW S, S \subseteq Nat, S # {}
    PROVE  Min(S) \in S /\ \A y \in S : Min(S) <= y
<1>1. \E x \in S : \A y \in S : ~(<<y, x>> \in OpToRel(<, Nat))
  BY NatLessThanWellFounded, WFMin
<1>2. \A x, y \in Nat : y < x => <<y, x>> \in OpToRel(<, Nat)
  BY DEF OpToRel
<1>3. PICK x \in S : \A y \in S : ~(y < x)
  BY <1>1, <1>2
<1>4. \A y \in S : x <= y
  BY <1>3
<1>5. QED
  BY <1>4 DEF Min

\* A bounded one has a greatest element, its Max.
LEMMA MaxOfNats ==
    ASSUME NEW N \in Nat, NEW S, S \subseteq 0..N, S # {}
    PROVE  Max(S) \in S /\ \A y \in S : y <= Max(S)
<1> DEFINE T == {N - x : x \in S}
<1>1. T \subseteq Nat
  OBVIOUS
<1>2. T # {}
  OBVIOUS
<1>3. PICK m \in T : \A y \in T : m <= y
  BY <1>1, <1>2, MinOfNats
<1>4. PICK x \in S : m = N - x
  OBVIOUS
<1>5. \A y \in S : x >= y
  <2> SUFFICES ASSUME NEW y \in S PROVE x >= y
    OBVIOUS
  <2>1. N - y \in T
    OBVIOUS
  <2>2. m <= N - y
    BY <1>3, <2>1
  <2>3. x \in 0..N /\ y \in 0..N
    OBVIOUS
  <2> HIDE DEF T
  <2>4. QED
    BY <1>4, <2>2, <2>3
<1>6. QED
  BY <1>5 DEF Max

\* The greater and the smaller of two numbers.
LEMMA MaxOfTwo ==
    ASSUME NEW a \in Int, NEW b \in Int
    PROVE  /\ Max({a, b}) \in {a, b}
           /\ Max({a, b}) >= a /\ Max({a, b}) >= b
<1>1. \E x \in {a, b} : \A y \in {a, b} : x >= y
  OBVIOUS
<1>2. QED
  BY <1>1 DEF Max

LEMMA MinOfTwo ==
    ASSUME NEW a \in Int, NEW b \in Int
    PROVE  /\ Min({a, b}) \in {a, b}
           /\ Min({a, b}) <= a /\ Min({a, b}) <= b
<1>1. \E x \in {a, b} : \A y \in {a, b} : x <= y
  OBVIOUS
<1>2. QED
  BY <1>1 DEF Min

\* A set that has 0 and with each number of 0..N the next has all of them.
LEMMA UpTo ==
    ASSUME NEW N \in Nat, NEW S, 0 \in S,
           \A n \in 1..N : n - 1 \in S => n \in S
    PROVE  \A n \in 0..N : n \in S
<1> DEFINE Bad == {n \in 0..N : n \notin S}
<1>1. SUFFICES ASSUME Bad # {} PROVE FALSE
  OBVIOUS
<1>2. Bad \subseteq Nat
  OBVIOUS
<1>3. PICK m \in Bad : \A y \in Bad : m <= y
  BY <1>1, <1>2, MinOfNats
<1>4. m \in 0..N /\ m \notin S
  OBVIOUS
<1>5. m # 0
  BY <1>4
<1>6. m \in 1..N /\ m - 1 \in 0..N /\ ~(m <= m - 1)
  BY <1>4, <1>5
<1>7. m - 1 \notin Bad
  <2> HIDE DEF Bad
  <2>1. QED
    BY <1>3, <1>6
<1>8. m - 1 \in S
  BY <1>6, <1>7
<1>9. QED
  BY <1>4, <1>6, <1>8

\* f is the recursion along 0..N that starts at base and steps by G.
Follows(f, N, base, G) ==
    f[0] = base /\ \A n \in 1..N : f[n] = G[<<f[n - 1], n>>]

\* There is one.
LEMMA RecursionExists ==
    ASSUME NEW X, NEW N \in Nat, NEW base \in X, NEW G \in [X \X (1..N) -> X]
    PROVE  \E f \in [0..N -> X] : Follows(f, N, base, G)
<1> DEFINE Solves(f, m) ==
        /\ f \in [0..m -> X] /\ f[0] = base
        /\ \A n \in 1..m : f[n] = G[<<f[n - 1], n>>]
    Bad == {m \in 0..N : ~\E f : Solves(f, m)}
<1>1. Bad = {}
  <2>1. SUFFICES ASSUME Bad # {} PROVE FALSE
    OBVIOUS
  <2>2. PICK m \in Bad : \A y \in Bad : m <= y
    <3>1. Bad \subseteq Nat
      OBVIOUS
    <3>2. QED
      BY <2>1, <3>1, MinOfNats
  <2>3. m \in 0..N /\ ~\E f : Solves(f, m)
    OBVIOUS
  <2>4. m # 0
    <3>1. Solves([n \in 0..0 |-> base], 0)
      OBVIOUS
    <3>2. QED
      BY <2>3, <3>1
  <2>5. m - 1 \in 0..N /\ m - 1 \notin Bad
    <3> HIDE DEF Bad
    <3>1. QED
      BY <2>2, <2>3, <2>4
  <2>6. PICK f : Solves(f, m - 1)
    BY <2>5
  <2>7. PICK v : v = G[<<f[m - 1], m>>]
    OBVIOUS
  <2>8. f[m - 1] \in X /\ m \in 1..N
    BY <2>3, <2>4, <2>6
  <2>9. v \in X
    BY <2>7, <2>8
  <2>10. PICK g : g = [n \in 0..m |-> IF n = m THEN v ELSE f[n]]
    OBVIOUS
  <2>11. g \in [0..m -> X]
    BY <2>3, <2>4, <2>6, <2>9, <2>10
  <2>12. g[0] = base /\ g[m] = v /\ g[m - 1] = f[m - 1]
    BY <2>3, <2>4, <2>6, <2>10
  <2>13. ASSUME NEW n \in 1..m PROVE g[n] = G[<<g[n - 1], n>>]
    <3>1. CASE n = m
      BY <2>7, <2>12, <3>1
    <3>2. CASE n # m
      <4>1. n \in 1..(m - 1) /\ n - 1 \in 0..m /\ n - 1 # m /\ n \in 0..m
        BY <2>3, <3>2
      <4>2. g[n] = f[n] /\ g[n - 1] = f[n - 1]
        BY <2>10, <3>2, <4>1
      <4>3. QED
        BY <2>6, <4>1, <4>2
    <3>3. QED
      BY <3>1, <3>2
  <2>14. Solves(g, m)
    BY <2>11, <2>12, <2>13
  <2>15. QED
    BY <2>3, <2>14
<1>2. PICK f : Solves(f, N)
  BY SMTT(30), <1>1
<1>3. QED
  BY <1>2 DEF Follows

=============================================================================
