-------------------------- MODULE ArithmeticProofs --------------------------
(***************************************************************************)
(* What the proofs about amounts, prices and fees have in common:          *)
(* induction and recursion over the natural numbers, and rounded division. *)
(*                                                                         *)
(* The program's loops are recursive functions.  An induction over one is  *)
(* an induction over a set of natural numbers (SetInduction, from the      *)
(* library's well-foundedness of < on Nat): a set, unlike an operator, can *)
(* be instantiated by the provers.  RecursionExists opens the CHOOSE of a  *)
(* recursive function.                                                     *)
(***************************************************************************)
EXTENDS CurveMath, WellFoundedInduction, TLAPS

-----------------------------------------------------------------------------
(***************************************************************************)
(* Induction and recursion over the natural numbers, and sums.             *)
(***************************************************************************)

\* The order of the natural numbers, as a relation, is well-founded.
LEMMA LessIsWellFounded == IsWellFoundedOn({ss \in Nat \X Nat : ss[1] < ss[2]}, Nat)
  BY NatLessThanWellFounded DEF OpToRel

\* Induction: a set of natural numbers with 0 and every successor is Nat.
LEMMA SetInduction ==
    ASSUME NEW S \in SUBSET Nat, 0 \in S, \A n \in S : n + 1 \in S
    PROVE  S = Nat
  <1> DEFINE R == {ss \in Nat \X Nat : ss[1] < ss[2]}
             T == Nat \ S
  <1>1. SUFFICES ASSUME T # {} PROVE FALSE
    OBVIOUS
  <1>2. T \subseteq Nat
    OBVIOUS
  <1>3. IsWellFoundedOn(R, Nat)
    BY LessIsWellFounded
  <1>4. \E x \in T : \A y \in T : ~(<<y, x>> \in R)
    <2> HIDE DEF R, T
    <2> QED
      BY <1>1, <1>2, <1>3, WFMin
  <1>5. PICK x \in T : \A y \in T : ~(<<y, x>> \in R)
    BY <1>4
  <1>6. x \in Nat /\ x # 0
    OBVIOUS
  <1>7. x - 1 \in Nat /\ <<x - 1, x>> \in R
    BY <1>6
  <1>8. x - 1 \in S
    BY <1>5, <1>7
  <1> QED
    BY <1>6, <1>8

\* F[i] is a step from D to D.
Steps(F, n, D) == \A i \in 1..n : \A x \in D : F[i][x] \in D

\* A walk of n steps exists.
LEMMA RecursionExists ==
    ASSUME NEW n \in Nat, NEW D, NEW init \in D, NEW F, Steps(F, n, D)
    PROVE  \E f \in [0..n -> D] : /\ f[0] = init
                                  /\ \A i \in 1..n : f[i] = F[i][f[i - 1]]
  <1> DEFINE Upto(f, k) == f[0] = init /\ \A i \in 1..k : f[i] = F[i][f[i - 1]]
             S == {k \in Nat : k <= n => \E f \in [0..n -> D] : Upto(f, k)}
  <1>1. 0 \in S
    <2>1. [i \in 0..n |-> init] \in [0..n -> D] /\ Upto([i \in 0..n |-> init], 0)
      OBVIOUS
    <2> QED
      BY <2>1
  <1>2. ASSUME NEW k \in S PROVE k + 1 \in S
    <2>1. SUFFICES ASSUME k + 1 <= n PROVE \E f \in [0..n -> D] : Upto(f, k + 1)
      OBVIOUS
    <2>2. PICK f \in [0..n -> D] : Upto(f, k)
      BY <2>1
    <2> DEFINE g == [f EXCEPT ![k + 1] = F[k + 1][f[k]]]
    <2>3. k \in 0..n /\ k + 1 \in 1..n /\ F[k + 1][f[k]] \in D
      BY <2>1 DEF Steps
    <2>4. g \in [0..n -> D] /\ g[k + 1] = F[k + 1][f[k]]
      BY <2>3
    <2>5. \A i \in 0..k : g[i] = f[i]
      BY <2>3
    <2> HIDE DEF g
    <2>6. g[0] = init
      BY <2>2, <2>5
    <2>7. ASSUME NEW i \in 1..(k + 1) PROVE g[i] = F[i][g[i - 1]]
      <3>1. CASE i = k + 1
        BY <2>3, <2>4, <2>5, <3>1
      <3>2. CASE i # k + 1
        BY <2>2, <2>3, <2>5, <3>2
      <3> QED
        BY <3>1, <3>2
    <2> QED
      BY <2>4, <2>6, <2>7
  <1>3. S = Nat
    <2> HIDE DEF S
    <2>1. S \in SUBSET Nat
      BY DEF S
    <2> QED
      BY <1>1, <1>2, <2>1, SetInduction
  <1>4. n \in S
    BY <1>3
  <1> QED
    BY <1>4

\* Total is the last of the partial sums.
LEMMA TotalDefined ==
    ASSUME NEW n \in Nat, NEW a \in [1..n -> Int]
    PROVE  \E sum \in [0..n -> Int] : /\ sum[0] = 0
                                      /\ \A i \in 1..n : sum[i] = sum[i - 1] + a[i]
                                      /\ Total(a, n) = sum[n]
  <1> DEFINE F == [i \in 1..n |-> [x \in Int |-> x + a[i]]]
  <1>1. PICK f \in [0..n -> Int] : /\ f[0] = 0
                                   /\ \A i \in 1..n : f[i] = F[i][f[i - 1]]
    <2> DEFINE D == Int
    <2>1. 0 \in D /\ Steps(F, n, D)
      BY DEF Steps
    <2> HIDE DEF F, D
    <2>2. \E f \in [0..n -> D] : f[0] = 0 /\ \A i \in 1..n : f[i] = F[i][f[i - 1]]
      BY <2>1, RecursionExists
    <2> QED
      BY <2>2 DEF D
  <1>2. \A i \in 1..n : f[i] = f[i - 1] + a[i]
    <2> TAKE i \in 1..n
    <2>1. i - 1 \in 0..n /\ f[i - 1] \in Int
      OBVIOUS
    <2>2. f[i] = F[i][f[i - 1]]
      BY <1>1
    <2> QED
      BY <2>1, <2>2
  <1> HIDE DEF F
  <1> DEFINE G(g) == [i \in 0..n |-> IF i = 0 THEN 0 ELSE g[i - 1] + a[i]]
             s == CHOOSE g : g = G(g)
  <1>3. f = G(f)
    BY <1>1, <1>2
  <1>4. s = G(s)
    <2> HIDE DEF G
    <2> QED
      BY <1>3
  <1>5. Total(a, n) = s[n]
    BY DEF Total
  <1> HIDE DEF s
  <1>6. s[0] = 0 /\ \A i \in 1..n : s[i] = s[i - 1] + a[i]
    BY <1>4
  <1>7. \A k \in 0..n : s[k] = f[k]
    <2> DEFINE S == {k \in Nat : k <= n => s[k] = f[k]}
    <2>1. 0 \in S
      BY <1>1, <1>6
    <2>2. ASSUME NEW k \in S PROVE k + 1 \in S
      <3>1. SUFFICES ASSUME k + 1 <= n PROVE s[k + 1] = f[k + 1]
        OBVIOUS
      <3>2. k + 1 \in 1..n /\ (k + 1) - 1 = k /\ s[k] = f[k]
        BY <3>1
      <3> QED
        BY <1>2, <1>6, <3>2
    <2>3. S = Nat
      <3> HIDE DEF S
      <3>1. S \in SUBSET Nat
        BY DEF S
      <3> QED
        BY <2>1, <2>2, <3>1, SetInduction
    <2> QED
      BY <2>3
  <1>8. Total(a, n) = f[n]
    BY <1>5, <1>7
  <1> QED
    BY <1>1, <1>2, <1>8

\* A sum of integers is an integer.
LEMMA TotalInt ==
    ASSUME NEW n \in Nat, NEW a \in [1..n -> Int]
    PROVE  Total(a, n) \in Int
  <1>1. PICK s \in [0..n -> Int] : Total(a, n) = s[n]
    BY TotalDefined
  <1> QED
    BY <1>1

-----------------------------------------------------------------------------
(***************************************************************************)
(* Rounded divisions.                                                      *)
(***************************************************************************)

\* A positive factor cancels.
LEMMA Cancel ==
    ASSUME NEW d \in Int, NEW x \in Int, NEW y \in Int, d > 0
    PROVE  /\ d * x <= d * y => x <= y
           /\ d * x < d * y => x < y
  OBVIOUS

\* A larger factor makes a larger product.
LEMMA Scaled ==
    ASSUME NEW d \in Int, NEW x \in Int, NEW y \in Int, d >= 0, x <= y
    PROVE  d * x \in Int /\ d * y \in Int /\ d * x <= d * y
  OBVIOUS

\* The quotient rounded down is the largest multiple below.
LEMMA Floor ==
    ASSUME NEW x \in Int, NEW d \in Int, d > 0
    PROVE  /\ x \div d \in Int
           /\ d * (x \div d) <= x /\ x < d * (x \div d) + d
           /\ \A k \in Int : d * k <= x => k <= x \div d
  <1> DEFINE q == x \div d
  <1>1. q \in Int /\ d * q <= x /\ x < d * q + d
    OBVIOUS
  <1> HIDE DEF q
  <1>2. ASSUME NEW k \in Int, d * k <= x PROVE k <= q
    <2>1. d * q + d = d * (q + 1)
      BY <1>1
    <2>2. d * k < d * (q + 1)
      BY <1>1, <1>2, <2>1
    <2>3. k < q + 1
      BY <1>1, <2>2, Cancel
    <2> QED
      BY <1>1, <2>3
  <1> QED
    BY <1>1, <1>2 DEF q

\* So a multiple below is at most the quotient.
LEMMA FloorLargest ==
    ASSUME NEW x \in Int, NEW d \in Int, d > 0, NEW k \in Int, d * k <= x
    PROVE  k <= x \div d
  BY Floor

\* Quotient and remainder.
LEMMA DivMod ==
    ASSUME NEW x \in Nat, NEW d \in Nat, d > 0
    PROVE  /\ x \div d \in Nat /\ x % d \in Nat /\ x % d < d
           /\ x = d * (x \div d) + (x % d)
  <1>1. x \div d \in Nat /\ x % d \in Nat /\ x % d < d
    OBVIOUS
  <1>2. x = d * (x \div d) + (x % d)
    OBVIOUS
  <1> QED
    BY <1>1, <1>2

\* They are the only ones.
LEMMA DivModUnique ==
    ASSUME NEW x \in Nat, NEW d \in Nat, d > 0, NEW q \in Nat, NEW r \in Nat,
           r < d, x = d * q + r
    PROVE  x \div d = q /\ x % d = r
  <1> DEFINE p == x \div d
             m == x % d
  <1>1. p \in Nat /\ m \in Nat /\ m < d /\ x = d * p + m
    BY DivMod
  <1> HIDE DEF p, m
  <1>2. d * q < d * (p + 1) /\ d * p < d * (q + 1)
    <2>1. \A a, b \in Nat : a * (b + 1) = a * b + a /\ a * b \in Nat
      OBVIOUS
    <2>2. d * (p + 1) = d * p + d /\ d * (q + 1) = d * q + d /\ d * p \in Nat /\ d * q \in Nat
      BY <1>1, <2>1
    <2> QED
      BY <1>1, <2>1, <2>2
  <1>3. q < p + 1 /\ p < q + 1
    BY <1>1, <1>2, Cancel
  <1>4. p = q
    BY <1>1, <1>3
  <1>5. m = r
    BY <1>1, <1>4
  <1> QED
    BY <1>4, <1>5 DEF p, m

\* The quotient rounded up is the smallest multiple above.
LEMMA Ceiling ==
    ASSUME NEW x \in Int, NEW d \in Int, d > 0
    PROVE  /\ (x + d - 1) \div d \in Int
           /\ x <= d * ((x + d - 1) \div d) /\ d * ((x + d - 1) \div d) < x + d
           /\ \A k \in Int : x <= d * k => (x + d - 1) \div d <= k
  <1> DEFINE y == x + d - 1
             q == (x + d - 1) \div d
  <1>1. q \in Int /\ d * q <= x + d - 1 /\ x + d - 1 < d * q + d
    <2>1. y \in Int
      OBVIOUS
    <2>2. (y \div d) \in Int /\ d * (y \div d) <= y /\ y < d * (y \div d) + d
      <3> HIDE DEF y
      <3> QED
        BY <2>1, Floor
    <2> QED
      BY <2>2
  <1> HIDE DEF q
  <1>2. ASSUME NEW k \in Int, x <= d * k PROVE q <= k
    <2>1. d * k + d = d * (k + 1)
      OBVIOUS
    <2>2. d * q < d * (k + 1)
      BY <1>1, <1>2, <2>1
    <2>3. q < k + 1
      BY <1>1, <2>2, Cancel
    <2> QED
      BY <1>1, <2>3
  <1>3. x <= d * q /\ d * q < x + d
    BY <1>1
  <1> QED
    BY <1>1, <1>2, <1>3 DEF q

\* The same of a product.
LEMMA DownProps ==
    ASSUME NEW u \in Int, NEW v \in Int, NEW d \in Int, d > 0
    PROVE  /\ MulDivDown(u, v, d) \in Int
           /\ d * MulDivDown(u, v, d) <= u * v /\ u * v < d * MulDivDown(u, v, d) + d
           /\ \A k \in Int : d * k <= u * v => k <= MulDivDown(u, v, d)
  <1> DEFINE x == u * v
  <1>1. x \in Int
    OBVIOUS
  <1>2. MulDivDown(u, v, d) = x \div d
    BY DEF MulDivDown
  <1> HIDE DEF x
  <1>3. /\ MulDivDown(u, v, d) \in Int
        /\ d * MulDivDown(u, v, d) <= x /\ x < d * MulDivDown(u, v, d) + d
        /\ \A k \in Int : d * k <= x => k <= MulDivDown(u, v, d)
    BY <1>1, <1>2, Floor
  <1> QED
    BY <1>3 DEF x

\* Rounding.Up: the least integer that covers the quotient.
LEMMA UpProps ==
    ASSUME NEW u \in Int, NEW v \in Int, NEW d \in Int, d > 0
    PROVE  /\ MulDivUp(u, v, d) \in Int
           /\ u * v <= d * MulDivUp(u, v, d) /\ d * MulDivUp(u, v, d) < u * v + d
           /\ \A k \in Int : u * v <= d * k => MulDivUp(u, v, d) <= k
  <1> DEFINE x == u * v
  <1>1. x \in Int
    OBVIOUS
  <1>2. MulDivUp(u, v, d) = (x + d - 1) \div d
    BY DEF MulDivUp
  <1> HIDE DEF x
  <1>3. /\ MulDivUp(u, v, d) \in Int
        /\ x <= d * MulDivUp(u, v, d) /\ d * MulDivUp(u, v, d) < x + d
        /\ \A k \in Int : x <= d * k => MulDivUp(u, v, d) <= k
    BY <1>1, <1>2, Ceiling
  <1> QED
    BY <1>3 DEF x

\* Rounding down gives at most what rounding up gives.
LEMMA DownUp ==
    ASSUME NEW u \in Int, NEW v \in Int, NEW d \in Int, d > 0
    PROVE  MulDivDown(u, v, d) <= MulDivUp(u, v, d)
  <1> DEFINE p == MulDivDown(u, v, d)
             q == MulDivUp(u, v, d)
  <1>1. p \in Int /\ q \in Int /\ d * p <= u * v /\ u * v <= d * q
    BY DownProps, UpProps
  <1> HIDE DEF p, q
  <1>2. d * p <= d * q
    BY <1>1
  <1>3. p <= q
    BY <1>1, <1>2, Cancel
  <1> QED
    BY <1>3 DEF p, q

\* A rounded division of integers is an integer.
LEMMA MulDivInt ==
    ASSUME NEW x \in Int, NEW y \in Int, NEW d \in Int, d > 0
    PROVE  MulDivDown(x, y, d) \in Int /\ MulDivUp(x, y, d) \in Int
  BY DEF MulDivDown, MulDivUp

\* The smaller of two numbers is one of them and at most each.
LEMMA MinOfProps ==
    ASSUME NEW a \in Int, NEW b \in Int
    PROVE  /\ MinOf(a, b) \in Int
           /\ MinOf(a, b) <= a /\ MinOf(a, b) <= b
           /\ MinOf(a, b) = a \/ MinOf(a, b) = b
  BY DEF MinOf

-----------------------------------------------------------------------------
(***************************************************************************)
(* A deposit, and what is left of it.  One unit of liquidity stands for    *)
(* d / N units of a token; x is the amount offered, which buys L at least, *)
(* a is what a part of L takes, and t what the rest, x - a, still buys.    *)
(***************************************************************************)

\* Products of integers distribute, commute and are integers.
LEMMA Products ==
    ASSUME NEW x \in Int, NEW y \in Int, NEW z \in Int
    PROVE  /\ x * y \in Int /\ x * y = y * x
           /\ x * (y + z) = x * y + x * z /\ x * (y - z) = x * y - x * z
           /\ x * (y * z) = (x * y) * z
  OBVIOUS

\* A deposit at a fixed price: l of L takes no more than what is offered, the
\* rest buys no more than the rest of L, and misses it by N / d + 1 at most.
LEMMA RangeDeposit ==
    ASSUME NEW x \in Int, NEW N \in Int, NEW d \in Int, NEW L \in Int, NEW l \in Int,
           NEW a \in Int, NEW t \in Int, N > 0, d > 0,
           d * L <= x * N, l <= L,
           l * d <= N * a, N * a < l * d + N,
           d * t <= (x - a) * N, (x - a) * N < d * t + d
    PROVE  /\ a <= x
           /\ d * (t + l) <= x * N
           /\ d * (L - l - t) < N + d
  <1>1. /\ d * L \in Int /\ d * l \in Int /\ d * t \in Int /\ N * a \in Int /\ N * x \in Int
        /\ x * N = N * x /\ l * d = d * l /\ (x - a) * N = N * x - N * a
        /\ d * (t + l) = d * t + d * l /\ d * (L - l - t) = d * L - d * l - d * t
        /\ N * (x + 1) = N * x + N
    OBVIOUS
  <1>2. d * l <= d * L
    BY Scaled
  <1>3. N * a < N * (x + 1)
    BY <1>1, <1>2
  <1>4. a < x + 1
    BY <1>3, Cancel
  <1> QED
    BY <1>1, <1>4

\* Liquidity p of L, at least half of it, takes a of the x tokens at N / d
\* each, rounded up, and what is left of them buys t in proportion.
InProportion(x, N, d, L, p, a, t) ==
    /\ N > 0 /\ d > 0 /\ p > 0
    /\ d * L <= x * N /\ p <= L /\ L <= 2 * p
    /\ p * d <= N * a /\ N * a < p * d + N
    /\ a * t <= (x - a) * p /\ (x - a) * p < a * t + a

\* Then t is no more than the rest of x, and misses L by 2N / d + 1.
LEMMA ProportionalDeposit ==
    ASSUME NEW x \in Int, NEW N \in Int, NEW d \in Int, NEW L \in Int, NEW p \in Int,
           NEW a \in Int, NEW t \in Int, InProportion(x, N, d, L, p, a, t)
    PROVE  /\ a <= x /\ a > 0 /\ t >= 0
           /\ d * (t + p) <= x * N
           /\ d * (L - p - t) < 2 * N + d
  <1> USE DEF InProportion
  <1>1. a <= x
    <2>1. p * d = d * p /\ d * p \in Int /\ d * L \in Int /\ x * N = N * x
          /\ N * (x + 1) = N * x + N /\ N * a \in Int /\ N * x \in Int
      OBVIOUS
    <2>2. d * p <= d * L
      BY Scaled
    <2>3. N * a < N * (x + 1)
      BY <2>1, <2>2
    <2>4. a < x + 1
      BY <2>3, Cancel
    <2> QED
      BY <2>4
  <1>2. a > 0
    <2>1. p * d > 0 /\ p * d \in Int
      OBVIOUS
    <2>2. N * 0 < N * a
      BY <2>1
    <2> QED
      BY <2>2, Cancel
  <1>3. t >= 0
    <2>1. (x - a) * p >= 0 /\ (x - a) * p \in Int
      BY <1>1
    <2>2. a * 0 < a * (t + 1)
      <3>1. a * (t + 1) = a * t + a /\ a * t \in Int
        OBVIOUS
      <3> QED
        BY <2>1, <3>1
    <2>3. 0 < t + 1
      BY <1>2, <2>2, Cancel
    <2> QED
      BY <2>3
  <1> DEFINE b == N * a
             v == t + p
  <1>4. b \in Int /\ v \in Int /\ b > 0 /\ v > 0
    BY <1>2, <1>3
  <1>5. (x - a) * p = x * p - a * p /\ x * p \in Int /\ a * p \in Int /\ a * t \in Int
        /\ a * v = a * t + a * p
    OBVIOUS
  <1>6. a * v <= x * p /\ x * p < a * v + a
    BY <1>5
  <1>7. b * v <= p * (x * N) /\ p * (x * N) < b * v + b
    <2>1. N * (a * v) <= N * (x * p) /\ N * (x * p) < N * (a * v + a)
      <3>1. a * v \in Int /\ x * p \in Int /\ a * v + a \in Int
        OBVIOUS
      <3> HIDE DEF v
      <3> DEFINE m == a * v
                 k == x * p
      <3>2. m \in Int /\ k \in Int /\ m <= k /\ k < m + a
        BY <1>6, <3>1
      <3> HIDE DEF m, k
      <3>3. N * m <= N * k /\ N * k < N * (m + a)
        BY <3>2
      <3> QED
        BY <3>3 DEF m, k
    <2>2. N * (a * v) = b * v /\ N * (x * p) = p * (x * N) /\ N * (a * v + a) = b * v + b
      <3> HIDE DEF v
      <3> QED
        BY <1>4
    <2> QED
      BY <2>1, <2>2
  <1>8. d * v <= x * N
    <2> HIDE DEF b, v
    <2>1. (p * d) * v <= b * v
      <3>1. p * d \in Int /\ p * d <= b
        BY DEF b
      <3> DEFINE m == p * d
      <3>2. m \in Int /\ m <= b
        BY <3>1
      <3> HIDE DEF m
      <3>3. v * m <= v * b
        BY <1>4, <3>2, Scaled
      <3>4. v * m = m * v /\ v * b = b * v
        BY <1>4, <3>2
      <3> QED
        BY <3>3, <3>4 DEF m
    <2>2. (p * d) * v = p * (d * v) /\ d * v \in Int /\ x * N \in Int
      BY <1>4
    <2>3. p * (d * v) <= p * (x * N)
      <3>1. p * (d * v) \in Int /\ b * v \in Int /\ p * (x * N) \in Int
        BY <1>4, <2>2
      <3> QED
        BY <1>7, <2>1, <2>2, <3>1
    <2> QED
      BY <2>2, <2>3, Cancel
  <1>9. d * (L - p - t) < 2 * N + d
    <2> DEFINE z == L - p - t
    <2> SUFFICES ASSUME d * z >= 2 * N + d PROVE FALSE
      OBVIOUS
    <2>1. z \in Int /\ v = L - z
      OBVIOUS
    <2>2. z >= 1
      <3> HIDE DEF z
      <3>1. d * 0 < d * z
        BY <2>1
      <3>2. 0 < z
        BY <2>1, <3>1, Cancel
      <3> QED
        BY <2>1, <3>2
    <2> HIDE DEF v, z
    \* p * d * L < b * (v + 1), b <= p * d + N - 1
    <2> DEFINE q == p * d
               c == q + N - 1
    <2>3. q \in Int /\ q > 0 /\ c \in Int /\ c > 0 /\ b <= c
      BY DEF b
    <2>4. q * L < c * (v + 1)
      <3>1. q * L <= p * (x * N)
        <4>1. q * L = p * (d * L)
          OBVIOUS
        <4>2. d * L \in Int /\ x * N \in Int
          OBVIOUS
        <4> DEFINE m == d * L
                   k == x * N
        <4>3. m \in Int /\ k \in Int /\ m <= k
          BY <4>2
        <4> HIDE DEF m, k
        <4>4. p * m <= p * k
          BY <4>3
        <4> QED
          BY <4>1, <4>4 DEF m, k
      <3>2. b * v + b <= c * (v + 1)
        <4> HIDE DEF c, b
        <4>1. b * v + b = (v + 1) * b /\ c * (v + 1) = (v + 1) * c
          BY <1>4, <2>3
        <4> QED
          BY <1>4, <2>3, <4>1, Scaled
      <3>3. p * (x * N) \in Int /\ q * L \in Int /\ b * v + b \in Int /\ c * (v + 1) \in Int
        <4> HIDE DEF c, b
        <4> QED
          BY <1>4, <2>3
      <3> QED
        BY <1>7, <3>1, <3>2, <3>3
    <2> HIDE DEF b
    \* so c * z < c + (N - 1) * L, while c * z >= p * (2N + d) + (N - 1)
    <2>5. c * z < c + (N - 1) * L
      <3>1. c * (v + 1) = c * L - c * z + c
        <4> HIDE DEF c
        <4> QED
          BY <2>1, <2>3
      <3>2. c * L = q * L + (N - 1) * L
        <4> HIDE DEF q
        <4> QED
          BY <2>3
      <3>3. c * L \in Int /\ c * z \in Int /\ q * L \in Int /\ (N - 1) * L \in Int
        <4> HIDE DEF c
        <4> QED
          BY <2>1, <2>3
      <3> QED
        BY <2>1, <2>3, <2>4, <3>1, <3>2, <3>3
    <2>6. (N - 1) * L <= (N - 1) * (2 * p)
      BY Scaled
    <2>7. c * z = p * (d * z) + (N - 1) * z
      <3>1. c * z = q * z + (N - 1) * z
        <4> HIDE DEF q
        <4> QED
          BY <2>1, <2>3
      <3>2. q * z = p * (d * z)
        BY <2>1
      <3> QED
        BY <3>1, <3>2
    <2>8. p * (2 * N + d) <= p * (d * z)
      <3> DEFINE m == d * z
      <3>1. m \in Int /\ 2 * N + d <= m
        BY <2>1
      <3> HIDE DEF m
      <3>2. p * (2 * N + d) <= p * m
        BY <3>1
      <3> QED
        BY <3>2 DEF m
    <2>9. (N - 1) * 1 <= (N - 1) * z
      BY <2>1, <2>2, Scaled
    <2>10. p * (2 * N + d) = 2 * (p * N) + q /\ (N - 1) * (2 * p) = 2 * (p * N) - 2 * p
           /\ p * N \in Int
      OBVIOUS
    <2>11. c * z \in Int /\ p * (d * z) \in Int /\ (N - 1) * z \in Int /\ (N - 1) * L \in Int
      <3> HIDE DEF c
      <3> QED
        BY <2>1, <2>3
    <2> QED
      BY <2>3, <2>5, <2>6, <2>7, <2>8, <2>9, <2>10, <2>11
  <1> QED
    BY <1>1, <1>2, <1>3, <1>8, <1>9

\* The liquidity that one of the a tokens of liquidity L is worth, at least.
UnitOf(L, a) == MulDivUp(1, L, IF a > 1 THEN a - 1 ELSE 1)

\* It makes up for a rounding by N / d, or else is all of L.
LEMMA UnitCovers ==
    ASSUME NEW N \in Int, NEW d \in Int, NEW L \in Nat, NEW a \in Int,
           N > 0, d > 0, a = MulDivUp(L, d, N)
    PROVE  UnitOf(L, a) \in Nat /\ (N < d * UnitOf(L, a) \/ L <= UnitOf(L, a))
  <1> DEFINE e == IF a > 1 THEN a - 1 ELSE 1
             u == UnitOf(L, a)
  <1>1. e \in Int /\ e > 0 /\ (a > 1 => e = a - 1) /\ (~(a > 1) => e = 1)
    OBVIOUS
  <1>2. u = (1 * L + e - 1) \div e
    BY DEF UnitOf, MulDivUp
  <1>3. N * a < L * d + N
    BY UpProps
  <1> HIDE DEF e, u
  <1>4. u \in Int /\ L <= e * u
    <2>1. 1 * L \in Int /\ 1 * L = L
      OBVIOUS
    <2> QED
      BY <1>1, <1>2, <2>1, Ceiling
  <1>5. u >= 0
    <2>1. e * u \in Int
      BY <1>1, <1>4
    <2>2. e * (0 - 1) < e * u
      BY <1>1, <1>4, <2>1
    <2>3. 0 - 1 < u
      BY <1>1, <1>4, <2>2, Cancel
    <2> QED
      BY <1>4, <2>3
  <1>6. CASE a > 1
    <2>1. N * e < L * d /\ N * e \in Int /\ L * d \in Int
      <3>1. N * e = N * a - N /\ N * a \in Int /\ L * d \in Int
        BY <1>1, <1>6
      <3> QED
        BY <1>3, <3>1
    <2>2. d * L <= d * (e * u)
      <3>1. e * u \in Int
        BY <1>1, <1>4
      <3> QED
        BY <1>4, <3>1, Scaled
    <2>3. e * N < e * (d * u)
      <3>1. e * N = N * e /\ L * d = d * L /\ d * (e * u) = e * (d * u)
            /\ e * (d * u) \in Int
        BY <1>1, <1>4
      <3> QED
        BY <2>1, <2>2, <3>1
    <2>4. d * u \in Int
      BY <1>4
    <2>5. N < d * u
      BY <1>1, <2>3, <2>4, Cancel
    <2> QED
      BY <1>4, <1>5, <2>5 DEF u
  <1>7. CASE ~(a > 1)
    <2>1. 1 * u = u
      BY <1>4
    <2>2. L <= u
      BY <1>1, <1>4, <1>7, <2>1
    <2> QED
      BY <1>4, <1>5, <2>2 DEF u
  <1> QED
    BY <1>6, <1>7

\* One token of a range-bound pool: l of D is deposited first, and all that
\* is left then buys t, which with a unit u of liquidity is the rest of D.
LEMMA RangeToken ==
    ASSUME NEW x \in Nat, NEW N \in Int, NEW d \in Int, NEW D \in Nat, NEW l \in Nat,
           N > 0, d > 0, d * D <= x * N, l <= D
    PROVE  LET a == MulDivUp(l, d, N)
               t == MulDivDown(x - a, N, d)
               A == MulDivUp(D, d, N)
               u == UnitOf(D, A)
           IN  /\ a \in Int /\ x - a \in Nat /\ t \in Nat /\ A \in Int /\ u \in Nat
               /\ d * (t + l) <= x * N
               /\ D <= l + t + u
               /\ \A k \in Int : k <= t => /\ MulDivUp(k, d, N) \in Int
                                           /\ MulDivUp(k, d, N) <= x - a
  <1> DEFINE a == MulDivUp(l, d, N)
             t == MulDivDown(x - a, N, d)
             A == MulDivUp(D, d, N)
             u == UnitOf(D, A)
  <1>1. a \in Int /\ l * d <= N * a /\ N * a < l * d + N
    BY UpProps
  <1> HIDE DEF a
  <1>2. t \in Int /\ d * t <= (x - a) * N /\ (x - a) * N < d * t + d
    BY <1>1, DownProps
  <1>3. A \in Int /\ N * A < D * d + N
    BY UpProps
  <1> HIDE DEF t, A
  <1>4. u \in Nat /\ (N < d * u \/ D <= u)
    BY <1>3, UnitCovers DEF A
  <1> HIDE DEF u
  <1>5. u \in Int /\ u >= 0 /\ (N < d * u \/ D <= u)
    BY <1>4
  <1>6. a <= x /\ d * (t + l) <= x * N /\ d * (D - l - t) < N + d
    BY <1>1, <1>2, RangeDeposit
  <1>7. t >= 0
    <2>1. (x - a) * N >= 0 /\ (x - a) * N \in Int
      BY <1>1, <1>6
    <2>2. d * 0 < d * (t + 1)
      <3>1. d * 0 = 0 /\ d * (t + 1) = d * t + d /\ d * t \in Int
        BY <1>2
      <3> QED
        BY <1>2, <2>1, <3>1
    <2>3. t + 1 \in Int
      BY <1>2
    <2>4. 0 < t + 1
      BY <2>2, <2>3, Cancel
    <2> QED
      BY <1>2, <2>4
  <1>8. D <= l + t + u
    <2>1. CASE D <= u
      BY <1>2, <1>4, <1>7, <2>1
    <2>2. CASE N < d * u
      <3> DEFINE r == D - l - t
      <3>1. r \in Int /\ u + 1 \in Int
        BY <1>2, <1>4
      <3>2. d * (u + 1) = d * u + d /\ d * u \in Int /\ d * r \in Int
        BY <1>4, <3>1
      <3>3. d * r < d * (u + 1)
        BY <1>6, <2>2, <3>2
      <3> HIDE DEF r
      <3>4. r < u + 1
        BY <3>1, <3>3, Cancel
      <3> QED
        BY <1>2, <1>4, <3>1, <3>4 DEF r
    <2> QED
      BY <1>5, <2>1, <2>2
  <1>9. ASSUME NEW k \in Int, k <= t
        PROVE  MulDivUp(k, d, N) \in Int /\ MulDivUp(k, d, N) <= x - a
    <2>1. d * k <= d * t /\ d * k = k * d /\ d * t \in Int /\ k * d \in Int
      BY <1>2, <1>9, Scaled
    <2>2. (x - a) * N = N * (x - a) /\ x - a \in Int /\ N * (x - a) \in Int
      BY <1>1
    <2>3. k * d <= N * (x - a)
      BY <1>2, <2>1, <2>2
    <2> QED
      BY <2>2, <2>3, UpProps
  <1>10. x - a \in Nat
    BY <1>1, <1>6
  <1> QED
    BY <1>1, <1>2, <1>3, <1>4, <1>5, <1>6, <1>7, <1>8, <1>9, <1>10 DEF a, t, A, u

\* One token of a pool that is added to in proportion: p of L is deposited
\* first, at least the half of it, and D is what is not kept by the pool.
LEMMA ShareToken ==
    ASSUME NEW x \in Nat, NEW N \in Int, NEW d \in Int, NEW L \in Nat, NEW p \in Nat,
           NEW D \in Nat, N > 0, d > 0, p > 0, d * L <= x * N, p <= L, L <= 2 * p, L - p <= D
    PROVE  LET a == MulDivUp(p, d, N)
               t == MulDivDown(x - a, p, a)
               A == MulDivUp(D, d, N)
               u == UnitOf(D, A)
           IN  /\ a \in Int /\ a > 0 /\ x - a \in Nat /\ t \in Nat /\ A \in Int /\ u \in Nat
               /\ d * (t + p) <= x * N
               /\ L <= p + t + 2 * u
               /\ \A k \in Int : k <= t => /\ MulDivUp(k, a, p) \in Int
                                           /\ MulDivUp(k, a, p) <= x - a
  <1> DEFINE a == MulDivUp(p, d, N)
             t == MulDivDown(x - a, p, a)
             A == MulDivUp(D, d, N)
             u == UnitOf(D, A)
  <1>1. a \in Int /\ p * d <= N * a /\ N * a < p * d + N
    BY UpProps
  <1> HIDE DEF a
  <1>2. a > 0
    <2>1. p * d > 0 /\ p * d \in Int /\ N * a \in Int
      BY <1>1
    <2>2. N * 0 < N * a
      BY <1>1, <2>1
    <2> QED
      BY <1>1, <2>2, Cancel
  <1>3. t \in Int /\ a * t <= (x - a) * p /\ (x - a) * p < a * t + a
    BY <1>1, <1>2, DownProps
  <1>4. A \in Int /\ N * A < D * d + N
    BY UpProps
  <1> HIDE DEF t, A
  <1>5. u \in Nat /\ (N < d * u \/ D <= u)
    BY <1>4, UnitCovers DEF A
  <1> HIDE DEF u
  <1>6. u \in Int /\ u >= 0 /\ (N < d * u \/ D <= u)
    BY <1>5
  <1>7. a <= x /\ t >= 0 /\ d * (t + p) <= x * N /\ d * (L - p - t) < 2 * N + d
    <2>1. InProportion(x, N, d, L, p, a, t)
      BY <1>1, <1>3 DEF InProportion
    <2>2. x \in Int /\ L \in Int /\ p \in Int
      OBVIOUS
    <2> QED
      BY <1>1, <1>3, <2>1, <2>2, ProportionalDeposit, Zenon
  <1>8. L <= p + t + 2 * u
    <2>1. CASE D <= u
      BY <1>3, <1>5, <1>6, <1>7, <2>1
    <2>2. CASE N < d * u
      <3> DEFINE r == L - p - t
                 v == 2 * u + 1
      <3>1. r \in Int /\ v \in Int
        BY <1>3, <1>5
      <3>2. d * v = 2 * (d * u) + d /\ d * u \in Int
        BY <1>5
      <3>3. d * r \in Int /\ d * v \in Int
        BY <3>1
      <3>4. d * r < d * v
        BY <1>7, <2>2, <3>2, <3>3
      <3> HIDE DEF r, v
      <3>5. r < v
        BY <3>1, <3>4, Cancel
      <3> QED
        BY <1>3, <1>5, <3>1, <3>5 DEF r, v
    <2> QED
      BY <1>6, <2>1, <2>2
  <1>9. ASSUME NEW k \in Int, k <= t
        PROVE  MulDivUp(k, a, p) \in Int /\ MulDivUp(k, a, p) <= x - a
    <2>1. a * k <= a * t /\ a * k = k * a /\ a * t \in Int /\ k * a \in Int
      BY <1>1, <1>2, <1>3, <1>9, Scaled
    <2>2. (x - a) * p = p * (x - a) /\ x - a \in Int /\ p * (x - a) \in Int
      BY <1>1
    <2>3. k * a <= p * (x - a)
      BY <1>3, <2>1, <2>2
    <2> QED
      BY <1>1, <2>2, <2>3, UpProps
  <1>10. x - a \in Nat
    BY <1>1, <1>7
  <1> QED
    BY <1>1, <1>2, <1>3, <1>4, <1>5, <1>6, <1>7, <1>8, <1>9, <1>10 DEF a, t, A, u

\* Integer square roots exist.
LEMMA RootExists ==
    ASSUME NEW m \in Nat, NEW x \in Nat, x < (m + 1) * (m + 1)
    PROVE  \E s \in 0..m : s * s <= x /\ x < (s + 1) * (s + 1)
  <1> DEFINE S == {k \in Nat : x < (k + 1) * (k + 1) =>
                                   \E s \in 0..k : s * s <= x /\ x < (s + 1) * (s + 1)}
  <1>1. 0 \in S
    <2>1. ASSUME x < (0 + 1) * (0 + 1) PROVE 0 * 0 <= x /\ 0 \in 0..0
      OBVIOUS
    <2> QED
      BY <2>1
  <1>2. ASSUME NEW k \in S PROVE k + 1 \in S
    <2> SUFFICES ASSUME x < (k + 1 + 1) * (k + 1 + 1)
                 PROVE  \E s \in 0..(k + 1) : s * s <= x /\ x < (s + 1) * (s + 1)
      OBVIOUS
    <2>1. CASE (k + 1) * (k + 1) <= x
      <3>1. k + 1 \in 0..(k + 1)
        OBVIOUS
      <3> QED
        BY <2>1, <3>1
    <2>2. CASE ~((k + 1) * (k + 1) <= x)
      <3>1. (k + 1) * (k + 1) \in Int
        OBVIOUS
      <3>2. x < (k + 1) * (k + 1)
        BY <2>2, <3>1
      <3>3. PICK s \in 0..k : s * s <= x /\ x < (s + 1) * (s + 1)
        BY <1>2, <3>2
      <3>4. s \in 0..(k + 1)
        OBVIOUS
      <3> QED
        BY <3>3, <3>4
    <2> QED
      BY <2>1, <2>2
  <1>3. S = Nat
    <2> HIDE DEF S
    <2>1. S \in SUBSET Nat
      BY DEF S
    <2> QED
      BY <1>1, <1>2, <2>1, SetInduction
  <1>4. m \in S
    BY <1>3
  <1> QED
    BY <1>4

\* Squares are in the order of what is squared.
LEMMA SquareOrder ==
    ASSUME NEW x \in Nat, NEW y \in Nat, x * x < y * y
    PROVE  x < y
  <1> SUFFICES ASSUME y <= x PROVE FALSE
    OBVIOUS
  <1>1. y * y <= y * x /\ x * y <= x * x
    BY Scaled
  <1>2. y * x = x * y /\ y * y \in Int /\ x * x \in Int /\ x * y \in Int
    OBVIOUS
  <1> QED
    BY <1>1, <1>2

=============================================================================
