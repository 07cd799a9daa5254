---------------------------- MODULE CurveProofs ----------------------------
(***************************************************************************)
(* Proofs about the bonding curve, for every configuration that            *)
(* create_config accepts, every number of ranges and every sequence of     *)
(* swaps.                                                                  *)
(*                                                                         *)
(*   CurveAlwaysBacked   Spec => []CurveBacked                             *)
(*   SalesCanFinish      Spec => []SaleCanFinish                           *)
(*                                                                         *)
(* The inductive invariant is OnCurve: CurveBacked and a price between the *)
(* start price and the migration price.  Its step is what a walk along the *)
(* ranges does (InInv, OutInv), which rests on two facts of the rounded    *)
(* divisions: two pieces of a range cost at least what the whole costs,    *)
(* and hold at most what the whole holds (QuoteAdds, BaseAdds).            *)
(***************************************************************************)
EXTENDS SolvencyProofs

-----------------------------------------------------------------------------
(***************************************************************************)
(* Sums.                                                                   *)
(***************************************************************************)

\* A sum of larger amounts is larger.
LEMMA TotalMonotone ==
    ASSUME NEW n \in Nat, NEW a \in [1..n -> Int], NEW b \in [1..n -> Int],
           \A i \in 1..n : a[i] <= b[i]
    PROVE  Total(a, n) <= Total(b, n)
  <1>1. PICK s \in [0..n -> Int] : /\ s[0] = 0
                                   /\ \A i \in 1..n : s[i] = s[i - 1] + a[i]
                                   /\ Total(a, n) = s[n]
    BY TotalDefined
  <1>2. PICK t \in [0..n -> Int] : /\ t[0] = 0
                                   /\ \A i \in 1..n : t[i] = t[i - 1] + b[i]
                                   /\ Total(b, n) = t[n]
    BY TotalDefined
  <1> DEFINE S == {k \in Nat : k <= n => s[k] <= t[k]}
  <1>3. 0 \in S
    BY <1>1, <1>2
  <1>4. ASSUME NEW k \in S PROVE k + 1 \in S
    <2>1. SUFFICES ASSUME k + 1 <= n PROVE s[k + 1] <= t[k + 1]
      OBVIOUS
    <2>2. k + 1 \in 1..n /\ k \in 0..n /\ (k + 1) - 1 = k /\ s[k] <= t[k]
      BY <2>1
    <2>3. s[k] \in Int /\ t[k] \in Int /\ a[k + 1] \in Int /\ b[k + 1] \in Int
          /\ a[k + 1] <= b[k + 1]
      BY <2>2
    <2>4. s[k + 1] = s[k] + a[k + 1] /\ t[k + 1] = t[k] + b[k + 1]
      BY <1>1, <1>2, <2>2
    <2> QED
      BY <2>2, <2>3, <2>4
  <1>5. S = Nat
    <2> HIDE DEF S
    <2>1. S \in SUBSET Nat
      BY DEF S
    <2> QED
      BY <1>3, <1>4, <2>1, SetInduction
  <1>6. n \in S
    BY <1>5
  <1> QED
    BY <1>1, <1>2, <1>6

\* Two sums that differ in one place differ by what they differ there.
LEMMA TotalAtOne ==
    ASSUME NEW n \in Nat, NEW a \in [1..n -> Int], NEW b \in [1..n -> Int],
           NEW j \in 1..n, \A i \in 1..n : i # j => a[i] = b[i]
    PROVE  Total(b, n) - Total(a, n) = b[j] - a[j]
  <1>1. PICK s \in [0..n -> Int] : /\ s[0] = 0
                                   /\ \A i \in 1..n : s[i] = s[i - 1] + a[i]
                                   /\ Total(a, n) = s[n]
    BY TotalDefined
  <1>2. PICK t \in [0..n -> Int] : /\ t[0] = 0
                                   /\ \A i \in 1..n : t[i] = t[i - 1] + b[i]
                                   /\ Total(b, n) = t[n]
    BY TotalDefined
  <1>d. PICK d \in Int : b[j] = a[j] + d
    <2>1. a[j] \in Int /\ b[j] \in Int
      OBVIOUS
    <2>2. \A x, y \in Int : y - x \in Int /\ y = x + (y - x)
      OBVIOUS
    <2> QED
      BY <2>1, <2>2
  <1> DEFINE S == {k \in Nat : k <= n => t[k] = s[k] + IF k < j THEN 0 ELSE d}
  <1>3. 0 \in S
    BY <1>1, <1>2
  <1>4. ASSUME NEW k \in S PROVE k + 1 \in S
    <2>1. SUFFICES ASSUME k + 1 <= n PROVE t[k + 1] = s[k + 1] + IF k + 1 < j THEN 0 ELSE d
      OBVIOUS
    <2>2. k \in Nat /\ k + 1 \in 1..n /\ k \in 0..n /\ (k + 1) - 1 = k
          /\ t[k] = s[k] + IF k < j THEN 0 ELSE d
      BY <2>1
    <2> HIDE DEF S
    <2>3. s[k] \in Int /\ t[k] \in Int /\ a[k + 1] \in Int /\ b[k + 1] \in Int
      BY <2>2
    <2>4. s[k + 1] = s[k] + a[k + 1] /\ t[k + 1] = t[k] + b[k + 1]
      BY <1>1, <1>2, <2>2
    <2>5. CASE k + 1 = j
      <3>1. k < j /\ ~(k + 1 < j)
        BY <2>2, <2>5
      <3>2. b[k + 1] = a[k + 1] + d
        BY <1>d, <2>5, Zenon
      <3> QED
        BY <2>2, <2>3, <2>4, <3>1, <3>2
    <2>6. CASE k + 1 # j
      <3>1. (k + 1 < j <=> k < j) /\ b[k + 1] = a[k + 1]
        BY <2>2, <2>6
      <3> QED
        BY <2>2, <2>3, <2>4, <3>1
    <2> QED
      BY <2>5, <2>6
  <1>5. S = Nat
    <2> HIDE DEF S
    <2>1. S \in SUBSET Nat
      BY DEF S
    <2> QED
      BY <1>3, <1>4, <2>1, SetInduction
  <1>6. n \in S
    BY <1>5
  <1>7. t[n] = s[n] + d /\ t[n] \in Int /\ s[n] \in Int /\ a[j] \in Int
    BY <1>6
  <1> QED
    BY <1>1, <1>2, <1>7, <1>d

-----------------------------------------------------------------------------
(***************************************************************************)
(* Prices and amounts in one range of liquidity L.                         *)
(***************************************************************************)

\* Two payments for two pieces are at least the payment for both.
LEMMA QuoteAdds ==
    ASSUME NEW L \in Int, NEW l \in Int, NEW a \in Int, NEW b \in Int, NEW d \in Int, d > 0
    PROVE  MulDivUp(L, b - l, d) <= MulDivUp(L, a - l, d) + MulDivUp(L, b - a, d)
  <1> DEFINE p == MulDivUp(L, a - l, d)
             q == MulDivUp(L, b - a, d)
  <1>0. a - l \in Int /\ b - a \in Int /\ b - l \in Int
    OBVIOUS
  <1>1. p \in Int /\ q \in Int /\ L * (a - l) <= d * p /\ L * (b - a) <= d * q
    BY <1>0, UpProps
  <1> HIDE DEF p, q
  <1>2. L * (b - l) = L * (a - l) + L * (b - a)
    OBVIOUS
  <1>3. d * p + d * q = d * (p + q)
    BY <1>1
  <1>4. L * (b - l) <= d * (p + q)
    BY <1>1, <1>2, <1>3
  <1>5. MulDivUp(L, b - l, d) <= p + q
    BY <1>0, <1>1, <1>4, UpProps
  <1> QED
    BY <1>5 DEF p, q

\* Two purchases of two pieces are at most the purchase of both.
LEMMA BaseAdds ==
    ASSUME NEW L \in Int, NEW l \in Int, NEW a \in Int, NEW b \in Int,
           0 <= L, 0 < l, l <= a, a <= b
    PROVE  MulDivDown(L, a - l, l * a) + MulDivDown(L, b - a, a * b)
               <= MulDivDown(L, b - l, l * b)
  <1> DEFINE u == MulDivDown(L, a - l, l * a)
             v == MulDivDown(L, b - a, a * b)
  <1>0. /\ a - l \in Int /\ b - a \in Int /\ b - l \in Int
        /\ l * a \in Int /\ a * b \in Int /\ l * b \in Int
        /\ l * a > 0 /\ a * b > 0 /\ l * b > 0
    OBVIOUS
  <1>1. u \in Int /\ v \in Int /\ (l * a) * u <= L * (a - l) /\ (a * b) * v <= L * (b - a)
    BY <1>0, DownProps
  <1> HIDE DEF u, v
  <1>2. b * ((l * a) * u) <= b * (L * (a - l))
    <2>1. (l * a) * u \in Int /\ L * (a - l) \in Int
      BY <1>1
    <2> QED
      BY <1>1, <2>1, Scaled
  <1>3. l * ((a * b) * v) <= l * (L * (b - a))
    <2>1. (a * b) * v \in Int /\ L * (b - a) \in Int
      BY <1>1
    <2> QED
      BY <1>1, <2>1, Scaled
  <1>4. b * ((l * a) * u) + l * ((a * b) * v) = a * ((l * b) * (u + v))
    BY <1>1
  <1>5. b * (L * (a - l)) + l * (L * (b - a)) = a * (L * (b - l))
    OBVIOUS
  <1>6. a * ((l * b) * (u + v)) <= a * (L * (b - l))
    <2>1. b * ((l * a) * u) \in Int /\ l * ((a * b) * v) \in Int
          /\ b * (L * (a - l)) \in Int /\ l * (L * (b - a)) \in Int
      BY <1>1
    <2>2. \A w, x, y, z \in Int : w <= x /\ y <= z => w + y <= x + z
      OBVIOUS
    <2>3. b * ((l * a) * u) + l * ((a * b) * v) <= b * (L * (a - l)) + l * (L * (b - a))
      BY <1>2, <1>3, <2>1, <2>2
    <2> QED
      BY <1>4, <1>5, <2>3
  <1>7. (l * b) * (u + v) <= L * (b - l)
    <2>1. (l * b) * (u + v) \in Int /\ L * (b - l) \in Int
      BY <1>1
    <2> QED
      BY <1>6, <2>1, Cancel
  <1>8. u + v <= MulDivDown(L, b - l, l * b)
    BY <1>0, <1>1, <1>7, DownProps
  <1> QED
    BY <1>8 DEF u, v

\* A longer piece holds more base tokens.
LEMMA BaseGrows ==
    ASSUME NEW L \in Int, NEW l \in Int, NEW a \in Int, NEW b \in Int,
           0 <= L, 0 < l, l <= a, a <= b
    PROVE  MulDivUp(L, a - l, l * a) <= MulDivUp(L, b - l, l * b)
  <1> DEFINE K == MulDivUp(L, b - l, l * b)
  <1>0. /\ a - l \in Int /\ b - l \in Int /\ l * a \in Int /\ l * b \in Int
        /\ l * a > 0 /\ l * b > 0
    OBVIOUS
  <1>1. K \in Int /\ L * (b - l) <= (l * b) * K
    BY <1>0, UpProps
  <1> HIDE DEF K
  <1>2. b * (L * (a - l)) <= a * (L * (b - l))
    <2>1. b * (L * (a - l)) = L * (a * b) - (L * l) * b
      OBVIOUS
    <2>2. a * (L * (b - l)) = L * (a * b) - (L * l) * a
      OBVIOUS
    <2>3. L * l \in Int /\ 0 <= L * l
      OBVIOUS
    <2>4. (L * l) * a <= (L * l) * b
      BY <2>3, Scaled
    <2>5. L * (a * b) \in Int /\ (L * l) * a \in Int /\ (L * l) * b \in Int
      OBVIOUS
    <2> QED
      BY <2>1, <2>2, <2>4, <2>5
  <1>3. a * (L * (b - l)) <= a * ((l * b) * K)
    <2>1. L * (b - l) \in Int /\ (l * b) * K \in Int
      BY <1>1
    <2> QED
      BY <1>1, <2>1, Scaled
  <1>4. a * ((l * b) * K) = b * ((l * a) * K)
    BY <1>1
  <1>5. L * (a - l) <= (l * a) * K
    <2>1. L * (a - l) \in Int /\ (l * a) * K \in Int /\ a * (L * (b - l)) \in Int
          /\ b * (L * (a - l)) \in Int /\ b * ((l * a) * K) \in Int
      BY <1>1
    <2>2. b * (L * (a - l)) <= b * ((l * a) * K)
      BY <1>2, <1>3, <1>4, <2>1
    <2> QED
      BY <2>1, <2>2, Cancel
  <1>6. MulDivUp(L, a - l, l * a) <= K
    BY <1>0, <1>1, <1>5, UpProps
  <1> QED
    BY <1>6 DEF K

\* Paying x tokens, less than the range up to price t asks for, moves the
\* price up to t at most, over a piece worth at most x.
LEMMA InputStep ==
    ASSUME NEW L \in Int, NEW p \in Int, NEW t \in Int, NEW d \in Int, NEW x \in Int,
           0 < L, p <= t, 0 < d, 0 <= x, x < MulDivUp(L, t - p, d)
    PROVE  LET n == p + MulDivDown(x, d, L)
           IN  n \in Int /\ p <= n /\ n <= t /\ MulDivUp(L, n - p, d) <= x
  <1> DEFINE f == MulDivDown(x, d, L)
             K == MulDivUp(L, t - p, d)
  <1>1. f \in Int /\ L * f <= x * d /\ 0 <= f
    <2>1. f \in Int /\ L * f <= x * d /\ \A k \in Int : L * k <= x * d => k <= f
      BY DownProps
    <2>2. L * 0 <= x * d
      OBVIOUS
    <2> QED
      BY <2>1, <2>2
  <1>2. K \in Int /\ x < K /\ \A k \in Int : L * (t - p) <= d * k => K <= k
    <2>1. t - p \in Int
      OBVIOUS
    <2> QED
      BY <2>1, UpProps
  <1> HIDE DEF f, K
  <1>3. f < t - p \/ f = t - p
    <2>1. SUFFICES ASSUME t - p < f PROVE FALSE
      BY <1>1
    <2>2. L * (t - p) <= L * f
      BY <1>1, <2>1, Scaled
    <2>3. L * (t - p) \in Int /\ L * f \in Int /\ x * d = d * x
      BY <1>1
    <2>4. L * (t - p) <= d * x
      BY <1>1, <2>2, <2>3
    <2> QED
      BY <1>2, <2>4
  <1>4. MulDivUp(L, f, d) <= x
    <2>1. L * f <= d * x
      BY <1>1
    <2> QED
      BY <1>1, <2>1, UpProps
  <1>5. (p + f) - p = f /\ p <= p + f /\ p + f <= t /\ p + f \in Int
    BY <1>1, <1>3
  <1>6. MulDivUp(L, (p + f) - p, d) <= x
    BY <1>4, <1>5
  <1> QED
    BY <1>5, <1>6 DEF f

\* When a unit of price is worth less than a unit of quote, that piece is
\* worth x: it is exactly what the range asks for up to there.
LEMMA InputExact ==
    ASSUME NEW L \in Int, NEW d \in Int, NEW x \in Int, 0 < L, L < d
    PROVE  x <= MulDivUp(L, MulDivDown(x, d, L), d)
  <1> DEFINE f == MulDivDown(x, d, L)
             K == MulDivUp(L, f, d)
  <1>1. f \in Int /\ x * d < L * f + L
    BY DownProps
  <1> HIDE DEF f
  <1>2. K \in Int /\ L * f <= d * K
    BY <1>1, UpProps
  <1> HIDE DEF K
  <1>3. d * x < d * (K + 1)
    <2>1. x * d = d * x /\ d * (K + 1) = d * K + d /\ L * f \in Int /\ d * K \in Int /\ d * x \in Int
      BY <1>1, <1>2
    <2> QED
      BY <1>1, <1>2, <2>1
  <1>4. x < K + 1
    BY <1>2, <1>3, Cancel
  <1> QED
    BY <1>2, <1>4 DEF f, K

\* Taking x base tokens, less than the range up to price t holds, moves the
\* price up to t at most, over a piece that holds at least x.
LEMMA OutputStep ==
    ASSUME NEW L \in Int, NEW p \in Int, NEW t \in Int, NEW x \in Int,
           0 < L, 0 < p, p <= t, 0 <= x, x < MulDivDown(L, t - p, p * t)
    PROVE  LET n == get_next_sqrt_price_from_output(p, L, x)
           IN  n \in Int /\ p <= n /\ n <= t /\ x <= MulDivDown(L, n - p, p * n)
  <1> DEFINE K == MulDivDown(L, t - p, p * t)
             d == L - x * p
             n == get_next_sqrt_price_from_output(p, L, x)
  <1>0. t - p \in Int /\ p * t \in Int /\ p * t > 0
    OBVIOUS
  <1>1. K \in Int /\ (p * t) * K <= L * (t - p) /\ x + 1 <= K
    <2>1. K \in Int /\ (p * t) * K <= L * (t - p)
      BY <1>0, DownProps
    <2>2. x < K
      OBVIOUS
    <2> HIDE DEF K
    <2> QED
      BY <2>1, <2>2
  <1> HIDE DEF K
  <1>2. CASE x = 0
    <2>1. n = p
      BY <1>2 DEF get_next_sqrt_price_from_output
    <2>2. p - p = 0 /\ p * p > 0 /\ p * p \in Int /\ L * 0 = 0 /\ (p * p) * 0 = 0
      OBVIOUS
    <2>3. 0 <= MulDivDown(L, p - p, p * p)
      BY <2>2, DownProps
    <2> HIDE DEF n
    <2> QED
      BY <1>2, <2>1, <2>3 DEF n
  <1>3. CASE x # 0
    <2>1. n = MulDivUp(L, p, d)
      BY <1>3 DEF get_next_sqrt_price_from_output
    <2>2. (p * t) * (x + 1) <= L * (t - p)
      <3>1. (p * t) * (x + 1) <= (p * t) * K
        BY <1>0, <1>1, Scaled
      <3>2. (p * t) * (x + 1) \in Int /\ (p * t) * K \in Int /\ L * (t - p) \in Int
        BY <1>1
      <3> QED
        BY <1>1, <3>1, <3>2
    <2>3. (p * t) * (x + 1) = (p * t) * x + p * t /\ L * (t - p) = L * t - L * p
      OBVIOUS
    <2>4. t * d = L * t - (p * t) * x
      OBVIOUS
    <2>5. d \in Int /\ t * d \in Int /\ L * p \in Int /\ (p * t) * x \in Int /\ L * t \in Int
          /\ 0 < L * p
      OBVIOUS
    <2> HIDE DEF d
    <2>6. L * p <= t * d /\ 0 < t * d
      BY <1>0, <2>2, <2>3, <2>4, <2>5
    <2>7. 0 < d
      <3>1. t * 0 < t * d
        BY <2>6
      <3> QED
        BY <2>5, <3>1, Cancel
    <2>8. n \in Int /\ L * p <= d * n /\ \A k \in Int : L * p <= d * k => n <= k
      BY <2>1, <2>5, <2>7, UpProps
    <2> HIDE DEF n
    <2>9. n <= t
      <3>1. L * p <= d * t
        BY <2>5, <2>6
      <3> QED
        BY <2>8, <3>1
    <2>10. p <= n
      <3>1. 0 <= x * p /\ d <= L
        BY DEF d
      <3>2. 0 < n
        <4>1. d * 0 < d * n
          BY <2>5, <2>7, <2>8
        <4> QED
          BY <2>5, <2>7, <2>8, <4>1, Cancel
      <3>3. n * d <= n * L
        BY <2>5, <2>8, <3>1, <3>2, Scaled
      <3>4. L * p <= L * n
        <4>1. n * d = d * n /\ n * L = L * n /\ d * n \in Int /\ L * n \in Int
          BY <2>5, <2>8
        <4> QED
          BY <2>5, <2>8, <3>3, <4>1
      <3> QED
        BY <2>8, <3>4, Cancel
    <2>11. (p * n) * x <= L * (n - p)
      <3>1. d * n = L * n - (p * n) * x /\ L * (n - p) = L * n - L * p
        BY <2>8 DEF d
      <3>2. d * n \in Int /\ L * n \in Int /\ (p * n) * x \in Int
        BY <2>5, <2>8
      <3> QED
        BY <2>5, <2>8, <3>1, <3>2
    <2>12. x <= MulDivDown(L, n - p, p * n)
      <3>1. n - p \in Int /\ p * n \in Int /\ p * n > 0
        BY <2>8, <2>10
      <3> QED
        BY <2>11, <3>1, DownProps
    <2> QED
      BY <2>8, <2>9, <2>10, <2>12 DEF n
  <1> QED
    BY <1>2, <1>3

-----------------------------------------------------------------------------
(***************************************************************************)
(* The shape of a curve.  Bound(c, i) is where range i ends; range i + 1   *)
(* starts there.                                                           *)
(***************************************************************************)
Bound(c, i) == IF i = 0 THEN c.sqrt_start_price ELSE c.curve[i].sqrt_price

Liquidity(c, i) == c.curve[i].liquidity

\* Every range of an accepted curve has a positive length and a positive
\* liquidity, worth less than one quote token per unit of price.
LEMMA CurveShape ==
    ASSUME NEW c \in Configs
    PROVE  /\ Len(c.curve) \in Nat \ {0}
           /\ Scale * Scale \in Int /\ Scale * Scale > 0
           /\ \A i \in 0..Len(c.curve) : Bound(c, i) \in Int /\ Bound(c, i) > 0
           /\ \A i \in 1..Len(c.curve) :
                  /\ RangeStart(c.sqrt_start_price, c.curve, i) = Bound(c, i - 1)
                  /\ Bound(c, i - 1) < Bound(c, i)
                  /\ Bound(c, i) = c.curve[i].sqrt_price
                  /\ Liquidity(c, i) \in Int /\ 0 < Liquidity(c, i)
                  /\ Liquidity(c, i) < Scale * Scale
  <1>1. c \in ConfigType /\ ValidConfig(c)
    BY PoolAssumption DEF PoolAssumption
  <1> DEFINE n == Len(c.curve)
             Point == [sqrt_price : Nat, liquidity : 0..(Scale * Scale - 1)]
  <1>2. c.curve \in Seq(Point) /\ c.sqrt_start_price \in Nat
    BY <1>1 DEF ConfigType
  <1>3. n \in Nat /\ n > 0
    BY <1>1, <1>2 DEF ValidConfig
  <1>4. MIN_SQRT_PRICE <= c.sqrt_start_price /\ c.sqrt_start_price > 0
    BY <1>1, <1>2, ConfigAssumption DEF ValidConfig, ConfigAssumption
  <1>5. Scale * Scale \in Int /\ Scale * Scale > 0
    BY ScaleAssumption DEF ScaleAssumption
  <1>6. ASSUME NEW i \in 1..n
        PROVE  /\ c.curve[i].sqrt_price \in Nat
               /\ c.curve[i].liquidity \in Int /\ 0 < c.curve[i].liquidity
               /\ c.curve[i].liquidity < Scale * Scale
               /\ c.curve[i].sqrt_price > RangeStart(c.sqrt_start_price, c.curve, i)
    <2>1. c.curve[i] \in Point
      <3>1. \A P, s : s \in Seq(P) => \A k \in 1..Len(s) : s[k] \in P
        OBVIOUS
      <3> HIDE DEF Point
      <3> QED
        BY <1>2, <3>1
    <2>2. c.curve[i].liquidity > 0
          /\ c.curve[i].sqrt_price > RangeStart(c.sqrt_start_price, c.curve, i)
      BY <1>1 DEF ValidConfig
    <2>3. \A x \in 0..(Scale * Scale - 1) : x \in Int /\ x < Scale * Scale
      BY <1>5
    <2>4. c.curve[i].sqrt_price \in Nat /\ c.curve[i].liquidity \in 0..(Scale * Scale - 1)
      BY <2>1
    <2>5. c.curve[i].liquidity \in Int /\ c.curve[i].liquidity < Scale * Scale
      BY <2>3, <2>4
    <2> QED
      BY <2>2, <2>4, <2>5
  <1>7. \A i \in 1..n : RangeStart(c.sqrt_start_price, c.curve, i) = Bound(c, i - 1)
    BY <1>3 DEF RangeStart, Bound
  <1>8. \A i \in 1..n : Bound(c, i) = c.curve[i].sqrt_price
    BY <1>3 DEF Bound
  <1>9. \A i \in 0..n : Bound(c, i) \in Nat
    BY <1>2, <1>3, <1>6 DEF Bound
  <1>10. \A i \in 1..n : Bound(c, i - 1) < Bound(c, i)
    <2> TAKE i \in 1..n
    <2>1. i - 1 \in 0..n /\ i \in 0..n
      BY <1>3
    <2>2. Bound(c, i) > Bound(c, i - 1)
      BY <1>6, <1>7, <1>8
    <2> QED
      BY <1>9, <2>1, <2>2
  <1>11. \A i \in 0..n : Bound(c, i) > 0
    <2> TAKE i \in 0..n
    <2>1. CASE i = 0
      BY <1>4, <2>1 DEF Bound
    <2>2. CASE i # 0
      <3>1. i \in 1..n /\ i - 1 \in 0..n
        BY <1>3, <2>2
      <3> QED
        BY <1>9, <1>10, <3>1
    <2> QED
      BY <2>1, <2>2
  <1> QED
    BY <1>3, <1>5, <1>6, <1>7, <1>8, <1>9, <1>10, <1>11 DEF Liquidity

\* The bounds grow along the curve.
LEMMA BoundsGrow ==
    ASSUME NEW c \in Configs, NEW i \in 0..Len(c.curve), NEW j \in 0..Len(c.curve), i <= j
    PROVE  Bound(c, i) <= Bound(c, j)
  <1> DEFINE n == Len(c.curve)
             S == {k \in Nat : i + k <= n => Bound(c, i) <= Bound(c, i + k)}
  <1>0. n \in Nat
    BY CurveShape
  <1>1. \A k \in 0..n : Bound(c, k) \in Int
    BY CurveShape
  <1>2. 0 \in S
    BY <1>0, <1>1
  <1>3. ASSUME NEW k \in S PROVE k + 1 \in S
    <2>1. SUFFICES ASSUME i + (k + 1) <= n PROVE Bound(c, i) <= Bound(c, i + (k + 1))
      OBVIOUS
    <2>2. i + k \in 0..n /\ i + (k + 1) \in 1..n /\ i + (k + 1) \in 0..n
          /\ (i + (k + 1)) - 1 = i + k /\ Bound(c, i) <= Bound(c, i + k)
      BY <1>0, <2>1
    <2>3. Bound(c, i + k) < Bound(c, i + (k + 1))
      BY <2>2, CurveShape
    <2> QED
      BY <1>1, <2>2, <2>3
  <1>4. S = Nat
    <2> HIDE DEF S
    <2>1. S \in SUBSET Nat
      BY DEF S
    <2> QED
      BY <1>2, <1>3, <2>1, SetInduction
  <1>5. j - i \in S /\ i + (j - i) = j
    <2> HIDE DEF S
    <2>1. j - i \in Nat /\ i + (j - i) = j
      BY <1>0
    <2> QED
      BY <1>4, <2>1
  <1> QED
    BY <1>0, <1>5

\* What range i asks for and sells up to a price.
RangeCost(c, price, i) ==
    IF Bound(c, i - 1) >= price THEN 0
    ELSE MulDivUp(Liquidity(c, i), MinOf(Bound(c, i), price) - Bound(c, i - 1), Scale * Scale)

RangeSold(c, price, i) ==
    IF Bound(c, i - 1) >= price THEN 0
    ELSE MulDivDown(Liquidity(c, i), MinOf(Bound(c, i), price) - Bound(c, i - 1),
                    Bound(c, i - 1) * MinOf(Bound(c, i), price))

RangeSoldUp(c, price, i) ==
    IF Bound(c, i - 1) >= price THEN 0
    ELSE MulDivUp(Liquidity(c, i), MinOf(Bound(c, i), price) - Bound(c, i - 1),
                  Bound(c, i - 1) * MinOf(Bound(c, i), price))

\* A curve's cost and sales are the sums of those.
LEMMA CurveSums ==
    ASSUME NEW c \in Configs, NEW price \in Int
    PROVE  LET n == Len(c.curve)
           IN  /\ CurveCost(c, price) = Total([i \in 1..n |-> RangeCost(c, price, i)], n)
               /\ CurveSold(c, price) = Total([i \in 1..n |-> RangeSold(c, price, i)], n)
               /\ get_base_token_for_swap(c.sqrt_start_price, price, c.curve) =
                      Total([i \in 1..n |-> RangeSoldUp(c, price, i)], n)
  <1> DEFINE n == Len(c.curve)
             lower(i) == RangeStart(c.sqrt_start_price, c.curve, i)
             cost(i) == IF lower(i) >= price THEN 0
                        ELSE get_delta_amount_quote(lower(i), MinOf(c.curve[i].sqrt_price, price),
                                                    c.curve[i].liquidity, "Up")
             sold(i, round) == IF lower(i) >= price THEN 0
                        ELSE get_delta_amount_base(lower(i), MinOf(c.curve[i].sqrt_price, price),
                                                   c.curve[i].liquidity, round)
  <1>1. ASSUME NEW i \in 1..n
        PROVE  /\ cost(i) = RangeCost(c, price, i)
               /\ sold(i, "Down") = RangeSold(c, price, i)
               /\ sold(i, "Up") = RangeSoldUp(c, price, i)
    <2>1. lower(i) = Bound(c, i - 1) /\ c.curve[i].sqrt_price = Bound(c, i)
      BY CurveShape
    <2>2. c.curve[i].liquidity = Liquidity(c, i)
      BY DEF Liquidity
    <2> HIDE DEF lower
    <2>3. cost(i) = RangeCost(c, price, i)
      BY <2>1, <2>2 DEF get_delta_amount_quote, MulDiv, RangeCost
    <2>4. sold(i, "Down") = RangeSold(c, price, i)
      BY <2>1, <2>2 DEF get_delta_amount_base, MulDiv, RangeSold
    <2>5. sold(i, "Up") = RangeSoldUp(c, price, i)
      BY <2>1, <2>2 DEF get_delta_amount_base, MulDiv, RangeSoldUp
    <2> QED
      BY <2>3, <2>4, <2>5
  <1>2. /\ CurveCost(c, price) = Total([i \in 1..n |-> cost(i)], n)
        /\ CurveSold(c, price) = Total([i \in 1..n |-> sold(i, "Down")], n)
        /\ get_base_token_for_swap(c.sqrt_start_price, price, c.curve) =
               Total([i \in 1..n |-> sold(i, "Up")], n)
    BY DEF CurveCost, CurveSold, get_base_token_for_swap
  <1> HIDE DEF cost, sold
  <1>3. /\ [i \in 1..n |-> cost(i)] = [i \in 1..n |-> RangeCost(c, price, i)]
        /\ [i \in 1..n |-> sold(i, "Down")] = [i \in 1..n |-> RangeSold(c, price, i)]
        /\ [i \in 1..n |-> sold(i, "Up")] = [i \in 1..n |-> RangeSoldUp(c, price, i)]
    BY <1>1
  <1> QED
    BY <1>2, <1>3

\* The parts are integers.
LEMMA RangeInt ==
    ASSUME NEW c \in Configs, NEW price \in Int, NEW i \in 1..Len(c.curve)
    PROVE  /\ RangeCost(c, price, i) \in Int
           /\ RangeSold(c, price, i) \in Int
           /\ RangeSoldUp(c, price, i) \in Int
  <1> DEFINE l == Bound(c, i - 1)
             u == MinOf(Bound(c, i), price)
             L == Liquidity(c, i)
  <1>1. i - 1 \in 0..Len(c.curve) /\ i \in 0..Len(c.curve)
    BY CurveShape
  <1>2. /\ l \in Int /\ 0 < l /\ Bound(c, i) \in Int /\ l < Bound(c, i)
        /\ L \in Int /\ Scale * Scale \in Int /\ Scale * Scale > 0
    BY <1>1, CurveShape
  <1>3. u \in Int
    BY <1>2 DEF MinOf
  <1>4. CASE l >= price
    BY <1>4 DEF RangeCost, RangeSold, RangeSoldUp
  <1>5. CASE ~(l >= price)
    <2>1. l < u
      BY <1>2, <1>5 DEF MinOf
    <2>2. /\ RangeCost(c, price, i) = MulDivUp(L, u - l, Scale * Scale)
          /\ RangeSold(c, price, i) = MulDivDown(L, u - l, l * u)
          /\ RangeSoldUp(c, price, i) = MulDivUp(L, u - l, l * u)
      BY <1>5 DEF RangeCost, RangeSold, RangeSoldUp
    <2> HIDE DEF l, u, L
    <2>3. u - l \in Int /\ l * u \in Int /\ l * u > 0
      BY <1>2, <1>3, <2>1
    <2>4. MulDivUp(L, u - l, Scale * Scale) \in Int
      BY <1>2, <2>3, UpProps
    <2>5. MulDivUp(L, u - l, l * u) \in Int /\ MulDivDown(L, u - l, l * u) \in Int
      BY <1>2, <2>3, UpProps, DownProps
    <2> QED
      BY <2>2, <2>4, <2>5
  <1> QED
    BY <1>4, <1>5

\* A curve's cost and sales are integers.
LEMMA CurveInt ==
    ASSUME NEW c \in Configs, NEW price \in Int
    PROVE  CurveCost(c, price) \in Int /\ CurveSold(c, price) \in Int
  <1> DEFINE n == Len(c.curve)
             f == [i \in 1..n |-> RangeCost(c, price, i)]
             g == [i \in 1..n |-> RangeSold(c, price, i)]
  <1>1. n \in Nat
    BY CurveShape
  <1>2. f \in [1..n -> Int] /\ g \in [1..n -> Int]
    BY RangeInt
  <1>3. CurveCost(c, price) = Total(f, n) /\ CurveSold(c, price) = Total(g, n)
    BY CurveSums
  <1> HIDE DEF n, f, g
  <1> QED
    BY <1>1, <1>2, <1>3, TotalInt

\* So is what create_config says the curve sells.
LEMMA BaseTokenInt ==
    ASSUME NEW c \in Configs, NEW price \in Int
    PROVE  get_base_token_for_swap(c.sqrt_start_price, price, c.curve) \in Int
  <1> DEFINE n == Len(c.curve)
             f == [i \in 1..n |-> RangeSoldUp(c, price, i)]
  <1>1. n \in Nat
    BY CurveShape
  <1>2. f \in [1..n -> Int]
    BY RangeInt
  <1>3. get_base_token_for_swap(c.sqrt_start_price, price, c.curve) = Total(f, n)
    BY CurveSums
  <1> HIDE DEF n, f
  <1> QED
    BY <1>1, <1>2, <1>3, TotalInt

\* Nothing is paid for, and nothing sold in, an empty piece.
LEMMA EmptyPiece ==
    ASSUME NEW L \in Int, NEW d \in Int, d > 0
    PROVE  MulDivUp(L, 0, d) = 0 /\ MulDivDown(L, 0, d) = 0
  <1>1. L * 0 = 0 /\ d * 0 = 0
    OBVIOUS
  <1>2. MulDivUp(L, 0, d) \in Int /\ MulDivUp(L, 0, d) <= 0 /\ d * 0 <= d * MulDivUp(L, 0, d)
    BY <1>1, UpProps
  <1>3. 0 <= MulDivUp(L, 0, d)
    BY <1>2, Cancel
  <1>4. MulDivDown(L, 0, d) \in Int /\ 0 <= MulDivDown(L, 0, d)
        /\ d * MulDivDown(L, 0, d) <= d * 0
    BY <1>1, DownProps
  <1>5. MulDivDown(L, 0, d) <= 0
    BY <1>4, Cancel
  <1> QED
    BY <1>2, <1>3, <1>4, <1>5

\* Moving the price inside range j leaves the parts of the other ranges alone.
LEMMA OtherRanges ==
    ASSUME NEW c \in Configs, NEW j \in 1..Len(c.curve), NEW a \in Int, NEW b \in Int,
           Bound(c, j - 1) <= a, a <= b, b <= Bound(c, j),
           NEW i \in 1..Len(c.curve), i # j
    PROVE  /\ RangeCost(c, a, i) = RangeCost(c, b, i)
           /\ RangeSold(c, a, i) = RangeSold(c, b, i)
  <1> DEFINE n == Len(c.curve)
  <1>1. n \in Nat /\ i \in 0..n /\ j \in 0..n /\ i - 1 \in 0..n /\ j - 1 \in 0..n
    BY CurveShape
  <1>2. /\ Bound(c, i - 1) \in Int /\ Bound(c, i) \in Int
        /\ Bound(c, j - 1) \in Int /\ Bound(c, j) \in Int
        /\ Bound(c, i - 1) < Bound(c, i)
    BY <1>1, CurveShape
  <1>3. CASE i < j
    <2>1. i <= j - 1
      BY <1>1, <1>3
    <2>2. Bound(c, i) <= Bound(c, j - 1)
      BY <1>1, <2>1, BoundsGrow
    <2>3. ~(Bound(c, i - 1) >= a) /\ ~(Bound(c, i - 1) >= b)
          /\ MinOf(Bound(c, i), a) = Bound(c, i) /\ MinOf(Bound(c, i), b) = Bound(c, i)
      BY <1>2, <2>2 DEF MinOf
    <2> QED
      BY <2>3 DEF RangeCost, RangeSold
  <1>4. CASE i > j
    <2>1. j <= i - 1
      BY <1>1, <1>4
    <2>2. Bound(c, j) <= Bound(c, i - 1)
      BY <1>1, <2>1, BoundsGrow
    <2>3. Bound(c, i - 1) >= a /\ Bound(c, i - 1) >= b
      BY <1>2, <2>2
    <2> QED
      BY <2>3 DEF RangeCost, RangeSold
  <1> QED
    BY <1>1, <1>3, <1>4

\* In range j itself, the cost grows by what a buy from a to b pays at most,
\* by exactly that from the start of the range; the sales grow by what the
\* buy gets at least.
LEMMA ThisRange ==
    ASSUME NEW c \in Configs, NEW j \in 1..Len(c.curve), NEW a \in Int, NEW b \in Int,
           Bound(c, j - 1) <= a, a <= b, b <= Bound(c, j)
    PROVE  LET paid == MulDivUp(Liquidity(c, j), b - a, Scale * Scale)
               got  == MulDivDown(Liquidity(c, j), b - a, a * b)
           IN  /\ paid \in Int /\ got \in Int
               /\ RangeCost(c, b, j) <= RangeCost(c, a, j) + paid
               /\ a = Bound(c, j - 1) => RangeCost(c, b, j) = RangeCost(c, a, j) + paid
               /\ RangeSold(c, a, j) + got <= RangeSold(c, b, j)
  <1> DEFINE n == Len(c.curve)
             l == Bound(c, j - 1)
             L == Liquidity(c, j)
             S2 == Scale * Scale
             paid == MulDivUp(L, b - a, S2)
             got  == MulDivDown(L, b - a, a * b)
  <1>1. n \in Nat /\ j \in 0..n /\ j - 1 \in 0..n
    BY CurveShape
  <1>2. /\ l \in Int /\ 0 < l /\ Bound(c, j) \in Int /\ L \in Int /\ 0 < L
        /\ S2 \in Int /\ S2 > 0
    BY <1>1, CurveShape
  <1>3. MinOf(Bound(c, j), a) = a /\ MinOf(Bound(c, j), b) = b
    BY <1>2 DEF MinOf
  <1>4. /\ RangeCost(c, a, j) = IF l >= a THEN 0 ELSE MulDivUp(L, a - l, S2)
        /\ RangeCost(c, b, j) = IF l >= b THEN 0 ELSE MulDivUp(L, b - l, S2)
        /\ RangeSold(c, a, j) = IF l >= a THEN 0 ELSE MulDivDown(L, a - l, l * a)
        /\ RangeSold(c, b, j) = IF l >= b THEN 0 ELSE MulDivDown(L, b - l, l * b)
    BY <1>3 DEF RangeCost, RangeSold
  <1>5. l <= a /\ a <= b
    OBVIOUS
  <1> HIDE DEF l, L, S2
  <1>6. b - a \in Int /\ a * b \in Int /\ a * b > 0 /\ b - l \in Int
        /\ l * b \in Int /\ l * b > 0 /\ a - l \in Int /\ l * a \in Int /\ l * a > 0
    BY <1>2, <1>5
  <1>7. paid \in Int /\ got \in Int
    BY <1>2, <1>6, UpProps, DownProps
  <1>8. CASE a = b
    <2>1. b - a = 0
      BY <1>8
    <2>2. paid = 0 /\ got = 0
      BY <1>2, <1>6, <2>1, EmptyPiece
    <2>3. RangeCost(c, a, j) \in Int /\ RangeSold(c, a, j) \in Int
      BY RangeInt
    <2> HIDE DEF paid, got
    <2> QED
      BY <1>7, <1>8, <2>2, <2>3 DEF paid, got, L, S2
  <1>9. CASE a # b /\ l = a
    <2>1. /\ RangeCost(c, a, j) = 0 /\ RangeCost(c, b, j) = paid
          /\ RangeSold(c, a, j) = 0 /\ RangeSold(c, b, j) = got
      BY <1>2, <1>4, <1>5, <1>9
    <2> HIDE DEF paid, got
    <2> QED
      BY <1>7, <2>1 DEF paid, got, L, S2
  <1>10. CASE a # b /\ l # a
    <2>1. /\ RangeCost(c, a, j) = MulDivUp(L, a - l, S2)
          /\ RangeCost(c, b, j) = MulDivUp(L, b - l, S2)
          /\ RangeSold(c, a, j) = MulDivDown(L, a - l, l * a)
          /\ RangeSold(c, b, j) = MulDivDown(L, b - l, l * b)
      BY <1>2, <1>4, <1>5, <1>10
    <2>2. MulDivUp(L, b - l, S2) <= MulDivUp(L, a - l, S2) + paid
      BY <1>2, QuoteAdds, Zenon
    <2>3. MulDivDown(L, a - l, l * a) + got <= MulDivDown(L, b - l, l * b)
      <3>1. 0 <= L
        BY <1>2
      <3> QED
        BY <1>2, <1>5, <3>1, BaseAdds, Zenon
    <2> HIDE DEF paid, got
    <2> QED
      BY <1>7, <1>10, <2>1, <2>2, <2>3 DEF paid, got, L, S2, l
  <1> QED
    BY <1>8, <1>9, <1>10

\* So do the cost and the sales of the curve.
LEMMA InsideRange ==
    ASSUME NEW c \in Configs, NEW j \in 1..Len(c.curve), NEW a \in Int, NEW b \in Int,
           Bound(c, j - 1) <= a, a <= b, b <= Bound(c, j)
    PROVE  LET paid == MulDivUp(Liquidity(c, j), b - a, Scale * Scale)
               got  == MulDivDown(Liquidity(c, j), b - a, a * b)
           IN  /\ paid \in Int /\ got \in Int
               /\ CurveCost(c, b) <= CurveCost(c, a) + paid
               /\ a = Bound(c, j - 1) => CurveCost(c, b) = CurveCost(c, a) + paid
               /\ CurveSold(c, a) + got <= CurveSold(c, b)
  <1> DEFINE n == Len(c.curve)
             paid == MulDivUp(Liquidity(c, j), b - a, Scale * Scale)
             got  == MulDivDown(Liquidity(c, j), b - a, a * b)
             ca == [i \in 1..n |-> RangeCost(c, a, i)]
             cb == [i \in 1..n |-> RangeCost(c, b, i)]
             sa == [i \in 1..n |-> RangeSold(c, a, i)]
             sb == [i \in 1..n |-> RangeSold(c, b, i)]
  <1>1. n \in Nat /\ j \in 1..n
    BY CurveShape
  <1>2. ca \in [1..n -> Int] /\ cb \in [1..n -> Int] /\ sa \in [1..n -> Int] /\ sb \in [1..n -> Int]
    BY RangeInt
  <1>3. /\ CurveCost(c, a) = Total(ca, n) /\ CurveCost(c, b) = Total(cb, n)
        /\ CurveSold(c, a) = Total(sa, n) /\ CurveSold(c, b) = Total(sb, n)
    BY CurveSums
  <1>4. \A i \in 1..n : i # j => ca[i] = cb[i] /\ sa[i] = sb[i]
    BY OtherRanges
  <1>5. /\ paid \in Int /\ got \in Int
        /\ cb[j] <= ca[j] + paid
        /\ a = Bound(c, j - 1) => cb[j] = ca[j] + paid
        /\ sa[j] + got <= sb[j]
    BY ThisRange
  <1>6. ca[j] \in Int /\ cb[j] \in Int /\ sa[j] \in Int /\ sb[j] \in Int
    BY <1>2
  <1>7. /\ CurveCost(c, a) \in Int /\ CurveCost(c, b) \in Int
        /\ CurveSold(c, a) \in Int /\ CurveSold(c, b) \in Int
    BY CurveInt
  <1> HIDE DEF n, paid, got, ca, cb, sa, sb
  <1>8. CurveCost(c, b) - CurveCost(c, a) = cb[j] - ca[j]
    BY <1>1, <1>2, <1>3, <1>4, TotalAtOne
  <1>9. CurveSold(c, b) - CurveSold(c, a) = sb[j] - sa[j]
    BY <1>1, <1>2, <1>3, <1>4, TotalAtOne
  <1>10. CurveCost(c, b) <= CurveCost(c, a) + paid
    <2>1. \A w, x, y, z, p \in Int : w - x = y - z /\ y <= z + p => w <= x + p
      OBVIOUS
    <2> QED
      BY <1>5, <1>6, <1>7, <1>8, <2>1
  <1>11. ASSUME a = Bound(c, j - 1) PROVE CurveCost(c, b) = CurveCost(c, a) + paid
    <2>1. \A w, x, y, z, p \in Int : w - x = y - z /\ y = z + p => w = x + p
      OBVIOUS
    <2>2. cb[j] = ca[j] + paid
      BY <1>5, <1>11
    <2> QED
      BY <1>5, <1>6, <1>7, <1>8, <2>1, <2>2
  <1>12. CurveSold(c, a) + got <= CurveSold(c, b)
    <2>1. \A w, x, y, z, p \in Int : w - x = y - z /\ z + p <= y => x + p <= w
      OBVIOUS
    <2> QED
      BY <1>5, <1>6, <1>7, <1>9, <2>1
  <1> QED
    BY <1>5, <1>10, <1>11, <1>12 DEF paid, got

\* What the curve sells, rounded down, is at most what create_config computes
\* for a higher price, rounded up.
LEMMA SoldBelow ==
    ASSUME NEW c \in Configs, NEW a \in Int, NEW b \in Int, a <= b
    PROVE  /\ CurveSold(c, a) <= get_base_token_for_swap(c.sqrt_start_price, b, c.curve)
           /\ get_base_token_for_swap(c.sqrt_start_price, a, c.curve)
                  <= get_base_token_for_swap(c.sqrt_start_price, b, c.curve)
  <1> DEFINE n == Len(c.curve)
             sa == [i \in 1..n |-> RangeSold(c, a, i)]
             ua == [i \in 1..n |-> RangeSoldUp(c, a, i)]
             ub == [i \in 1..n |-> RangeSoldUp(c, b, i)]
  <1>1. n \in Nat
    BY CurveShape
  <1>2. sa \in [1..n -> Int] /\ ua \in [1..n -> Int] /\ ub \in [1..n -> Int]
    BY RangeInt
  <1>3. /\ CurveSold(c, a) = Total(sa, n)
        /\ get_base_token_for_swap(c.sqrt_start_price, a, c.curve) = Total(ua, n)
        /\ get_base_token_for_swap(c.sqrt_start_price, b, c.curve) = Total(ub, n)
    BY CurveSums
  <1>4. ASSUME NEW i \in 1..n
        PROVE  /\ RangeSold(c, a, i) <= RangeSoldUp(c, b, i)
               /\ RangeSoldUp(c, a, i) <= RangeSoldUp(c, b, i)
    <2> DEFINE l == Bound(c, i - 1)
               L == Liquidity(c, i)
               x == MinOf(Bound(c, i), a)
               y == MinOf(Bound(c, i), b)
    <2>1. i \in 0..n /\ i - 1 \in 0..n
      BY <1>1
    <2>2. l \in Int /\ 0 < l /\ Bound(c, i) \in Int /\ l < Bound(c, i) /\ L \in Int /\ 0 < L
      BY <2>1, CurveShape
    <2>3. /\ RangeSold(c, a, i) = IF l >= a THEN 0 ELSE MulDivDown(L, x - l, l * x)
          /\ RangeSoldUp(c, a, i) = IF l >= a THEN 0 ELSE MulDivUp(L, x - l, l * x)
          /\ RangeSoldUp(c, b, i) = IF l >= b THEN 0 ELSE MulDivUp(L, y - l, l * y)
      BY DEF RangeSold, RangeSoldUp
    <2>4. x \in Int /\ y \in Int /\ x <= y /\ (~(l >= b) => l < y) /\ (~(l >= a) => l < x)
      BY <2>2 DEF MinOf
    <2> HIDE DEF l, L, x, y
    <2>5. CASE l >= b
      <3>1. l >= a
        BY <2>2, <2>5
      <3> QED
        BY <2>3, <2>5, <3>1
    <2>6. CASE ~(l >= b) /\ l >= a
      <3>1. l < y
        BY <2>4, <2>6
      <3>2. y - l \in Int /\ 0 <= y - l /\ l * y \in Int /\ l * y > 0 /\ 0 <= L * (y - l)
        BY <2>2, <2>4, <3>1
      <3>3. (l * y) * 0 <= L * (y - l) /\ 0 \in Int
        BY <3>2
      <3>4. 0 <= MulDivDown(L, y - l, l * y)
        BY <2>2, <3>2, <3>3, DownProps, Zenon
      <3>5. /\ MulDivDown(L, y - l, l * y) \in Int /\ MulDivUp(L, y - l, l * y) \in Int
            /\ MulDivDown(L, y - l, l * y) <= MulDivUp(L, y - l, l * y)
        BY <2>2, <3>2, DownUp, DownProps, UpProps
      <3> QED
        BY <2>3, <2>6, <3>4, <3>5
    <2>7. CASE ~(l >= b) /\ ~(l >= a)
      <3>1. l < x /\ l <= x
        BY <2>2, <2>4, <2>7
      <3>2. x - l \in Int /\ l * x \in Int /\ l * x > 0 /\ y - l \in Int /\ l * y \in Int /\ l * y > 0
        BY <2>2, <2>4, <3>1
      <3>3. MulDivUp(L, x - l, l * x) <= MulDivUp(L, y - l, l * y)
        <4>1. 0 <= L
          BY <2>2
        <4> QED
          BY <2>2, <2>4, <3>1, <4>1, BaseGrows, Zenon
      <3>4. /\ MulDivDown(L, x - l, l * x) <= MulDivUp(L, x - l, l * x)
            /\ MulDivDown(L, x - l, l * x) \in Int /\ MulDivUp(L, x - l, l * x) \in Int
        BY <2>2, <3>2, DownUp, DownProps, UpProps
      <3>5. MulDivUp(L, y - l, l * y) \in Int
        BY <2>2, <3>2, UpProps
      <3> QED
        BY <2>3, <2>7, <3>3, <3>4, <3>5
    <2> QED
      BY <2>5, <2>6, <2>7
  <1>5. \A i \in 1..n : sa[i] <= ub[i] /\ ua[i] <= ub[i]
    BY <1>4
  <1> HIDE DEF n, sa, ua, ub
  <1> QED
    BY <1>1, <1>2, <1>3, <1>5, TotalMonotone

-----------------------------------------------------------------------------
(***************************************************************************)
(* The walks along a curve: their states, one per range.                   *)
(***************************************************************************)

\* A buy that pays x quote tokens.
BuyInWalk(curve, p, x, stop) ==
    LET walk[i \in 0..Len(curve)] ==
            IF i = 0 THEN [amount_left |-> x, output_amount |-> 0, next_sqrt_price |-> p]
            ELSE BuyInRange(walk[i - 1], curve[i], stop)
    IN  walk

\* calculate_quote_to_base_from_amount_in is the end of its walk, and the walk
\* takes one range after the other.
LEMMA WalkIn ==
    ASSUME NEW curve, Len(curve) \in Nat, NEW p, NEW x, NEW stop
    PROVE  LET w == BuyInWalk(curve, p, x, stop)
           IN  /\ w[0] = [amount_left |-> x, output_amount |-> 0, next_sqrt_price |-> p]
               /\ \A i \in 1..Len(curve) : w[i] = BuyInRange(w[i - 1], curve[i], stop)
               /\ calculate_quote_to_base_from_amount_in(curve, p, x, stop) = w[Len(curve)]
  <1> DEFINE n == Len(curve)
             init == [amount_left |-> x, output_amount |-> 0, next_sqrt_price |-> p]
             step(st, i) == BuyInRange(st, curve[i], stop)
             Upto(f, k) == f = [i \in 0..k |-> IF i = 0 THEN init ELSE step(f[i - 1], i)]
             S == {k \in Nat : \E f : Upto(f, k)}
             w == BuyInWalk(curve, p, x, stop)
  <1>1. calculate_quote_to_base_from_amount_in(curve, p, x, stop) = w[n] /\ w = CHOOSE f : Upto(f, n)
    BY DEF calculate_quote_to_base_from_amount_in, BuyInWalk
  <1> HIDE DEF init, step
  <1>2. \A f : Upto(f, n) => /\ f[0] = init
                            /\ \A i \in 1..n : f[i] = step(f[i - 1], i)
    OBVIOUS
  <1>3. 0 \in S
    <2>1. Upto([i \in 0..0 |-> init], 0)
      OBVIOUS
    <2> QED
      BY <2>1
  <1>4. ASSUME NEW k \in S PROVE k + 1 \in S
    <2>1. PICK f : Upto(f, k)
      OBVIOUS
    <2> DEFINE g == [i \in 0..(k + 1) |-> IF i <= k THEN f[i] ELSE step(f[k], i)]
    <2>2. \A i \in 0..k : f[i] = IF i = 0 THEN init ELSE step(f[i - 1], i)
      BY <2>1
    <2>3. \A i \in 0..(k + 1) : g[i] = IF i = 0 THEN init ELSE step(g[i - 1], i)
      <3> TAKE i \in 0..(k + 1)
      <3>1. CASE i <= k
        <4>1. g[i] = f[i] /\ (i # 0 => g[i - 1] = f[i - 1])
          BY <3>1
        <4> QED
          BY <2>2, <3>1, <4>1
      <3>2. CASE i = k + 1
        <4>1. g[i] = step(f[k], i) /\ g[i - 1] = f[k] /\ i # 0
          BY <3>2
        <4> QED
          BY <4>1
      <3> QED
        BY <3>1, <3>2
    <2>4. Upto(g, k + 1)
      BY <2>3
    <2>5. k + 1 \in Nat
      OBVIOUS
    <2> QED
      BY <2>4, <2>5
  <1>5. S = Nat
    <2>1. S \in SUBSET Nat
      OBVIOUS
    <2> HIDE DEF S
    <2> QED
      BY <1>3, <1>4, <2>1, SetInduction
  <1>6. PICK f : Upto(f, n)
    BY <1>5
  <1>7. Upto(w, n)
    <2> HIDE DEF Upto, w
    <2> QED
      BY <1>1, <1>6
  <1> HIDE DEF w, Upto
  <1>8. w[0] = init /\ \A i \in 1..n : w[i] = step(w[i - 1], i)
    BY <1>2, <1>7
  <1> QED
    BY <1>1, <1>8 DEF init, step, n, w

\* A buy that asks for x base tokens.
BuyOutWalk(curve, p, x) ==
    LET walk[i \in 0..Len(curve)] ==
            IF i = 0 THEN [amount_left |-> x, amount_in |-> 0, next_sqrt_price |-> p, done |-> FALSE]
            ELSE BuyOutOfRange(walk[i - 1], curve[i])
    IN  walk

\* So for calculate_quote_to_base_from_amount_out,
LEMMA WalkOut ==
    ASSUME NEW curve, Len(curve) \in Nat, NEW p, NEW x
    PROVE  LET w == BuyOutWalk(curve, p, x)
           IN  /\ w[0] = [amount_left |-> x, amount_in |-> 0, next_sqrt_price |-> p, done |-> FALSE]
               /\ \A i \in 1..Len(curve) : w[i] = BuyOutOfRange(w[i - 1], curve[i])
               /\ calculate_quote_to_base_from_amount_out(curve, p, x) = w[Len(curve)]
  <1> DEFINE n == Len(curve)
             init == [amount_left |-> x, amount_in |-> 0, next_sqrt_price |-> p, done |-> FALSE]
             step(st, i) == BuyOutOfRange(st, curve[i])
             Upto(f, k) == f = [i \in 0..k |-> IF i = 0 THEN init ELSE step(f[i - 1], i)]
             S == {k \in Nat : \E f : Upto(f, k)}
             w == BuyOutWalk(curve, p, x)
  <1>1. calculate_quote_to_base_from_amount_out(curve, p, x) = w[n] /\ w = CHOOSE f : Upto(f, n)
    BY DEF calculate_quote_to_base_from_amount_out, BuyOutWalk
  <1> HIDE DEF init, step
  <1>2. \A f : Upto(f, n) => /\ f[0] = init
                            /\ \A i \in 1..n : f[i] = step(f[i - 1], i)
    OBVIOUS
  <1>3. 0 \in S
    <2>1. Upto([i \in 0..0 |-> init], 0)
      OBVIOUS
    <2> QED
      BY <2>1
  <1>4. ASSUME NEW k \in S PROVE k + 1 \in S
    <2>1. PICK f : Upto(f, k)
      OBVIOUS
    <2> DEFINE g == [i \in 0..(k + 1) |-> IF i <= k THEN f[i] ELSE step(f[k], i)]
    <2>2. \A i \in 0..k : f[i] = IF i = 0 THEN init ELSE step(f[i - 1], i)
      BY <2>1
    <2>3. \A i \in 0..(k + 1) : g[i] = IF i = 0 THEN init ELSE step(g[i - 1], i)
      <3> TAKE i \in 0..(k + 1)
      <3>1. CASE i <= k
        <4>1. g[i] = f[i] /\ (i # 0 => g[i - 1] = f[i - 1])
          BY <3>1
        <4> QED
          BY <2>2, <3>1, <4>1
      <3>2. CASE i = k + 1
        <4>1. g[i] = step(f[k], i) /\ g[i - 1] = f[k] /\ i # 0
          BY <3>2
        <4> QED
          BY <4>1
      <3> QED
        BY <3>1, <3>2
    <2>4. Upto(g, k + 1)
      BY <2>3
    <2>5. k + 1 \in Nat
      OBVIOUS
    <2> QED
      BY <2>4, <2>5
  <1>5. S = Nat
    <2>1. S \in SUBSET Nat
      OBVIOUS
    <2> HIDE DEF S
    <2> QED
      BY <1>3, <1>4, <2>1, SetInduction
  <1>6. PICK f : Upto(f, n)
    BY <1>5
  <1>7. Upto(w, n)
    <2> HIDE DEF Upto, w
    <2> QED
      BY <1>1, <1>6
  <1> HIDE DEF w, Upto
  <1>8. w[0] = init /\ \A i \in 1..n : w[i] = step(w[i - 1], i)
    BY <1>2, <1>7
  <1> QED
    BY <1>1, <1>8 DEF init, step, n, w

\* The walk to the migration price.
RaiseWalk(curve, p, x) ==
    LET walk[i \in 0..Len(curve)] ==
            IF i = 0 THEN [price |-> p, left |-> x, done |-> FALSE]
            ELSE RaiseInRange(walk[i - 1], curve[i])
    IN  walk

\* and for get_migration_threshold_price.
LEMMA WalkToThreshold ==
    ASSUME NEW curve, Len(curve) \in Nat, NEW p, NEW x
    PROVE  LET w == RaiseWalk(curve, p, x)
           IN  /\ w[0] = [price |-> p, left |-> x, done |-> FALSE]
               /\ \A i \in 1..Len(curve) : w[i] = RaiseInRange(w[i - 1], curve[i])
               /\ get_migration_threshold_price(x, p, curve) = w[Len(curve)]
  <1> DEFINE n == Len(curve)
             init == [price |-> p, left |-> x, done |-> FALSE]
             step(st, i) == RaiseInRange(st, curve[i])
             Upto(f, k) == f = [i \in 0..k |-> IF i = 0 THEN init ELSE step(f[i - 1], i)]
             S == {k \in Nat : \E f : Upto(f, k)}
             w == RaiseWalk(curve, p, x)
  <1>1. get_migration_threshold_price(x, p, curve) = w[n] /\ w = CHOOSE f : Upto(f, n)
    BY DEF get_migration_threshold_price, RaiseWalk
  <1> HIDE DEF init, step
  <1>2. \A f : Upto(f, n) => /\ f[0] = init
                            /\ \A i \in 1..n : f[i] = step(f[i - 1], i)
    OBVIOUS
  <1>3. 0 \in S
    <2>1. Upto([i \in 0..0 |-> init], 0)
      OBVIOUS
    <2> QED
      BY <2>1
  <1>4. ASSUME NEW k \in S PROVE k + 1 \in S
    <2>1. PICK f : Upto(f, k)
      OBVIOUS
    <2> DEFINE g == [i \in 0..(k + 1) |-> IF i <= k THEN f[i] ELSE step(f[k], i)]
    <2>2. \A i \in 0..k : f[i] = IF i = 0 THEN init ELSE step(f[i - 1], i)
      BY <2>1
    <2>3. \A i \in 0..(k + 1) : g[i] = IF i = 0 THEN init ELSE step(g[i - 1], i)
      <3> TAKE i \in 0..(k + 1)
      <3>1. CASE i <= k
        <4>1. g[i] = f[i] /\ (i # 0 => g[i - 1] = f[i - 1])
          BY <3>1
        <4> QED
          BY <2>2, <3>1, <4>1
      <3>2. CASE i = k + 1
        <4>1. g[i] = step(f[k], i) /\ g[i - 1] = f[k] /\ i # 0
          BY <3>2
        <4> QED
          BY <4>1
      <3> QED
        BY <3>1, <3>2
    <2>4. Upto(g, k + 1)
      BY <2>3
    <2>5. k + 1 \in Nat
      OBVIOUS
    <2> QED
      BY <2>4, <2>5
  <1>5. S = Nat
    <2>1. S \in SUBSET Nat
      OBVIOUS
    <2> HIDE DEF S
    <2> QED
      BY <1>3, <1>4, <2>1, SetInduction
  <1>6. PICK f : Upto(f, n)
    BY <1>5
  <1>7. Upto(w, n)
    <2> HIDE DEF Upto, w
    <2> QED
      BY <1>1, <1>6
  <1> HIDE DEF w, Upto
  <1>8. w[0] = init /\ \A i \in 1..n : w[i] = step(w[i - 1], i)
    BY <1>2, <1>7
  <1> QED
    BY <1>1, <1>8 DEF init, step, n, w

-----------------------------------------------------------------------------
(***************************************************************************)
(* What the walks keep.  Each invariant describes the state after range i  *)
(* of a walk that started at price p.                                      *)
(***************************************************************************)

\* A buy of x quote tokens, never past stop: while something is left, the
\* ranges so far are used up; what is spent pays for the piece walked, and
\* the output is no more than it holds.
InInv(c, p, x, stop, i, st) ==
    /\ st.amount_left \in Int /\ 0 <= st.amount_left
    /\ st.output_amount \in Int
    /\ st.next_sqrt_price \in Int /\ p <= st.next_sqrt_price /\ st.next_sqrt_price <= stop
    /\ 0 < st.amount_left => MinOf(stop, Bound(c, i)) <= st.next_sqrt_price
    /\ CurveCost(c, st.next_sqrt_price) + st.amount_left <= CurveCost(c, p) + x
    /\ CurveSold(c, p) + st.output_amount <= CurveSold(c, st.next_sqrt_price)

\* A buy of x base tokens.
OutInv(c, p, x, i, st) ==
    /\ st.amount_left \in Int /\ 0 <= st.amount_left
    /\ st.amount_in \in Int
    /\ st.next_sqrt_price \in Int /\ p <= st.next_sqrt_price
    /\ st.done \in BOOLEAN
    /\ ~st.done => Bound(c, i) <= st.next_sqrt_price
    /\ CurveCost(c, st.next_sqrt_price) <= CurveCost(c, p) + st.amount_in
    /\ CurveSold(c, p) + x <= CurveSold(c, st.next_sqrt_price) + st.amount_left

\* The walk to the price at which x quote tokens are raised.
RaiseInv(c, x, i, st) ==
    /\ st.left \in Int /\ 0 <= st.left
    /\ st.price \in Int /\ Bound(c, 0) <= st.price /\ st.price <= Bound(c, i)
    /\ st.done \in BOOLEAN
    /\ ~st.done => st.price = Bound(c, i)
    /\ CurveCost(c, Bound(c, 0)) + x <= CurveCost(c, st.price) + st.left

\* Nothing paid moves nothing.
LEMMA NothingPaid ==
    ASSUME NEW d \in Int, NEW L \in Int, 0 < L
    PROVE  MulDivDown(0, d, L) = 0
  <1>1. 0 * d = 0 /\ L * 0 = 0
    OBVIOUS
  <1>2. MulDivDown(0, d, L) \in Int /\ 0 <= MulDivDown(0, d, L)
        /\ L * MulDivDown(0, d, L) <= L * 0
    BY <1>1, DownProps
  <1>3. MulDivDown(0, d, L) <= 0
    BY <1>2, Cancel
  <1> QED
    BY <1>2, <1>3

\* A range that is not empty costs something.
LEMMA RangeCostsSomething ==
    ASSUME NEW L \in Int, NEW v \in Int, NEW d \in Int, 0 < L, 0 < v, 0 < d
    PROVE  0 < MulDivUp(L, v, d)
  <1>1. 0 < L * v /\ d * 0 = 0
    OBVIOUS
  <1> DEFINE K == MulDivUp(L, v, d)
  <1>2. K \in Int /\ L * v <= d * K
    BY UpProps
  <1> HIDE DEF K
  <1>3. d * 0 < d * K
    BY <1>1, <1>2
  <1>4. 0 < K
    BY <1>2, <1>3, Cancel
  <1> QED
    BY <1>4 DEF K

\* One more range keeps what is known of a buy that pays in: the range is
\* skipped, walked in part or walked to its end.
LEMMA InStep ==
    ASSUME NEW c \in Configs, NEW p \in Int, NEW x \in Int, NEW stop \in Int,
           Bound(c, 0) <= p, p <= stop,
           NEW i \in 1..Len(c.curve), NEW st, InInv(c, p, x, stop, i - 1, st)
    PROVE  InInv(c, p, x, stop, i, BuyInRange(st, c.curve[i], stop))
  <1> DEFINE n == Len(c.curve)
             L == c.curve[i].liquidity
             S2 == Scale * Scale
             q == st.next_sqrt_price
             left == st.amount_left
             ref == MinOf(stop, c.curve[i].sqrt_price)
             max == MulDivUp(L, ref - q, S2)
             nx == IF left < max THEN q + MulDivDown(left, S2, L) ELSE ref
             got == MulDivDown(L, nx - q, q * nx)
             new == [amount_left     |-> IF left < max THEN 0 ELSE left - max,
                     output_amount   |-> st.output_amount + got,
                     next_sqrt_price |-> nx]
  <1>1. n \in Nat /\ i \in 0..n /\ i - 1 \in 0..n /\ 0 \in 0..n
    BY CurveShape
  <1>2. /\ L = Liquidity(c, i) /\ L \in Int /\ 0 < L /\ L < S2 /\ S2 \in Int /\ S2 > 0
        /\ c.curve[i].sqrt_price = Bound(c, i) /\ Bound(c, i) \in Int
        /\ Bound(c, i - 1) \in Int /\ 0 < Bound(c, i - 1) /\ Bound(c, i - 1) < Bound(c, i)
        /\ Bound(c, 0) \in Int /\ 0 < Bound(c, 0)
    BY <1>1, CurveShape DEF Liquidity
  <1>3. BuyInRange(st, c.curve[i], stop) = IF ref <= q THEN st ELSE new
    BY DEF BuyInRange, MaxAmountIn, get_delta_amount_quote, get_delta_amount_base, MulDiv,
           get_next_sqrt_price_from_input
  <1>4. /\ left \in Int /\ 0 <= left /\ st.output_amount \in Int
        /\ q \in Int /\ p <= q /\ q <= stop /\ 0 < q
        /\ 0 < left => MinOf(stop, Bound(c, i - 1)) <= q
        /\ CurveCost(c, q) + left <= CurveCost(c, p) + x
        /\ CurveSold(c, p) + st.output_amount <= CurveSold(c, q)
    BY <1>2 DEF InInv
  <1>5. ref = MinOf(stop, Bound(c, i)) /\ ref \in Int /\ ref <= stop /\ ref <= Bound(c, i)
    BY <1>2 DEF MinOf
  <1>6. CASE ref <= q
    <2>1. BuyInRange(st, c.curve[i], stop) = st
      BY <1>3, <1>6
    <2>2. MinOf(stop, Bound(c, i)) <= q
      BY <1>5, <1>6
    <2> QED
      BY <1>4, <2>1, <2>2 DEF InInv
  <1>7. CASE ~(ref <= q)
    <2>1. /\ BuyInRange(st, c.curve[i], stop) = new
          /\ q < ref /\ q <= ref /\ ref - q \in Int /\ 0 < ref - q
      BY <1>3, <1>4, <1>5, <1>7
    <2> HIDE DEF L, S2, q, left, ref
    <2>2. max \in Int /\ 0 < max
      BY <1>2, <2>1, UpProps, RangeCostsSomething
    <2>3. CASE left = 0
      <3>1. left < max
        BY <2>2, <2>3
      <3>2. nx = q
        <4>1. nx = q + MulDivDown(0, S2, L)
          BY <2>3, <3>1
        <4> QED
          BY <1>2, <1>4, <4>1, NothingPaid
      <3>3. nx - q = 0 /\ q * nx = q * q /\ q * q \in Int /\ q * q > 0
        BY <1>4, <3>2
      <3>4. got = 0
        BY <1>2, <3>3, EmptyPiece
      <3>5. new = [amount_left |-> 0, output_amount |-> st.output_amount, next_sqrt_price |-> q]
        <4> HIDE DEF max, nx, got
        <4> QED
          BY <1>4, <3>1, <3>2, <3>4
      <3> HIDE DEF new
      <3> QED
        BY <1>4, <2>1, <2>3, <3>5 DEF InInv, q, left
    <2>4. CASE left # 0
      <3>1. Bound(c, i - 1) <= q
        BY <1>2, <1>4, <1>5, <2>1, <2>4 DEF MinOf
      <3>2. nx \in Int /\ q <= nx /\ nx <= ref
        <4>1. CASE left < max
          BY <1>2, <1>4, <1>5, <2>1, <4>1, InputStep
        <4>2. CASE ~(left < max)
          BY <1>4, <1>5, <2>1, <4>2
        <4> QED
          BY <4>1, <4>2
      <3>3. nx <= Bound(c, i) /\ nx <= stop
        BY <1>2, <1>5, <3>2
      <3> DEFINE paid == MulDivUp(L, nx - q, S2)
      <3>4. /\ paid \in Int /\ got \in Int
            /\ CurveCost(c, nx) <= CurveCost(c, q) + paid
            /\ CurveSold(c, q) + got <= CurveSold(c, nx)
        <4>1. paid = MulDivUp(Liquidity(c, i), nx - q, Scale * Scale)
              /\ got = MulDivDown(Liquidity(c, i), nx - q, q * nx)
          BY <1>2 DEF S2
        <4> HIDE DEF nx, paid, got
        <4> QED
          BY <1>4, <3>1, <3>2, <3>3, <4>1, InsideRange
      <3>5. /\ new.amount_left \in Int /\ 0 <= new.amount_left
            /\ paid + new.amount_left <= left
            /\ 0 < new.amount_left => nx = ref
        <4>1. CASE left < max
          <5>1. paid <= left
            BY <1>2, <1>4, <1>5, <2>1, <4>1, InputStep
          <5>2. new.amount_left = 0
            BY <4>1
          <5> HIDE DEF new, paid
          <5> QED
            BY <1>4, <3>4, <5>1, <5>2
        <4>2. CASE ~(left < max)
          <5>1. nx = ref /\ paid = max /\ new.amount_left = left - max
            BY <4>2
          <5> HIDE DEF new, paid, max
          <5> QED
            BY <1>4, <2>2, <4>2, <5>1
        <4> QED
          BY <4>1, <4>2
      <3>6. new.output_amount = st.output_amount + got /\ new.next_sqrt_price = nx
        OBVIOUS
      <3>7. /\ CurveCost(c, p) \in Int /\ CurveCost(c, q) \in Int /\ CurveCost(c, nx) \in Int
            /\ CurveSold(c, p) \in Int /\ CurveSold(c, q) \in Int /\ CurveSold(c, nx) \in Int
        <4> HIDE DEF nx
        <4> QED
          BY <1>4, <3>2, CurveInt
      <3> HIDE DEF new, got, paid, nx
      <3>8. CurveCost(c, nx) + new.amount_left <= CurveCost(c, p) + x
        <4>1. \A C1, C2, C3, pd, l1, l2 \in Int :
                  C2 <= C1 + pd /\ pd + l2 <= l1 /\ C1 + l1 <= C3 => C2 + l2 <= C3
          OBVIOUS
        <4>2. CurveCost(c, p) + x \in Int
          BY <3>7
        <4> QED
          BY <1>4, <3>4, <3>5, <3>7, <4>1, <4>2
      <3>9. CurveSold(c, p) + (st.output_amount + got) <= CurveSold(c, nx)
        <4>1. \A s1, s2, s3, o, g \in Int : s1 + o <= s2 /\ s2 + g <= s3 => s1 + (o + g) <= s3
          OBVIOUS
        <4> QED
          BY <1>4, <3>4, <3>7, <4>1
      <3>10. /\ new.next_sqrt_price \in Int /\ p <= new.next_sqrt_price
             /\ new.next_sqrt_price <= stop
             /\ 0 < new.amount_left => MinOf(stop, Bound(c, i)) <= new.next_sqrt_price
        BY <1>4, <1>5, <3>2, <3>3, <3>5, <3>6
      <3>11. new.output_amount \in Int
        BY <1>4, <3>4, <3>6
      <3>12. InInv(c, p, x, stop, i, new)
        BY <3>5, <3>6, <3>8, <3>9, <3>10, <3>11 DEF InInv
      <3> QED
        BY <2>1, <3>12
    <2> QED
      BY <2>3, <2>4
  <1> QED
    BY <1>6, <1>7

\* One more range keeps what is known of a buy that asks for base tokens.
LEMMA OutStep ==
    ASSUME NEW c \in Configs, NEW p \in Int, NEW x \in Int, Bound(c, 0) <= p,
           NEW i \in 1..Len(c.curve), NEW st, OutInv(c, p, x, i - 1, st)
    PROVE  OutInv(c, p, x, i, BuyOutOfRange(st, c.curve[i]))
  <1> DEFINE n == Len(c.curve)
             L == c.curve[i].liquidity
             S2 == Scale * Scale
             q == st.next_sqrt_price
             left == st.amount_left
             end == c.curve[i].sqrt_price
             max == MulDivDown(L, end - q, q * end)
             nx == IF left < max THEN get_next_sqrt_price_from_output(q, L, left) ELSE end
             paid == MulDivUp(L, nx - q, S2)
             new == [amount_left     |-> IF left < max THEN 0 ELSE left - max,
                     amount_in       |-> st.amount_in + paid,
                     next_sqrt_price |-> nx,
                     done            |-> left < max]
  <1>1. n \in Nat /\ i \in 0..n /\ i - 1 \in 0..n /\ 0 \in 0..n
    BY CurveShape
  <1>2. /\ L = Liquidity(c, i) /\ L \in Int /\ 0 < L /\ L < S2 /\ S2 \in Int /\ S2 > 0
        /\ end = Bound(c, i) /\ Bound(c, i) \in Int
        /\ Bound(c, i - 1) \in Int /\ 0 < Bound(c, i - 1) /\ Bound(c, i - 1) < Bound(c, i)
        /\ Bound(c, 0) \in Int /\ 0 < Bound(c, 0)
    BY <1>1, CurveShape DEF Liquidity
  <1>3. BuyOutOfRange(st, c.curve[i]) = IF st.done \/ end <= q THEN st ELSE new
    BY DEF BuyOutOfRange, get_delta_amount_quote, get_delta_amount_base, MulDiv
  <1>4. /\ left \in Int /\ 0 <= left /\ st.amount_in \in Int
        /\ q \in Int /\ p <= q /\ 0 < q /\ st.done \in BOOLEAN
        /\ ~st.done => Bound(c, i - 1) <= q
        /\ CurveCost(c, q) <= CurveCost(c, p) + st.amount_in
        /\ CurveSold(c, p) + x <= CurveSold(c, q) + left
    BY <1>2 DEF OutInv
  <1>5. CASE st.done
    BY <1>3, <1>4, <1>5 DEF OutInv
  <1>6. CASE ~st.done /\ end <= q
    BY <1>2, <1>3, <1>4, <1>6 DEF OutInv
  <1>7. CASE ~st.done /\ ~(end <= q)
    <2>1. /\ BuyOutOfRange(st, c.curve[i]) = new
          /\ Bound(c, i - 1) <= q /\ q < end /\ q <= end /\ end - q \in Int
          /\ q * end \in Int /\ q * end > 0
      <3>1. BuyOutOfRange(st, c.curve[i]) = new
        BY <1>3, <1>7, Zenon
      <3>2. Bound(c, i - 1) <= q
        BY <1>4, <1>7
      <3> HIDE DEF new, q, end
      <3>3. q < end /\ q <= end /\ end - q \in Int
        BY <1>2, <1>4, <1>7
      <3>4. q * end \in Int /\ q * end > 0
        BY <1>2, <1>4, <3>3
      <3> QED
        BY <3>1, <3>2, <3>3, <3>4
    <2> HIDE DEF L, S2, q, left, end
    <2>2. max \in Int
      BY <1>2, <2>1, DownProps
    <2> DEFINE got == MulDivDown(L, nx - q, q * nx)
    <2>3. nx \in Int /\ q <= nx /\ nx <= Bound(c, i)
      <3>1. CASE left < max
        BY <1>2, <1>4, <2>1, <3>1, OutputStep
      <3>2. CASE ~(left < max)
        BY <1>2, <1>4, <2>1, <3>2
      <3> QED
        BY <3>1, <3>2
    <2>4. /\ paid \in Int /\ got \in Int
          /\ CurveCost(c, nx) <= CurveCost(c, q) + paid
          /\ CurveSold(c, q) + got <= CurveSold(c, nx)
      <3>1. paid = MulDivUp(Liquidity(c, i), nx - q, Scale * Scale)
            /\ got = MulDivDown(Liquidity(c, i), nx - q, q * nx)
        BY <1>2 DEF S2
      <3> HIDE DEF nx, paid, got
      <3> QED
        BY <1>4, <2>1, <2>3, <3>1, InsideRange
    <2>5. /\ new.amount_left \in Int /\ 0 <= new.amount_left
          /\ left <= got + new.amount_left
      <3>1. CASE left < max
        <4>1. left <= got
          BY <1>2, <1>4, <2>1, <3>1, OutputStep
        <4>2. new.amount_left = 0
          BY <3>1
        <4> HIDE DEF new, got
        <4> QED
          BY <1>4, <2>4, <4>1, <4>2
      <3>2. CASE ~(left < max)
        <4>1. nx = end /\ got = max /\ new.amount_left = left - max
          BY <3>2
        <4> HIDE DEF new, got, max
        <4> QED
          BY <1>4, <2>2, <3>2, <4>1
      <3> QED
        BY <3>1, <3>2
    <2>6. /\ new.amount_in = st.amount_in + paid /\ new.next_sqrt_price = nx
          /\ new.done = (left < max) /\ new.done \in BOOLEAN
      OBVIOUS
    <2>7. ~new.done => nx = Bound(c, i)
      BY <1>2, <2>6
    <2>8. /\ CurveCost(c, p) \in Int /\ CurveCost(c, q) \in Int /\ CurveCost(c, nx) \in Int
          /\ CurveSold(c, p) \in Int /\ CurveSold(c, q) \in Int /\ CurveSold(c, nx) \in Int
      <3> HIDE DEF nx
      <3> QED
        BY <1>4, <2>3, CurveInt
    <2> HIDE DEF new, got, paid, nx
    <2>9. CurveCost(c, nx) <= CurveCost(c, p) + (st.amount_in + paid)
      <3>1. \A s1, s2, s3, o, g \in Int : s2 <= s1 + o /\ s3 <= s2 + g => s3 <= s1 + (o + g)
        OBVIOUS
      <3> QED
        BY <1>4, <2>4, <2>8, <3>1
    <2>10. CurveSold(c, p) + x <= CurveSold(c, nx) + new.amount_left
      <3>1. \A s1, s2, s3, l1, l2, g \in Int :
                s1 <= s2 + l1 /\ s2 + g <= s3 /\ l1 <= g + l2 => s1 <= s3 + l2
        OBVIOUS
      <3>2. CurveSold(c, p) + x \in Int
        BY <2>8
      <3> QED
        BY <1>4, <2>4, <2>5, <2>8, <3>1, <3>2
    <2>11. new.amount_in \in Int /\ new.next_sqrt_price \in Int /\ p <= new.next_sqrt_price
      BY <1>4, <2>3, <2>4, <2>6
    <2>12. ASSUME ~new.done PROVE Bound(c, i) <= new.next_sqrt_price
      <3>1. new.next_sqrt_price = Bound(c, i)
        BY <2>6, <2>7, <2>12, Zenon
      <3> QED
        BY <1>2, <3>1
    <2>13. OutInv(c, p, x, i, new)
      BY <2>5, <2>6, <2>9, <2>10, <2>11, <2>12 DEF OutInv
    <2> QED
      BY <2>1, <2>13
  <1> QED
    BY <1>4, <1>5, <1>6, <1>7

\* One more range keeps what is known of the walk to the migration price.
LEMMA RaiseStep ==
    ASSUME NEW c \in Configs, NEW x \in Int,
           NEW i \in 1..Len(c.curve), NEW st, RaiseInv(c, x, i - 1, st)
    PROVE  RaiseInv(c, x, i, RaiseInRange(st, c.curve[i]))
  <1> DEFINE n == Len(c.curve)
             L == c.curve[i].liquidity
             S2 == Scale * Scale
             q == st.price
             left == st.left
             end == c.curve[i].sqrt_price
             max == MulDivUp(L, end - q, S2)
             nx == IF max > left THEN q + MulDivDown(left, S2, L) ELSE end
             new == IF max > left THEN [price |-> nx, left |-> 0, done |-> TRUE]
                    ELSE [price |-> nx, left |-> left - max, done |-> FALSE]
  <1>1. n \in Nat /\ i \in 0..n /\ i - 1 \in 0..n /\ 0 \in 0..n
    BY CurveShape
  <1>2. /\ L = Liquidity(c, i) /\ L \in Int /\ 0 < L /\ L < S2 /\ S2 \in Int /\ S2 > 0
        /\ end = Bound(c, i) /\ Bound(c, i) \in Int
        /\ Bound(c, i - 1) \in Int /\ 0 < Bound(c, i - 1) /\ Bound(c, i - 1) < Bound(c, i)
        /\ Bound(c, 0) \in Int /\ 0 < Bound(c, 0)
    BY <1>1, CurveShape DEF Liquidity
  <1>3. RaiseInRange(st, c.curve[i]) = IF st.done THEN st ELSE new
    <2>1. CASE st.done
      BY <2>1 DEF RaiseInRange
    <2>2. CASE ~st.done /\ max > left
      BY <2>2 DEF RaiseInRange, get_delta_amount_quote, MulDiv, ThresholdPriceInRange,
                  get_next_sqrt_price_from_input
    <2>3. CASE ~st.done /\ ~(max > left)
      BY <2>3 DEF RaiseInRange, get_delta_amount_quote, MulDiv
    <2> QED
      BY <2>1, <2>2, <2>3
  <1>4. /\ left \in Int /\ 0 <= left /\ st.done \in BOOLEAN
        /\ q \in Int /\ Bound(c, 0) <= q /\ q <= Bound(c, i - 1)
        /\ ~st.done => q = Bound(c, i - 1)
        /\ CurveCost(c, Bound(c, 0)) + x <= CurveCost(c, q) + left
    BY DEF RaiseInv
  <1>5. CASE st.done
    <2>1. q <= Bound(c, i)
      BY <1>2, <1>4
    <2> QED
      BY <1>3, <1>4, <1>5, <2>1 DEF RaiseInv
  <1>6. CASE ~st.done
    <2>1. /\ RaiseInRange(st, c.curve[i]) = new
          /\ q = Bound(c, i - 1) /\ Bound(c, i - 1) <= q
          /\ q < end /\ q <= end /\ end - q \in Int
      BY <1>2, <1>3, <1>4, <1>6
    <2> HIDE DEF L, S2, q, left, end
    <2>2. max \in Int
      BY <1>2, <2>1, UpProps
    <2> DEFINE paid == MulDivUp(L, nx - q, S2)
    <2>3. nx \in Int /\ q <= nx /\ nx <= Bound(c, i)
      <3>1. CASE max > left
        <4>1. left < max
          BY <1>4, <2>2, <3>1
        <4> QED
          BY <1>2, <1>4, <2>1, <3>1, <4>1, InputStep
      <3>2. CASE ~(max > left)
        BY <1>2, <2>1, <3>2
      <3> QED
        BY <3>1, <3>2
    <2>4. paid \in Int /\ CurveCost(c, nx) = CurveCost(c, q) + paid
      <3>1. paid = MulDivUp(Liquidity(c, i), nx - q, Scale * Scale)
        BY <1>2 DEF S2
      <3> HIDE DEF nx, paid
      <3> QED
        BY <1>4, <2>1, <2>3, <3>1, InsideRange
    <2>5. /\ new.left \in Int /\ 0 <= new.left /\ left <= paid + new.left
      <3>1. CASE max > left
        <4> DEFINE f == MulDivDown(left, S2, L)
        <4>1. f \in Int
          BY <1>2, <1>4, DownProps
        <4>2. nx = q + f
          BY <3>1
        <4>3. left <= MulDivUp(L, f, S2)
          BY <1>2, <1>4, InputExact
        <4> HIDE DEF f
        <4>4. nx - q = f
          BY <1>4, <4>1, <4>2
        <4>5. left <= paid /\ new.left = 0
          BY <3>1, <4>3, <4>4
        <4> HIDE DEF new, paid
        <4> QED
          BY <1>4, <2>4, <4>5
      <3>2. CASE ~(max > left)
        <4>1. nx = end /\ paid = max /\ new.left = left - max
          BY <3>2
        <4> HIDE DEF new, paid, max
        <4> QED
          BY <1>4, <2>2, <3>2, <4>1
      <3> QED
        BY <3>1, <3>2
    <2>6. new.price = nx /\ new.done \in BOOLEAN /\ (~new.done => nx = end)
      <3>1. CASE max > left
        BY <3>1
      <3>2. CASE ~(max > left)
        BY <3>2
      <3> QED
        BY <3>1, <3>2
    <2>7. ~new.done => nx = Bound(c, i)
      BY <1>2, <2>6
    <2>8. CurveCost(c, Bound(c, 0)) \in Int /\ CurveCost(c, q) \in Int /\ CurveCost(c, nx) \in Int
      <3> HIDE DEF nx
      <3> QED
        BY <1>2, <1>4, <2>3, CurveInt
    <2> HIDE DEF new, paid, nx
    <2>9. CurveCost(c, Bound(c, 0)) + x <= CurveCost(c, nx) + new.left
      <3>1. \A s0, s1, s2, pd, l1, l2 \in Int :
                s0 <= s1 + l1 /\ s2 = s1 + pd /\ l1 <= pd + l2 => s0 <= s2 + l2
        OBVIOUS
      <3>2. CurveCost(c, Bound(c, 0)) + x \in Int
        BY <2>8
      <3> QED
        BY <1>4, <2>4, <2>5, <2>8, <3>1, <3>2
    <2>10. Bound(c, 0) <= nx
      BY <1>2, <1>4, <2>3
    <2>11. RaiseInv(c, x, i, new)
      BY <2>3, <2>5, <2>6, <2>7, <2>9, <2>10 DEF RaiseInv
    <2> QED
      BY <2>1, <2>11
  <1> QED
    BY <1>4, <1>5, <1>6

-----------------------------------------------------------------------------
(***************************************************************************)
(* What the walks return.                                                  *)
(***************************************************************************)

\* What a buy that pays in returns: it paid for the piece of the curve it walked
\* and got no more than the piece holds; it stops short of the stop price only
\* when everything is spent.
LEMMA BuyInReturns ==
    ASSUME NEW c \in Configs, NEW p \in Int, NEW x \in Int, NEW stop \in Int,
           0 <= x, Bound(c, 0) <= p, p <= stop
    PROVE  InInv(c, p, x, stop, Len(c.curve),
                 calculate_quote_to_base_from_amount_in(c.curve, p, x, stop))
  <1> DEFINE n == Len(c.curve)
  <1>1. n \in Nat /\ Bound(c, 0) \in Int
    BY CurveShape
  <1> DEFINE w == BuyInWalk(c.curve, p, x, stop)
  <1>2. /\ w[0] = [amount_left |-> x, output_amount |-> 0, next_sqrt_price |-> p]
        /\ \A i \in 1..n : w[i] = BuyInRange(w[i - 1], c.curve[i], stop)
        /\ calculate_quote_to_base_from_amount_in(c.curve, p, x, stop) = w[n]
    <2>1. Len(c.curve) \in Nat
      BY <1>1
    <2> QED
      BY <2>1, WalkIn
  <1> HIDE DEF w
  <1> DEFINE S == {k \in Nat : k <= n => InInv(c, p, x, stop, k, w[k])}
  <1>3. 0 \in S
    <2>1. /\ w[0].amount_left = x /\ w[0].output_amount = 0 /\ w[0].next_sqrt_price = p
      BY <1>2
    <2>2. MinOf(stop, Bound(c, 0)) <= p
      BY <1>1 DEF MinOf
    <2>3. CurveCost(c, p) \in Int /\ CurveSold(c, p) \in Int
      BY CurveInt
    <2>4. InInv(c, p, x, stop, 0, w[0])
      BY <2>1, <2>2, <2>3 DEF InInv
    <2> QED
      BY <2>4
  <1>4. ASSUME NEW k \in S PROVE k + 1 \in S
    <2>1. SUFFICES ASSUME k + 1 <= n PROVE InInv(c, p, x, stop, k + 1, w[k + 1])
      OBVIOUS
    <2>2. k \in Nat /\ k + 1 \in 1..n /\ (k + 1) - 1 = k /\ InInv(c, p, x, stop, k, w[k])
      BY <1>1, <2>1
    <2>3. w[k + 1] = BuyInRange(w[k], c.curve[k + 1], stop)
      BY <1>2, <2>2
    <2> HIDE DEF S
    <2>4. InInv(c, p, x, stop, k + 1, BuyInRange(w[k], c.curve[k + 1], stop))
      BY <2>2, InStep
    <2> QED
      BY <2>3, <2>4
  <1>5. S = Nat
    <2>1. S \in SUBSET Nat
      OBVIOUS
    <2> HIDE DEF S
    <2> QED
      BY <1>3, <1>4, <2>1, SetInduction
  <1>6. n \in S
    BY <1>1, <1>5, Zenon
  <1>7. InInv(c, p, x, stop, n, w[n])
    BY <1>1, <1>6
  <1> QED
    BY <1>2, <1>7

\* What a buy that asks for base tokens returns: it pays for the piece of the
\* curve it walked, and the piece holds what it found.
LEMMA BuyOutReturns ==
    ASSUME NEW c \in Configs, NEW p \in Int, NEW x \in Int, 0 <= x, Bound(c, 0) <= p
    PROVE  OutInv(c, p, x, Len(c.curve),
                  calculate_quote_to_base_from_amount_out(c.curve, p, x))
  <1> DEFINE n == Len(c.curve)
  <1>1. n \in Nat /\ Bound(c, 0) \in Int
    BY CurveShape
  <1> DEFINE w == BuyOutWalk(c.curve, p, x)
  <1>2. /\ w[0] = [amount_left |-> x, amount_in |-> 0, next_sqrt_price |-> p,
                   done |-> FALSE]
        /\ \A i \in 1..n : w[i] = BuyOutOfRange(w[i - 1], c.curve[i])
        /\ calculate_quote_to_base_from_amount_out(c.curve, p, x) = w[n]
    <2>1. Len(c.curve) \in Nat
      BY <1>1
    <2> QED
      BY <2>1, WalkOut
  <1> HIDE DEF w
  <1> DEFINE S == {k \in Nat : k <= n => OutInv(c, p, x, k, w[k])}
  <1>3. 0 \in S
    <2>1. /\ w[0].amount_left = x /\ w[0].amount_in = 0 /\ w[0].next_sqrt_price = p
          /\ ~w[0].done /\ w[0].done \in BOOLEAN
      BY <1>2
    <2>2. CurveCost(c, p) \in Int /\ CurveSold(c, p) \in Int
      BY CurveInt
    <2>3. OutInv(c, p, x, 0, w[0])
      BY <2>1, <2>2 DEF OutInv
    <2> QED
      BY <2>3
  <1>4. ASSUME NEW k \in S PROVE k + 1 \in S
    <2>1. SUFFICES ASSUME k + 1 <= n PROVE OutInv(c, p, x, k + 1, w[k + 1])
      OBVIOUS
    <2>2. k \in Nat /\ k + 1 \in 1..n /\ (k + 1) - 1 = k /\ OutInv(c, p, x, k, w[k])
      BY <1>1, <2>1
    <2>3. w[k + 1] = BuyOutOfRange(w[k], c.curve[k + 1])
      BY <1>2, <2>2
    <2> HIDE DEF S
    <2>4. OutInv(c, p, x, k + 1, BuyOutOfRange(w[k], c.curve[k + 1]))
      BY <2>2, OutStep
    <2> QED
      BY <2>3, <2>4
  <1>5. S = Nat
    <2>1. S \in SUBSET Nat
      OBVIOUS
    <2> HIDE DEF S
    <2> QED
      BY <1>3, <1>4, <2>1, SetInduction
  <1>6. n \in S
    BY <1>1, <1>5, Zenon
  <1>7. OutInv(c, p, x, n, w[n])
    BY <1>1, <1>6
  <1> QED
    BY <1>2, <1>7

\* What the walk to the migration price returns: a price up to which the curve
\* asks for what was raised.
LEMMA ThresholdReturns ==
    ASSUME NEW c \in Configs, NEW x \in Int, 0 <= x
    PROVE  RaiseInv(c, x, Len(c.curve),
                    get_migration_threshold_price(x, c.sqrt_start_price, c.curve))
  <1> DEFINE n == Len(c.curve)
             p == c.sqrt_start_price
  <1>1. n \in Nat /\ Bound(c, 0) \in Int
    BY CurveShape
  <1> DEFINE w == RaiseWalk(c.curve, p, x)
  <1>2. /\ w[0] = [price |-> p, left |-> x, done |-> FALSE]
        /\ \A i \in 1..n : w[i] = RaiseInRange(w[i - 1], c.curve[i])
        /\ get_migration_threshold_price(x, p, c.curve) = w[n]
    <2>1. Len(c.curve) \in Nat
      BY <1>1
    <2> HIDE DEF p
    <2> QED
      BY <2>1, WalkToThreshold
  <1> HIDE DEF w
  <1>b. p = Bound(c, 0)
    BY DEF Bound
  <1> DEFINE S == {k \in Nat : k <= n => RaiseInv(c, x, k, w[k])}
  <1>3. 0 \in S
    <2>1. w[0].price = Bound(c, 0) /\ w[0].left = x
          /\ ~w[0].done /\ w[0].done \in BOOLEAN
      BY <1>2, <1>b
    <2>2. CurveCost(c, Bound(c, 0)) \in Int
      BY <1>1, CurveInt
    <2>3. RaiseInv(c, x, 0, w[0])
      BY <1>1, <2>1, <2>2 DEF RaiseInv
    <2> QED
      BY <2>3
  <1>4. ASSUME NEW k \in S PROVE k + 1 \in S
    <2>1. SUFFICES ASSUME k + 1 <= n PROVE RaiseInv(c, x, k + 1, w[k + 1])
      OBVIOUS
    <2>2. k \in Nat /\ k + 1 \in 1..n /\ (k + 1) - 1 = k /\ RaiseInv(c, x, k, w[k])
      BY <1>1, <2>1
    <2>3. w[k + 1] = RaiseInRange(w[k], c.curve[k + 1])
      BY <1>2, <2>2
    <2> HIDE DEF S
    <2>4. RaiseInv(c, x, k + 1, RaiseInRange(w[k], c.curve[k + 1]))
      BY <2>2, RaiseStep
    <2> QED
      BY <2>3, <2>4
  <1>5. S = Nat
    <2>1. S \in SUBSET Nat
      OBVIOUS
    <2> HIDE DEF S
    <2> QED
      BY <1>3, <1>4, <2>1, SetInduction
  <1>6. n \in S
    BY <1>1, <1>5, Zenon
  <1>7. RaiseInv(c, x, n, w[n])
    BY <1>1, <1>6
  <1> QED
    BY <1>2, <1>7

\* A sum of zeros.
LEMMA TotalZero ==
    ASSUME NEW n \in Nat, NEW a \in [1..n -> Int], \A i \in 1..n : a[i] = 0
    PROVE  Total(a, n) = 0
  <1>1. PICK s \in [0..n -> Int] : /\ s[0] = 0
                                   /\ \A i \in 1..n : s[i] = s[i - 1] + a[i]
                                   /\ Total(a, n) = s[n]
    BY TotalDefined
  <1> DEFINE S == {k \in Nat : k <= n => s[k] = 0}
  <1>2. 0 \in S
    BY <1>1
  <1>3. ASSUME NEW k \in S PROVE k + 1 \in S
    <2>1. SUFFICES ASSUME k + 1 <= n PROVE s[k + 1] = 0
      OBVIOUS
    <2>2. k + 1 \in 1..n /\ (k + 1) - 1 = k /\ s[k] = 0
      BY <2>1
    <2>3. s[k + 1] = s[k] + a[k + 1] /\ a[k + 1] = 0
      BY <1>1, <2>2
    <2> QED
      BY <2>2, <2>3
  <1>4. S = Nat
    <2>1. S \in SUBSET Nat
      OBVIOUS
    <2> HIDE DEF S
    <2> QED
      BY <1>2, <1>3, <2>1, SetInduction
  <1>5. n \in S
    BY <1>4
  <1> QED
    BY <1>1, <1>5

\* At the start price nothing has been paid and nothing sold.
LEMMA CurveAtStart ==
    ASSUME NEW c \in Configs
    PROVE  CurveCost(c, Bound(c, 0)) = 0 /\ CurveSold(c, Bound(c, 0)) = 0
  <1> DEFINE n == Len(c.curve)
             p == Bound(c, 0)
             f == [i \in 1..n |-> RangeCost(c, p, i)]
             g == [i \in 1..n |-> RangeSold(c, p, i)]
  <1>1. n \in Nat /\ 0 \in 0..n /\ p \in Int
    BY CurveShape
  <1>2. ASSUME NEW i \in 1..n PROVE RangeCost(c, p, i) = 0 /\ RangeSold(c, p, i) = 0
    <2>1. i - 1 \in 0..n /\ 0 <= i - 1
      BY <1>1
    <2>2. p <= Bound(c, i - 1)
      BY <1>1, <2>1, BoundsGrow
    <2>3. Bound(c, i - 1) \in Int
      BY <2>1, CurveShape
    <2>4. Bound(c, i - 1) >= p
      BY <1>1, <2>2, <2>3
    <2> QED
      BY <2>4 DEF RangeCost, RangeSold
  <1>3. f \in [1..n -> Int] /\ g \in [1..n -> Int] /\ \A i \in 1..n : f[i] = 0 /\ g[i] = 0
    BY <1>2
  <1>4. CurveCost(c, p) = Total(f, n) /\ CurveSold(c, p) = Total(g, n)
    BY <1>1, CurveSums
  <1> HIDE DEF n, p, f, g
  <1>5. CurveCost(c, p) = 0 /\ CurveSold(c, p) = 0
    BY <1>1, <1>3, <1>4, TotalZero
  <1> QED
    BY <1>5 DEF p

\* The migration price lies on the curve, and the curve asks for at least the
\* threshold up to there.
LEMMA MigrationPrice ==
    ASSUME NEW c \in Configs
    PROVE  /\ c.migration_sqrt_price \in Int
           /\ Bound(c, 0) <= c.migration_sqrt_price
           /\ c.migration_sqrt_price <= Bound(c, Len(c.curve))
           /\ c.migration_sqrt_price < MAX_SQRT_PRICE
           /\ c.migration_quote_threshold <= CurveCost(c, c.migration_sqrt_price)
           /\ c.swap_base_amount =
                  get_base_token_for_swap(c.sqrt_start_price, c.migration_sqrt_price, c.curve)
  <1> DEFINE st == get_migration_threshold_price(c.migration_quote_threshold,
                                                 c.sqrt_start_price, c.curve)
             x == c.migration_quote_threshold
  <1>1. c = process_create_config(c) /\ ValidConfig(c)
    BY PoolAssumption DEF PoolAssumption
  <1>2. /\ process_create_config(c).migration_sqrt_price = st.price
        /\ process_create_config(c).swap_base_amount =
               get_base_token_for_swap(c.sqrt_start_price, st.price, c.curve)
    BY DEF process_create_config
  <1>3. c.migration_sqrt_price = st.price
        /\ c.swap_base_amount = get_base_token_for_swap(c.sqrt_start_price, st.price, c.curve)
    BY <1>1, <1>2, Zenon
  <1>4. st.left = 0 /\ c.migration_sqrt_price < MAX_SQRT_PRICE
    BY <1>1 DEF ValidConfig
  <1>5. x \in Int /\ 0 <= x
    BY ConfigFields, U64Props
  <1>6. RaiseInv(c, x, Len(c.curve), st)
    BY <1>5, ThresholdReturns
  <1> HIDE DEF st
  <1>7. CurveCost(c, Bound(c, 0)) = 0
    BY CurveAtStart
  <1>8. st.price \in Int /\ CurveCost(c, st.price) \in Int
    BY <1>6, CurveInt DEF RaiseInv
  <1>9. 0 + x <= CurveCost(c, st.price) + 0
    BY <1>4, <1>6, <1>7 DEF RaiseInv
  <1>10. x <= CurveCost(c, st.price)
    BY <1>5, <1>8, <1>9
  <1> QED
    BY <1>3, <1>4, <1>6, <1>10 DEF RaiseInv

-----------------------------------------------------------------------------
(***************************************************************************)
(* The pool.                                                               *)
(***************************************************************************)

\* The price is on the curve, not past the migration price, and the reserves
\* are backed by the curve.
OnCurve ==
    /\ Bound(config, 0) <= sqrt_price
    /\ sqrt_price <= config.migration_sqrt_price
    /\ CurveBacked

\* A fee taken out of an amount is not more than the amount.
LEMMA IncludedFee ==
    ASSUME NEW n \in FeeNumerators, NEW a \in Int, 0 <= a
    PROVE  FeeOfIncluded(n, a) \in Int /\ FeeOfIncluded(n, a) <= a
  <1> DEFINE d == FEE_DENOMINATOR
  <1>1. n \in Int /\ d \in Int /\ 0 < d /\ n <= d
    BY PoolAssumption, FeeAssumption DEF PoolAssumption, FeeAssumption
  <1> HIDE DEF d
  <1>2. a * n <= a * d
    BY <1>1, Scaled
  <1>3. a * n <= d * a
    BY <1>1, <1>2
  <1> QED
    BY <1>1, <1>3, UpProps DEF FeeOfIncluded, d

\* A fee added to an amount is an integer, and not negative.
LEMMA ExcludedFee ==
    ASSUME NEW m \in FeeNumerators, NEW a \in Int, 0 <= a
    PROVE  FeeOfExcluded(m, a) \in Int /\ 0 <= FeeOfExcluded(m, a)
  <1> DEFINE d == FEE_DENOMINATOR
             e == FEE_DENOMINATOR - m
             K == MulDivUp(a, d, e)
  <1>1. m \in Int /\ d \in Int /\ 0 < d /\ e \in Int /\ 0 < e /\ e <= d
    BY PoolAssumption, FeeAssumption DEF PoolAssumption, FeeAssumption
  <1>2. FeeOfExcluded(m, a) = K - a
    BY DEF FeeOfExcluded
  <1> HIDE DEF d, e
  <1>3. K \in Int /\ a * d <= e * K
    BY <1>1, UpProps
  <1> HIDE DEF K
  <1>4. a * e <= a * d
    BY <1>1, Scaled
  <1>5. e * a <= e * K
    <2>1. a * e = e * a /\ a * e \in Int /\ a * d \in Int /\ e * K \in Int
      BY <1>1, <1>3
    <2> QED
      BY <1>3, <1>4, <2>1
  <1>6. a <= K
    BY <1>1, <1>3, <1>5, Cancel
  <1> QED
    BY <1>2, <1>3, <1>6

\* What a swap takes from the base reserve: the output and, when fees are
\* taken on the base token, the fee.
Taken(r) ==
    IF fees_on_base_token
    THEN r.output_amount + r.fee.trading + r.fee.protocol + r.fee.referral
    ELSE r.output_amount

\* An exact-input swap that succeeds spends all of its input.
LEMMA ExactInputSpent ==
    ASSUME NEW curve, NEW p, NEW stop, NEW amount, NEW on_base, NEW has_referral, NEW n,
           get_swap_result_from_exact_input(curve, p, stop, amount, on_base,
                                            has_referral, n).ok
    PROVE  calculate_quote_to_base_from_amount_in(curve, p,
               IF on_base THEN amount ELSE amount - FeeOfIncluded(n, amount),
               stop).amount_left = 0
  BY Zenon DEF get_swap_result_from_exact_input

\* An exact-output swap that succeeds finds all of its output on the curve, at
\* or below the migration price.
LEMMA ExactOutputFound ==
    ASSUME NEW curve, NEW p, NEW stop, NEW amount, NEW on_base, NEW has_referral, NEW m,
           get_swap_result_from_exact_output(curve, p, stop, amount, on_base,
                                             has_referral, m).ok
    PROVE  LET buy == calculate_quote_to_base_from_amount_out(curve, p,
                          IF on_base THEN amount + FeeOfExcluded(m, amount) ELSE amount)
           IN  buy.amount_left = 0 /\ buy.next_sqrt_price <= stop
  BY Zenon DEF get_swap_result_from_exact_output

\* Whatever the mode, a swap that succeeds moves the price up, not past the
\* migration price, pays for the piece of the curve it walks and takes no
\* more than that piece holds.
LEMMA SwapFollowsCurve ==
    ASSUME TypeOK, OnCurve, NEW mode \in {"ExactIn", "PartialFill", "ExactOut"},
           NEW amount \in U64, NEW has_referral \in BOOLEAN,
           NEW n \in FeeNumerators, NEW m \in FeeNumerators,
           NEW r, r = SwapResult(mode, amount, has_referral, n, m), r.ok,
           r.excluded_input \in U64
    PROVE  /\ r.next_sqrt_price \in Int
           /\ sqrt_price <= r.next_sqrt_price
           /\ r.next_sqrt_price <= config.migration_sqrt_price
           /\ CurveCost(config, r.next_sqrt_price) <=
                  CurveCost(config, sqrt_price) + r.excluded_input
           /\ Taken(r) \in Int
           /\ CurveSold(config, sqrt_price) + Taken(r) <= CurveSold(config, r.next_sqrt_price)
  <1> DEFINE c == config
             p == sqrt_price
             stop == c.migration_sqrt_price
             N == Len(c.curve)
  <1>1. c \in Configs /\ p \in Int
    BY DEF TypeOK
  <1>2. Bound(c, 0) <= p /\ p <= stop
    BY DEF OnCurve
  <1>3. stop \in Int /\ stop <= Bound(c, N) /\ Bound(c, 0) \in Int
    <2>1. 0 \in 0..N
      BY <1>1, CurveShape
    <2> QED
      BY <1>1, <2>1, MigrationPrice, CurveShape
  <1>4. amount \in Int /\ 0 <= amount /\ r.excluded_input \in Int /\ 0 <= r.excluded_input
    BY U64Props
  <1>5. CurveCost(c, p) \in Int /\ CurveSold(c, p) \in Int
    BY <1>1, CurveInt
  <1>6. FeeOfIncluded(n, amount) \in Int /\ FeeOfIncluded(n, amount) <= amount
    BY <1>4, IncludedFee
  <1>in. CASE mode \in {"ExactIn", "PartialFill"}
    <2> DEFINE paid == IF fees_on_base_token THEN amount
                       ELSE amount - FeeOfIncluded(n, amount)
               buy == calculate_quote_to_base_from_amount_in(c.curve, p, paid, stop)
               fee == FeeOfIncluded(n, buy.output_amount)
    <2>1. paid \in Int /\ 0 <= paid
      BY <1>4, <1>6
    <2>2. InInv(c, p, paid, stop, N, buy)
      <3> HIDE DEF c, p, stop, paid
      <3> QED
        BY <1>1, <1>2, <1>3, <2>1, BuyInReturns DEF N
    <2>3. /\ r.next_sqrt_price = buy.next_sqrt_price
          /\ r.excluded_input = paid - buy.amount_left
          /\ r.output_amount = IF fees_on_base_token THEN buy.output_amount - fee
                               ELSE buy.output_amount
          /\ fees_on_base_token => r.fee = split_fees(fee, has_referral)
      <3>1. CASE mode = "ExactIn"
        <4>1. r = get_swap_result_from_exact_input(c.curve, p, stop, amount,
                      fees_on_base_token, has_referral, n)
          BY <3>1 DEF SwapResult
        <4>2. buy.amount_left = 0
          <5>1. get_swap_result_from_exact_input(c.curve, p, stop, amount,
                    fees_on_base_token, has_referral, n).ok
            BY <4>1, Zenon
          <5> QED
            BY <5>1, ExactInputSpent
        <4>3. /\ r.next_sqrt_price = buy.next_sqrt_price
              /\ r.excluded_input = paid
              /\ fees_on_base_token => /\ r.output_amount = buy.output_amount - fee
                                       /\ r.fee = split_fees(fee, has_referral)
              /\ ~fees_on_base_token => r.output_amount = buy.output_amount
          <5> HIDE DEF c, p, stop
          <5>1. CASE fees_on_base_token
            BY <4>1, <5>1 DEF get_swap_result_from_exact_input
          <5>2. CASE ~fees_on_base_token
            BY <4>1, <5>2 DEF get_swap_result_from_exact_input
          <5> QED
            BY <5>1, <5>2
        <4> HIDE DEF buy, paid, fee
        <4> QED
          BY <2>1, <4>2, <4>3
      <3>2. CASE mode = "PartialFill"
        <4>1. r = get_swap_result_from_partial_input(c.curve, p, stop, amount,
                      fees_on_base_token, has_referral, n, m)
          BY <3>2 DEF SwapResult
        <4> HIDE DEF c, p, stop
        <4> QED
          BY <4>1 DEF get_swap_result_from_partial_input
      <3> QED
        BY <1>in, <3>1, <3>2
    <2> HIDE DEF buy, paid
    <2>4. Taken(r) = buy.output_amount
      <3>1. buy.output_amount \in Int
        BY <2>2 DEF InInv
      <3>2. CASE fees_on_base_token
        <4>1. fee \in Int
          <5>1. n \in Int /\ FEE_DENOMINATOR \in Int /\ FEE_DENOMINATOR > 0
            BY PoolAssumption, FeeAssumption DEF PoolAssumption, FeeAssumption
          <5> QED
            BY <3>1, <5>1, MulDivInt DEF FeeOfIncluded
        <4> HIDE DEF fee
        <4>2. /\ r.fee.trading \in Int /\ r.fee.protocol \in Int /\ r.fee.referral \in Int
              /\ r.fee.trading + r.fee.protocol + r.fee.referral = fee
          BY <2>3, <3>2, <4>1, SplitFees
        <4>3. r.output_amount = buy.output_amount - fee
          BY <2>3, <3>2
        <4>4. Taken(r) = r.output_amount + r.fee.trading + r.fee.protocol + r.fee.referral
          BY <3>2 DEF Taken
        <4>5. \A x, y, u, v, f, o \in Int : u + v + y = f /\ x = o - f => x + u + v + y = o
          OBVIOUS
        <4>6. r.output_amount \in Int
          BY <3>1, <4>1, <4>3
        <4> QED
          BY <3>1, <4>1, <4>2, <4>3, <4>4, <4>5, <4>6
      <3>3. CASE ~fees_on_base_token
        BY <2>3, <3>3 DEF Taken
      <3> QED
        BY <3>2, <3>3
    <2>5. /\ r.next_sqrt_price \in Int /\ p <= r.next_sqrt_price /\ r.next_sqrt_price <= stop
          /\ CurveCost(c, r.next_sqrt_price) + buy.amount_left <= CurveCost(c, p) + paid
          /\ buy.amount_left \in Int
          /\ Taken(r) \in Int
          /\ CurveSold(c, p) + Taken(r) <= CurveSold(c, r.next_sqrt_price)
      BY <2>2, <2>3, <2>4 DEF InInv
    <2>6. CurveCost(c, r.next_sqrt_price) \in Int
      BY <1>1, <2>5, CurveInt
    <2>7. CurveCost(c, r.next_sqrt_price) <= CurveCost(c, p) + r.excluded_input
      <3>1. \A x, l, y, q \in Int : x + l <= y + q => x <= y + (q - l)
        OBVIOUS
      <3> QED
        BY <1>5, <2>1, <2>3, <2>5, <2>6, <3>1
    <2> QED
      BY <2>5, <2>7
  <1>out. CASE mode = "ExactOut"
    <2> DEFINE taken == IF fees_on_base_token THEN amount + FeeOfExcluded(m, amount)
                        ELSE amount
               buy == calculate_quote_to_base_from_amount_out(c.curve, p, taken)
    <2>0. FeeOfExcluded(m, amount) \in Int /\ 0 <= FeeOfExcluded(m, amount)
      BY <1>4, ExcludedFee
    <2>1. taken \in Int /\ 0 <= taken
      BY <1>4, <2>0
    <2>2. OutInv(c, p, taken, N, buy)
      <3> HIDE DEF c, p, stop, taken
      <3> QED
        BY <1>1, <1>2, <1>3, <2>1, BuyOutReturns DEF N
    <2>3. r = get_swap_result_from_exact_output(c.curve, p, stop, amount,
                  fees_on_base_token, has_referral, m)
      BY <1>out DEF SwapResult
    <2>4. /\ r.next_sqrt_price = buy.next_sqrt_price
          /\ buy.amount_left = 0 /\ buy.next_sqrt_price <= stop
          /\ r.excluded_input = buy.amount_in
          /\ r.output_amount = amount
          /\ fees_on_base_token => r.fee = split_fees(taken - amount, has_referral)
      <3>2. buy.amount_left = 0 /\ buy.next_sqrt_price <= stop
        <4>1. get_swap_result_from_exact_output(c.curve, p, stop, amount,
                  fees_on_base_token, has_referral, m).ok
          BY <2>3, Zenon
        <4> QED
          BY <4>1, ExactOutputFound
      <3>3. /\ r.next_sqrt_price = buy.next_sqrt_price
            /\ r.excluded_input = buy.amount_in
            /\ r.output_amount = amount
            /\ fees_on_base_token => r.fee = split_fees(taken - amount, has_referral)
        <4> HIDE DEF c, p, stop
        <4> QED
          BY <2>3 DEF get_swap_result_from_exact_output
      <3> QED
        BY <3>2, <3>3
    <2>5. Taken(r) = taken
      <3>1. CASE fees_on_base_token
        <4> DEFINE fee == taken - amount
        <4>1. fee \in Int
          BY <1>4, <2>1
        <4>2. r.fee = split_fees(fee, has_referral)
          BY <2>4, <3>1
        <4> HIDE DEF fee
        <4>3. /\ r.fee.trading \in Int /\ r.fee.protocol \in Int /\ r.fee.referral \in Int
              /\ r.fee.trading + r.fee.protocol + r.fee.referral = fee
          BY <4>1, <4>2, SplitFees
        <4>4. Taken(r) = amount + r.fee.trading + r.fee.protocol + r.fee.referral
          BY <2>4, <3>1 DEF Taken
        <4>5. fee = taken - amount
          BY DEF fee
        <4> HIDE DEF taken
        <4>6. taken = amount + fee
          BY <1>4, <2>1, <4>5
        <4>7. PICK u \in Int, v \in Int, y \in Int :
                  u = r.fee.trading /\ v = r.fee.protocol /\ y = r.fee.referral
          BY <4>3
        <4>8. u + v + y = fee /\ Taken(r) = amount + u + v + y
          BY <4>3, <4>4, <4>7
        <4>9. amount + u + v + y = amount + (u + v + y)
          BY <1>4
        <4> QED
          BY <4>6, <4>8, <4>9
      <3>2. CASE ~fees_on_base_token
        BY <2>4, <3>2 DEF Taken
      <3> QED
        BY <3>1, <3>2
    <2> HIDE DEF buy, taken
    <2>6. /\ r.next_sqrt_price \in Int /\ p <= r.next_sqrt_price /\ r.next_sqrt_price <= stop
          /\ CurveCost(c, r.next_sqrt_price) <= CurveCost(c, p) + r.excluded_input
          /\ CurveSold(c, p) + Taken(r) <= CurveSold(c, r.next_sqrt_price) + 0
      BY <2>2, <2>4, <2>5 DEF OutInv
    <2>7. CurveSold(c, r.next_sqrt_price) \in Int
      BY <1>1, <2>6, CurveInt
    <2>8. CurveSold(c, p) + Taken(r) <= CurveSold(c, r.next_sqrt_price)
      BY <2>6, <2>7
    <2> QED
      BY <2>1, <2>5, <2>6, <2>8
  <1> QED
    BY <1>in, <1>out


\* A swap leaves the pool on the curve.
LEMMA SwapKeepsCurve ==
    ASSUME TypeOK, OnCurve, NEW mode \in {"ExactIn", "PartialFill", "ExactOut"},
           NEW amount \in U64, NEW has_referral \in BOOLEAN,
           NEW n \in FeeNumerators, NEW m \in FeeNumerators, NEW is_virtual \in BOOLEAN,
           process_swap(SwapResult(mode, amount, has_referral, n, m), is_virtual)
    PROVE  OnCurve'
  <1>0. PICK r : r = SwapResult(mode, amount, has_referral, n, m)
    OBVIOUS
  <1>1. /\ r.ok /\ r.excluded_input \in U64 /\ apply_swap_result(r, is_virtual)
        /\ config' = config
    BY <1>0 DEF process_swap, configVars
  <1> DEFINE q == r.next_sqrt_price
             x == r.excluded_input
             t == Taken(r)
             c == config
             supply == get_initial_base_supply(config)
  <1>2. /\ q \in Int /\ sqrt_price <= q /\ q <= c.migration_sqrt_price
        /\ CurveCost(c, q) <= CurveCost(c, sqrt_price) + x
        /\ t \in Int
        /\ CurveSold(c, sqrt_price) + t <= CurveSold(c, q)
    BY <1>0, <1>1, SwapFollowsCurve
  <1>3. /\ base_reserve \in Int /\ quote_reserve \in Int /\ virtual_quote_reserve \in Int
        /\ sqrt_price \in Int /\ c \in Configs /\ x \in Int /\ supply \in Int
        /\ c.migration_sqrt_price \in Int /\ Bound(c, 0) \in Int
    <2>1. base_reserve \in U64 /\ quote_reserve \in U64 /\ virtual_quote_reserve \in U64
          /\ sqrt_price \in Int /\ c \in Configs
      BY DEF TypeOK
    <2>2. supply \in U64
      BY <2>1, ConfigFields
    <2>3. 0 \in 0..Len(c.curve)
      BY <2>1, CurveShape
    <2> QED
      BY <1>1, <2>1, <2>2, <2>3, U64Props, MigrationPrice, CurveShape
  <1>4. /\ CurveCost(c, q) \in Int /\ CurveSold(c, q) \in Int
        /\ CurveCost(c, sqrt_price) \in Int /\ CurveSold(c, sqrt_price) \in Int
    BY <1>2, <1>3, CurveInt
  <1>5. /\ sqrt_price' = q
        /\ base_reserve' = base_reserve - t
        /\ total_quote_reserve' = total_quote_reserve + x
    <2>1. sqrt_price' = q /\ base_reserve' = base_reserve - t
      BY <1>1 DEF apply_swap_result, Taken
    <2>2. CASE is_virtual
      <3>1. quote_reserve' = quote_reserve
            /\ virtual_quote_reserve' = virtual_quote_reserve + x
        BY <1>1, <2>2 DEF apply_swap_result
      <3> HIDE DEF x
      <3> QED
        BY <1>3, <2>1, <3>1 DEF total_quote_reserve
    <2>3. CASE ~is_virtual
      <3>1. quote_reserve' = quote_reserve + x
            /\ virtual_quote_reserve' = virtual_quote_reserve
        BY <1>1, <2>3 DEF apply_swap_result
      <3> HIDE DEF x
      <3> QED
        BY <1>3, <2>1, <3>1 DEF total_quote_reserve
    <2> QED
      BY <2>2, <2>3
  <1>6. /\ Bound(c, 0) <= sqrt_price
        /\ total_quote_reserve >= CurveCost(c, sqrt_price)
        /\ supply - base_reserve <= CurveSold(c, sqrt_price)
        /\ total_quote_reserve \in Int
    BY <1>3 DEF OnCurve, CurveBacked, total_quote_reserve
  <1> HIDE DEF q, x, t, c, supply
  <1>7. /\ Bound(c, 0) <= q
        /\ total_quote_reserve + x >= CurveCost(c, q)
    BY <1>2, <1>3, <1>4, <1>6
  <1>8. supply - (base_reserve - t) <= CurveSold(c, q)
    <2>1. supply - (base_reserve - t) = (supply - base_reserve) + t
      BY <1>2, <1>3
    <2> QED
      BY <1>2, <1>3, <1>4, <1>6, <2>1
  <1>9. /\ Bound(config', 0) <= sqrt_price'
        /\ sqrt_price' <= config'.migration_sqrt_price
        /\ total_quote_reserve' >= CurveCost(config', sqrt_price')
        /\ get_initial_base_supply(config') - base_reserve' <= CurveSold(config', sqrt_price')
    BY <1>1, <1>2, <1>5, <1>7, <1>8 DEF c, supply
  <1> QED
    BY <1>9 DEF OnCurve, CurveBacked

\* So does every other step, which leaves the sale alone.
LEMMA OnCurveStep == TypeOK /\ OnCurve /\ [Next]_vars => OnCurve'
  <1> SUFFICES ASSUME TypeOK, OnCurve, [Next]_vars PROVE OnCurve'
    OBVIOUS
  <1>1. CASE Trade
    <2>1. BuyAmounts \subseteq U64 /\ OutAmounts \subseteq U64
      BY PoolAssumption DEF PoolAssumption
    <2> QED
      BY <1>1, <2>1, SwapKeepsCurve DEF Trade, Swap, VirtualSwap
  <1>2. CASE ~Trade
    <2>1. UNCHANGED <<config, base_reserve, quote_reserve, virtual_quote_reserve, sqrt_price>>
      BY <1>2, OtherSteps DEF configVars, saleVars
    <2> QED
      BY <2>1 DEF OnCurve, CurveBacked, total_quote_reserve
  <1> QED
    BY <1>1, <1>2

\* A pool starts at the start price, with nothing raised and nothing sold.
LEMMA OnCurveInit == Init => OnCurve
  <1> SUFFICES ASSUME Init PROVE OnCurve
    OBVIOUS
  <1>1. /\ config \in Configs /\ sqrt_price = Bound(config, 0)
        /\ quote_reserve = 0 /\ virtual_quote_reserve = 0
        /\ base_reserve = get_initial_base_supply(config)
    BY DEF Init, Bound
  <1>2. /\ Bound(config, 0) \in Int
        /\ Bound(config, 0) <= config.migration_sqrt_price
    <2>1. 0 \in 0..Len(config.curve)
      BY <1>1, CurveShape
    <2> QED
      BY <1>1, <2>1, CurveShape, MigrationPrice
  <1>3. CurveCost(config, sqrt_price) = 0 /\ CurveSold(config, sqrt_price) = 0
    BY <1>1, CurveAtStart
  <1>4. get_initial_base_supply(config) \in Int
    BY <1>1, ConfigFields, U64Props
  <1>5. total_quote_reserve = 0
    BY <1>1 DEF total_quote_reserve
  <1>6. CurveBacked
    BY <1>1, <1>3, <1>4, <1>5 DEF CurveBacked
  <1> QED
    BY <1>1, <1>2, <1>6 DEF OnCurve

\* Hence the pool is always on the curve.
LEMMA OnCurveAlways == Spec => []OnCurve
  BY OnCurveInit, OnCurveStep, TypeCorrect, PTL DEF Spec

\* The roundings of apply_swap_result and of the three walks never favour a
\* buyer: for every configuration create_config accepts and every sequence of
\* swaps, the pool has taken in at least what the curve asks for up to its
\* price and has given out at most what the curve sells up to there.
THEOREM CurveAlwaysBacked == Spec => []CurveBacked
  <1>1. OnCurve => CurveBacked
    BY DEF OnCurve
  <1> QED
    BY <1>1, OnCurveAlways, PTL

\* The supply of a new pool covers what the curve sells up to the migration
\* price, the migration and the vesting.
LEMMA SupplyCovers ==
    ASSUME NEW c \in Configs
    PROVE  c.swap_base_amount + c.migration_base_threshold + c.vesting_amount
               <= get_initial_base_supply(c)
  <1> DEFINE P == c.migration_sqrt_price
             swap == c.swap_base_amount
             all == get_base_token_for_swap(c.sqrt_start_price, MAX_SQRT_PRICE, c.curve)
             quarter == MulDivDown(swap, SWAP_BUFFER_PERCENTAGE, 100)
             buffered == get_swap_amount_with_buffer(swap, c.sqrt_start_price, c.curve)
             mig == c.migration_base_threshold
             vest == c.vesting_amount
  <1>1. c \in ConfigType /\ ValidConfig(c)
    BY PoolAssumption DEF PoolAssumption
  <1>2. swap \in U64 /\ mig \in U64 /\ vest \in U64
        /\ c.pre_migration_token_supply \in U64 /\ c.fixed_token_supply \in BOOLEAN
    BY <1>1 DEF ConfigType
  <1>3. /\ swap \in Int /\ 0 <= swap /\ mig \in Int /\ vest \in Int
        /\ c.pre_migration_token_supply \in Int
    BY <1>2, U64Props
  <1>4. swap <= all /\ all \in Int
    <2>1. P \in Int /\ P < MAX_SQRT_PRICE /\ MAX_SQRT_PRICE \in Int
          /\ swap = get_base_token_for_swap(c.sqrt_start_price, P, c.curve)
      BY MigrationPrice, ConfigAssumption DEF ConfigAssumption
    <2>2. P <= MAX_SQRT_PRICE
      BY <2>1
    <2> HIDE DEF P
    <2> QED
      BY <2>1, <2>2, SoldBelow, BaseTokenInt
  <1>5. quarter \in Int /\ 0 <= quarter
    <2>1. swap * SWAP_BUFFER_PERCENTAGE \in Int /\ 0 <= swap * SWAP_BUFFER_PERCENTAGE
      BY <1>3 DEF SWAP_BUFFER_PERCENTAGE
    <2> HIDE DEF swap
    <2> QED
      BY <2>1 DEF MulDivDown
  <1>6. buffered = MinOf(swap + quarter, all)
    BY DEF get_swap_amount_with_buffer
  <1>7. buffered \in Int /\ swap <= buffered
    <2> HIDE DEF swap, quarter, all, buffered
    <2> QED
      BY <1>3, <1>4, <1>5, <1>6 DEF MinOf
  <1>8. CASE c.fixed_token_supply
    <2>1. buffered + mig + vest <= c.pre_migration_token_supply
      BY <1>1, <1>8 DEF ValidConfig, get_total_token_supply
    <2>2. get_initial_base_supply(c) = c.pre_migration_token_supply
      BY <1>8 DEF get_initial_base_supply
    <2> HIDE DEF swap, mig, vest, buffered
    <2> QED
      BY <1>3, <1>7, <2>1, <2>2 DEF swap, mig, vest
  <1>9. CASE ~c.fixed_token_supply
    <2>1. get_initial_base_supply(c) = buffered + mig + vest
      BY <1>9 DEF get_initial_base_supply, get_total_token_supply
    <2> HIDE DEF buffered
    <2> QED
      BY <1>3, <1>7, <2>1
  <1> QED
    BY <1>8, <1>9

\* From a state on the curve, the partial fill of SaleCanFinish finishes.
LEMMA OnCurveCanFinish == TypeOK /\ OnCurve => SaleCanFinish
  <1> SUFFICES ASSUME TypeOK, OnCurve PROVE SaleCanFinish
    OBVIOUS
  <1> DEFINE c == config
             p == sqrt_price
             stop == c.migration_sqrt_price
             threshold == c.migration_quote_threshold
             offer == threshold + 1
             buy == calculate_quote_to_base_from_amount_in(c.curve, p, offer, stop)
             total == total_quote_reserve
             supply == get_initial_base_supply(c)
             q == buy.next_sqrt_price
  <1>1. /\ c \in Configs /\ p \in Int /\ base_reserve \in Int /\ total \in Int /\ 0 <= total
    <2>1. base_reserve \in U64 /\ quote_reserve \in U64 /\ virtual_quote_reserve \in U64
      BY DEF TypeOK
    <2>2. base_reserve \in Int /\ quote_reserve \in Int /\ virtual_quote_reserve \in Int
          /\ 0 <= quote_reserve /\ 0 <= virtual_quote_reserve
      BY <2>1, U64Props
    <2> QED
      BY <2>2 DEF TypeOK, total_quote_reserve
  <1>2. /\ threshold \in Int /\ 0 <= threshold /\ supply \in Int
    <2>1. threshold \in U64 /\ supply \in U64
      BY <1>1, ConfigFields
    <2> QED
      BY <2>1, U64Props
  <1>3. /\ stop \in Int /\ stop <= Bound(c, Len(c.curve)) /\ stop < MAX_SQRT_PRICE
        /\ threshold <= CurveCost(c, stop)
        /\ c.swap_base_amount = get_base_token_for_swap(c.sqrt_start_price, stop, c.curve)
    BY <1>1, MigrationPrice
  <1>4. /\ Bound(c, 0) <= p /\ p <= stop
        /\ total >= CurveCost(c, p)
        /\ supply - base_reserve <= CurveSold(c, p)
    BY DEF OnCurve, CurveBacked
  <1>5. InInv(c, p, offer, stop, Len(c.curve), buy)
    <2>1. offer \in Int /\ 0 <= offer
      BY <1>2
    <2> HIDE DEF c, p, stop, offer
    <2> QED
      BY <1>1, <1>3, <1>4, <2>1, BuyInReturns
  <1> HIDE DEF buy
  <1>6. /\ buy.amount_left \in Int /\ 0 <= buy.amount_left /\ buy.output_amount \in Int
        /\ q \in Int /\ q <= stop
        /\ 0 < buy.amount_left => MinOf(stop, Bound(c, Len(c.curve))) <= q
        /\ CurveCost(c, q) + buy.amount_left <= CurveCost(c, p) + offer
        /\ CurveSold(c, p) + buy.output_amount <= CurveSold(c, q)
    BY <1>5 DEF InInv
  <1>7. /\ CurveCost(c, q) \in Int /\ CurveCost(c, p) \in Int
        /\ CurveSold(c, q) \in Int /\ CurveSold(c, p) \in Int
    BY <1>1, <1>6, CurveInt
  <1>8. total + (offer - buy.amount_left) >= threshold
    <2>1. CASE buy.amount_left = 0
      <3> HIDE DEF total, threshold
      <3> QED
        BY <1>1, <1>2, <2>1
    <2>2. CASE 0 < buy.amount_left
      <3>1. MinOf(stop, Bound(c, Len(c.curve))) = stop
        BY <1>3 DEF MinOf
      <3>2. q = stop
        BY <1>3, <1>6, <2>2, <3>1
      <3>3. threshold <= CurveCost(c, q)
        BY <1>3, <3>2
      <3>4. \A u, v, t, o, l, h \in Int :
                h <= u /\ u + l <= v + o /\ t >= v => t + (o - l) >= h
        OBVIOUS
      <3>5. offer \in Int
        BY <1>2
      <3> HIDE DEF total, threshold, offer, q
      <3> QED
        BY <1>1, <1>2, <1>4, <1>6, <1>7, <3>3, <3>4, <3>5
    <2> QED
      BY <1>6, <2>1, <2>2
  <1>9. base_reserve - buy.output_amount >= c.migration_base_threshold + c.vesting_amount
    <2> DEFINE swap == c.swap_base_amount
               mig == c.migration_base_threshold
               vest == c.vesting_amount
    <2>1. swap \in Int /\ mig \in Int /\ vest \in Int
      <3>1. c \in ConfigType
        BY <1>1, PoolAssumption DEF PoolAssumption
      <3>2. swap \in U64 /\ mig \in U64 /\ vest \in U64
        BY <3>1 DEF ConfigType
      <3> QED
        BY <3>2, U64Props
    <2>2. swap + mig + vest <= supply
      BY <1>1, SupplyCovers
    <2>3. CurveSold(c, q) <= swap
      <3> HIDE DEF q, stop
      <3> QED
        BY <1>1, <1>3, <1>6, SoldBelow
    <2>4. \A b, o, s, g, v, w, x, y \in Int :
              w + g + v <= s /\ y <= w /\ s - b <= x /\ x + o <= y => b - o >= g + v
      OBVIOUS
    <2> HIDE DEF swap, mig, vest, supply, q
    <2>5. base_reserve - buy.output_amount >= mig + vest
      BY <1>1, <1>2, <1>4, <1>6, <1>7, <2>1, <2>2, <2>3, <2>4
    <2> QED
      BY <2>5 DEF mig, vest
  <1> QED
    BY <1>8, <1>9 DEF SaleCanFinish, buy

\* For every configuration create_config accepts, no sequence of swaps leads
\* into a dead end: a partial fill that offers enough always completes the
\* curve, and the base check at the end of process_swap does not stop it.
THEOREM SalesCanFinish == Spec => []SaleCanFinish
  BY OnCurveCanFinish, OnCurveAlways, TypeCorrect, PTL

=============================================================================
