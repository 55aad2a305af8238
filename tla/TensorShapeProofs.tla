--------------------------- MODULE TensorShapeProofs ---------------------------
(***************************************************************************)
(* Proofs about TensorShape, for shapes of any rank and any dimensions.    *)
(*                                                                         *)
(* What a recursive function computes is proved by induction over a set of *)
(* natural numbers: NatSetInduction takes the set of those the claim holds *)
(* of, RecursionExists the steps of the recursion as a function.           *)
(***************************************************************************)
EXTENDS MCTensorShape, WellFoundedInduction, TLAPS

LEMMA NatSetInduction ==
  ASSUME NEW S, 0 \in S, \A n \in Nat : n \in S => n + 1 \in S
  PROVE  Nat \subseteq S
  <1> SUFFICES ASSUME NEW z \in Nat \ S PROVE FALSE
    OBVIOUS
  <1>1. PICK x \in Nat \ S : \A y \in Nat \ S : ~(<<y, x>> \in OpToRel(<, Nat))
    BY NatLessThanWellFounded, WFMin
  <1>2. \A y \in Nat \ S : ~(y < x)
    BY <1>1 DEF OpToRel
  <1>3. x # 0 /\ x - 1 \in Nat /\ x - 1 < x
    OBVIOUS
  <1>4. x - 1 \in S
    BY <1>2, <1>3
  <1>5. (x - 1) + 1 \in S
    BY <1>3, <1>4
  <1> QED
    BY <1>5

(* g is what the first n steps F make of v0.                                *)
Recursion(g, v0, F, n) == g[0] = v0 /\ \A i \in 1..n : g[i] = F[i][g[i - 1]]

(* A function defined step by step from v0 exists, whatever the steps are.  *)
LEMMA RecursionExists ==
  ASSUME NEW V, NEW v0 \in V, NEW n \in Nat, NEW F \in [1..n -> [V -> V]]
  PROVE  \E g \in [0..n -> V] : Recursion(g, v0, F, n)
  <1> USE DEF Recursion
  <1> DEFINE S == {m \in Nat : m <= n => \E g \in [0..m -> V] : Recursion(g, v0, F, m)}
  <1>1. 0 \in S
    <2>1. [i \in 0..0 |-> v0] \in [0..0 -> V] /\ Recursion([i \in 0..0 |-> v0], v0, F, 0)
      OBVIOUS
    <2> QED
      BY <2>1
  <1>2. ASSUME NEW m \in Nat, m \in S PROVE m + 1 \in S
    <2> SUFFICES ASSUME m + 1 <= n
                 PROVE  \E g \in [0..m + 1 -> V] : Recursion(g, v0, F, m + 1)
      OBVIOUS
    <2>1. PICK g \in [0..m -> V] : Recursion(g, v0, F, m)
      BY <1>2
    <2> DEFINE h == [i \in 0..m + 1 |-> IF i <= m THEN g[i] ELSE F[m + 1][g[m]]]
    <2>2. g[m] \in V /\ F[m + 1] \in [V -> V]
      OBVIOUS
    <2>3. h \in [0..m + 1 -> V]
      BY <2>2
    <2>4. h[0] = v0
      BY <2>1
    <2>5. ASSUME NEW i \in 1..m + 1 PROVE h[i] = F[i][h[i - 1]]
      <3>1. h[i - 1] = g[i - 1]
        OBVIOUS
      <3>2. CASE i = m + 1
        BY <3>1, <3>2
      <3>3. CASE i # m + 1
        <4>1. i \in 1..m /\ h[i] = g[i]
          BY <3>3
        <4> QED
          BY <2>1, <3>1, <4>1
      <3> QED
        BY <3>2, <3>3
    <2> QED
      BY <2>3, <2>4, <2>5
  <1>3. n \in S
    <2> HIDE DEF S
    <2> QED
      BY <1>1, <1>2, NatSetInduction
  <1> QED
    BY <1>3

(* The recursions of TensorShape start from 1 and stay among the integers.   *)
LEMMA IntRecursionExists ==
  ASSUME NEW n \in Nat, NEW F \in [1..n -> [Int -> Int]]
  PROVE  \E g \in [0..n -> Int] : Recursion(g, 1, F, n)
  <1> DEFINE V == Int
             v0 == 1
  <1>1. v0 \in V /\ F \in [1..n -> [V -> V]]
    OBVIOUS
  <1>2. \E g \in [0..n -> V] : Recursion(g, v0, F, n)
    <2> HIDE DEF V, v0
    <2> QED
      BY <1>1, RecursionExists
  <1> QED
    BY <1>2

LEMMA RecursionTyped ==
  ASSUME NEW n \in Nat, NEW F \in [1..n -> [Int -> Int]],
         NEW c, c[0] = 1, \A i \in 1..n : c[i - 1] \in Int => c[i] = F[i][c[i - 1]]
  PROVE  \A i \in 0..n : c[i] \in Int
  <1> DEFINE S == {m \in Nat : m <= n => c[m] \in Int}
  <1>1. 0 \in S
    OBVIOUS
  <1>2. ASSUME NEW m \in Nat, m \in S PROVE m + 1 \in S
    <2> SUFFICES ASSUME m + 1 <= n PROVE c[m + 1] \in Int
      OBVIOUS
    <2>1. m + 1 \in 1..n /\ (m + 1) - 1 = m /\ c[m] \in Int
      BY <1>2
    <2>2. F[m + 1] \in [Int -> Int]
      BY <2>1
    <2>3. c[m + 1] = F[m + 1][c[m]]
      BY <2>1
    <2> QED
      BY <2>1, <2>2, <2>3
  <1> HIDE DEF S
  <1>3. Nat \subseteq S
    BY <1>1, <1>2, NatSetInduction
  <1> QED
    BY <1>3 DEF S

----------------------------------------------------------------------------
(* Products *)

(* A set of positions that is not empty has a last one.                     *)
LEMMA LastPosition ==
  ASSUME NEW n \in Nat, NEW x \in SUBSET (1..n), x # {}
  PROVE  \E k \in x : \A i \in x : k >= i
  <1> DEFINE S == {m \in Nat : \A k \in x : n - m <= k => \E j \in x : \A i \in x : j >= i}
  <1>1. 0 \in S
    OBVIOUS
  <1>2. ASSUME NEW m \in Nat, m \in S PROVE m + 1 \in S
    <2> SUFFICES ASSUME NEW k \in x, n - (m + 1) <= k
                 PROVE  \E j \in x : \A i \in x : j >= i
      OBVIOUS
    <2>1. CASE \A i \in x : k >= i
      BY <2>1
    <2>2. CASE ~ \A i \in x : k >= i
      <3>1. PICK i \in x : ~(k >= i)
        BY <2>2
      <3>2. n - m <= i
        BY <3>1
      <3> QED
        BY <1>2, <3>2
    <2> QED
      BY <2>1, <2>2
  <1>3. n \in S
    <2> HIDE DEF S
    <2> QED
      BY <1>1, <1>2, NatSetInduction
  <1>4. PICK k \in x : TRUE
    OBVIOUS
  <1> QED
    BY <1>3, <1>4

(* The products of the factors at every set of positions, the first m of    *)
(* them considered.                                                        *)
LEMMA SubsetProducts ==
  ASSUME NEW s \in Seq(Int)
  PROVE  \E g \in [SUBSET (DOMAIN s) -> Int] :
           g = [x \in SUBSET (DOMAIN s) |->
                  IF x = {} THEN 1 ELSE g[x \ {Max(x)}] * s[Max(x)]]
  <1>1. PICK n \in Nat : DOMAIN s = 1..n /\ \A i \in 1..n : s[i] \in Int
    <2>1. Len(s) \in Nat /\ DOMAIN s = 1..Len(s) /\ \A i \in 1..Len(s) : s[i] \in Int
      OBVIOUS
    <2> QED
      BY <2>1
  <1> DEFINE X == SUBSET (1..n)
             V == [X -> Int]
             F == [m \in 1..n |-> [v \in V |->
                     [x \in X |-> IF m \in x THEN v[x] * s[m] ELSE v[x]]]]
             v0 == [x \in X |-> 1]
  <1>2. F \in [1..n -> [V -> V]]
    <2> SUFFICES ASSUME NEW m \in 1..n, NEW v \in V
                 PROVE  [x \in X |-> IF m \in x THEN v[x] * s[m] ELSE v[x]] \in V
      OBVIOUS
    <2> QED
      BY <1>1
  <1>3. v0 \in V
    OBVIOUS
  <1>4. PICK G \in [0..n -> V] : Recursion(G, v0, F, n)
    <2> HIDE DEF V, F, v0
    <2> QED
      BY <1>2, <1>3, RecursionExists
  <1>6. \A m \in 0..n : G[m] \in V
    BY <1>4
  <1>5. ASSUME NEW m \in 1..n, NEW x \in X
        PROVE  G[m][x] = IF m \in x THEN G[m - 1][x] * s[m] ELSE G[m - 1][x]
    <2>1. m - 1 \in 0..n
      BY <1>1
    <2>2. G[m - 1] \in V
      BY <1>6, <2>1
    <2>3. G[m] = [y \in X |-> IF m \in y THEN G[m - 1][y] * s[m] ELSE G[m - 1][y]]
      <3> HIDE DEF V
      <3> QED
        BY <1>4, <2>2 DEF Recursion
    <2> QED
      BY <2>3
  <1> HIDE DEF F
  (* Positions past the last of x change nothing.                            *)
  <1>7. ASSUME NEW x \in X, NEW k \in 0..n, \A i \in x : i <= k
        PROVE  G[n][x] = G[k][x]
    <2> DEFINE S == {m \in Nat : k + m <= n => G[k + m][x] = G[k][x]}
    <2>1. 0 \in S
      OBVIOUS
    <2>2. ASSUME NEW m \in Nat, m \in S PROVE m + 1 \in S
      <3> SUFFICES ASSUME k + (m + 1) <= n PROVE G[k + (m + 1)][x] = G[k][x]
        OBVIOUS
      <3>1. k + (m + 1) \in 1..n /\ k + (m + 1) \notin x /\ (k + (m + 1)) - 1 = k + m
        BY <1>1, <1>7
      <3>2. G[k + m][x] = G[k][x]
        BY <1>1, <2>2
      <3> QED
        BY <1>5, <3>1, <3>2
    <2>3. n - k \in S
      <3>1. n - k \in Nat
        BY <1>1
      <3> HIDE DEF S
      <3> QED
        BY <2>1, <2>2, <3>1, NatSetInduction
    <2>4. k + (n - k) = n
      BY <1>1
    <2> QED
      BY <1>1, <2>3, <2>4
  (* Nor does position k before it is considered.                            *)
  <1>8. ASSUME NEW x \in X, NEW k \in 1..n
        PROVE  G[k - 1][x \ {k}] = G[k - 1][x]
    <2> DEFINE y == x \ {k}
               S == {m \in Nat : m <= k - 1 => G[m][y] = G[m][x]}
    <2>1. y \in X
      OBVIOUS
    <2>2. 0 \in S
      BY <1>4, <2>1 DEF Recursion
    <2>3. ASSUME NEW m \in Nat, m \in S PROVE m + 1 \in S
      <3> SUFFICES ASSUME m + 1 <= k - 1 PROVE G[m + 1][y] = G[m + 1][x]
        OBVIOUS
      <3>1. /\ m + 1 \in 1..n /\ m + 1 # k /\ (m + 1) - 1 = m
            /\ G[m][y] = G[m][x]
        BY <1>1, <2>3
      <3>2. m + 1 \in y <=> m + 1 \in x
        BY <3>1
      <3> HIDE DEF y
      <3> QED
        BY <1>5, <2>1, <3>1, <3>2
    <2>4. k - 1 \in S
      <3>1. k - 1 \in Nat
        BY <1>1
      <3> HIDE DEF S
      <3> QED
        BY <2>2, <2>3, <3>1, NatSetInduction
    <2> QED
      BY <1>1, <2>4
  <1>9. ASSUME NEW x \in X, x # {}
        PROVE  /\ Max(x) \in x /\ x \ {Max(x)} \in X
               /\ G[n][x] = G[n][x \ {Max(x)}] * s[Max(x)]
    <2>1. Max(x) \in x /\ \A i \in x : i <= Max(x)
      BY <1>1, <1>9, LastPosition DEF Max
    <2> DEFINE k == Max(x)
    <2> HIDE DEF k
    <2>2. k \in 1..n /\ x \ {k} \in X
      BY <2>1 DEF k
    <2>3. G[n][x] = G[k][x] /\ G[n][x \ {k}] = G[k][x \ {k}]
      <3>1. \A i \in x : i <= k
        BY <2>1 DEF k
      <3>2. \A i \in x \ {k} : i <= k
        BY <3>1
      <3>3. k \in 0..n
        BY <2>2
      <3> QED
        BY <1>7, <2>2, <3>1, <3>2, <3>3
    <2>4. G[k][x] = G[k - 1][x] * s[k] /\ G[k][x \ {k}] = G[k - 1][x \ {k}]
      BY <1>5, <2>1, <2>2 DEF k
    <2> QED
      BY <1>8, <2>1, <2>2, <2>3, <2>4 DEF k
  <1>10. G[n] \in [X -> Int] /\ G[n][{}] = 1
    <2>1. n \in 0..n /\ 0 \in 0..n /\ {} \in X
      BY <1>1
    <2> QED
      BY <1>4, <1>6, <1>7, <2>1 DEF Recursion
  <1>11. G[n] = [x \in X |-> IF x = {} THEN 1 ELSE G[n][x \ {Max(x)}] * s[Max(x)]]
    BY <1>9, <1>10
  <1> QED
    BY <1>1, <1>10, <1>11

(* The products of the first factors of s, however many.                    *)
Partial(p, s) ==
  /\ p \in [0..Len(s) -> Int]
  /\ p[0] = 1
  /\ \A i \in 1..Len(s) : p[i] = p[i - 1] * s[i]

LEMMA ProductUnfolds ==
  ASSUME NEW s \in Seq(Int)
  PROVE  \E p : Partial(p, s) /\ Product(s) = p[Len(s)]
  <1> DEFINE D == DOMAIN s
             Eq(g) == g = [x \in SUBSET D |->
                             IF x = {} THEN 1 ELSE g[x \ {Max(x)}] * s[Max(x)]]
             g == CHOOSE g : Eq(g)
  <1>1. \E h \in [SUBSET D -> Int] : Eq(h)
    BY SubsetProducts
  <1>2. Eq(g)
    <2> HIDE DEF Eq
    <2> QED
      BY <1>1, Zenon
  <1>3. Product(s) = g[D]
    BY DEF Product, FoldLeft, MapThenFoldSet
  <1> HIDE DEF g
  <1>4. PICK n \in Nat : n = Len(s) /\ D = 1..n /\ \A i \in 1..n : s[i] \in Int
    <2>1. Len(s) \in Nat /\ D = 1..Len(s) /\ \A i \in 1..Len(s) : s[i] \in Int
      OBVIOUS
    <2> QED
      BY <2>1
  <1> DEFINE p == [i \in 0..n |-> g[1..i]]
  <1>5. p[0] = 1
    <2>1. 1..0 = {} /\ {} \in SUBSET D
      OBVIOUS
    <2> QED
      BY <1>2, <2>1
  <1>6. ASSUME NEW i \in 1..n PROVE p[i] = p[i - 1] * s[i]
    <2>1. \A j \in 1..i : j \in 1..n
      OBVIOUS
    <2>2. 1..i \in SUBSET D
      BY <1>4, <2>1
    <2>3. 1..i # {} /\ i - 1 \in 0..n /\ i \in 0..n
      <3>1. i \in 1..i /\ i - 1 \in 0..n /\ i \in 0..n
        OBVIOUS
      <3> QED
        BY <3>1
    <2>4. Max(1..i) = i
      BY DEF Max
    <2>5. (1..i) \ {i} = 1..i - 1
      OBVIOUS
    <2>6. g[1..i] = g[(1..i) \ {Max(1..i)}] * s[Max(1..i)]
      BY <1>2, <2>2, <2>3
    <2>7. p[i] = g[1..i] /\ p[i - 1] = g[1..i - 1]
      BY <2>3
    <2> QED
      BY <2>4, <2>5, <2>6, <2>7
  <1>7. \A i \in 0..n : p[i] \in Int
    <2> DEFINE S == {m \in Nat : m <= n => p[m] \in Int}
    <2> HIDE DEF p
    <2>1. 0 \in S
      BY <1>5
    <2>2. ASSUME NEW m \in Nat, m \in S PROVE m + 1 \in S
      BY <1>4, <1>6, <2>2
    <2> HIDE DEF S
    <2>3. Nat \subseteq S
      BY <2>1, <2>2, NatSetInduction
    <2> QED
      BY <2>3 DEF S
  <1>8. Partial(p, s)
    BY <1>4, <1>5, <1>6, <1>7 DEF Partial
  <1>9. Product(s) = p[Len(s)]
    BY <1>3, <1>4
  <1> QED
    BY <1>8, <1>9

----------------------------------------------------------------------------
(* The guarded products *)

(* The guard the code divides for is the comparison it means.               *)
LEMMA DivisionGuard ==
  ASSUME NEW a \in Nat, NEW b \in Nat \ {0}, NEW m \in Nat
  PROVE  a > m \div b <=> a * b > m
  <1> DEFINE q == m \div b
             r == m % b
  <1>1. q \in Nat /\ r \in 0..b - 1 /\ m = b * q + r
    OBVIOUS
  <1> HIDE DEF q, r
  <1>2. ASSUME a > q PROVE a * b > m
    <2>1. PICK d \in Nat : a = q + 1 + d
      <3>1. a - q - 1 \in Nat /\ a = q + 1 + (a - q - 1)
        BY <1>1, <1>2
      <3> QED
        BY <3>1
    <2>2. a * b = b * q + b + d * b
      BY <1>1, <2>1
    <2>3. d * b \in Nat
      BY <2>1
    <2> QED
      BY <1>1, <2>2, <2>3
  <1>3. ASSUME ~(a > q) PROVE ~(a * b > m)
    <2>1. PICK d \in Nat : q = a + d
      <3>1. q - a \in Nat /\ q = a + (q - a)
        BY <1>1, <1>3
      <3> QED
        BY <3>1
    <2>2. b * q = a * b + d * b
      BY <1>1, <2>1
    <2>3. d * b \in Nat
      BY <2>1
    <2> QED
      BY <1>1, <2>2, <2>3
  <1> QED
    BY <1>2, <1>3 DEF q

LEMMA ProductGrows ==
  ASSUME NEW a \in Nat, NEW b \in Nat \ {0}
  PROVE  a * b >= a
  <1>1. PICK d \in Nat : b = 1 + d
    <2>1. b - 1 \in Nat /\ b = 1 + (b - 1)
      OBVIOUS
    <2> QED
      BY <2>1
  <1>2. a * b = a + a * d
    BY <1>1
  <1>3. a * d \in Nat
    BY <1>1
  <1> QED
    BY <1>2, <1>3

(* What the loop of the guarded product computes, factor by factor.         *)
Checked(c, s) ==
  /\ c \in [0..Len(s) -> Int]
  /\ c[0] = 1
  /\ \A i \in 1..Len(s) :
       c[i] = IF \/ c[i - 1] = NoSize
                 \/ s[i] <= 0
                 \/ c[i - 1] > Int32Max \div s[i]
              THEN NoSize
              ELSE c[i - 1] * s[i]

LEMMA CheckedProductUnfolds ==
  ASSUME NEW s \in Seq(Int)
  PROVE  \E c : Checked(c, s) /\ CheckedProduct(s) = c[Len(s)]
  <1> DEFINE Body(v, i) == IF v = NoSize \/ s[i] <= 0 \/ v > Int32Max \div s[i]
                           THEN NoSize ELSE v * s[i]
             Eq(g) == g = [i \in 0..Len(s) |-> IF i = 0 THEN 1 ELSE Body(g[i - 1], i)]
             c == CHOOSE g : Eq(g)
  <1>1. PICK n \in Nat : n = Len(s) /\ \A i \in 1..n : s[i] \in Int
    <2>1. Len(s) \in Nat /\ \A i \in 1..Len(s) : s[i] \in Int
      OBVIOUS
    <2> QED
      BY <2>1
  <1>2. \A i \in 1..n, v \in Int : Body(v, i) \in Int
    BY <1>1 DEF NoSize
  <1> DEFINE F == [i \in 1..n |-> [v \in Int |-> Body(v, i)]]
  <1>3. F \in [1..n -> [Int -> Int]]
    BY <1>2
  <1>4. \A i \in 1..n, v \in Int : F[i][v] = Body(v, i)
    OBVIOUS
  <1> HIDE DEF F, Body
  <1>5. PICK g \in [0..n -> Int] : Recursion(g, 1, F, n)
    BY <1>3, IntRecursionExists
  <1>6. Eq(g)
    <2>1. ASSUME NEW i \in 0..n, i # 0 PROVE g[i] = Body(g[i - 1], i)
      <3>1. i \in 1..n /\ i - 1 \in 0..n
        BY <2>1
      <3>2. g[i - 1] \in Int
        BY <3>1
      <3> QED
        BY <1>4, <1>5, <3>1, <3>2 DEF Recursion
    <2> QED
      BY <1>1, <1>5, <2>1 DEF Recursion
  <1>7. Eq(c)
    <2> HIDE DEF Eq
    <2> QED
      BY <1>6, Zenon
  <1>8. CheckedProduct(s) = c[n]
    BY <1>1 DEF CheckedProduct, Body
  <1> HIDE DEF c
  <1>9. c = [i \in 0..n |-> c[i]] /\ c[0] = 1 /\ \A i \in 1..n : c[i] = Body(c[i - 1], i)
    <2>1. 0 \in 0..n /\ \A i \in 1..n : i \in 0..n /\ i # 0
      OBVIOUS
    <2> QED
      BY <1>1, <1>7, <2>1
  <1>10. \A i \in 1..n : c[i - 1] \in Int => c[i] = F[i][c[i - 1]]
    BY <1>4, <1>9
  <1>11. \A i \in 0..n : c[i] \in Int
    BY <1>3, <1>9, <1>10, RecursionTyped
  <1>12. c \in [0..n -> Int]
    BY <1>9, <1>11
  <1> QED
    BY <1>1, <1>8, <1>9, <1>12 DEF Checked, Body

(* As far as the loop has come, it has the product of the factors so far,   *)
(* or NoSize once one of them is not positive or the limit is passed.      *)
LEMMA CheckedAndPartial ==
  ASSUME NEW s \in Seq(Int), NEW p, Partial(p, s), NEW c, Checked(c, s), NEW m \in 0..Len(s)
  PROVE  LET positive == \A i \in 1..m : s[i] > 0
         IN  /\ positive => p[m] >= 1
             /\ c[m] = IF positive /\ p[m] <= Int32Max THEN p[m] ELSE NoSize
  <1> DEFINE Pos(k) == \A i \in 1..k : s[i] > 0
             Claim(k) == /\ Pos(k) => p[k] >= 1
                         /\ c[k] = IF Pos(k) /\ p[k] <= Int32Max THEN p[k] ELSE NoSize
             S == {k \in Nat : k <= Len(s) => Claim(k)}
  <1>1. 0 \in S
    BY ShapeAssumption DEF Partial, Checked
  <1>2. ASSUME NEW k \in Nat, k \in S PROVE k + 1 \in S
    <2> SUFFICES ASSUME k + 1 <= Len(s) PROVE Claim(k + 1)
      OBVIOUS
    <2> DEFINE j == k + 1
    <2>1. /\ Len(s) \in Nat /\ k \in 0..Len(s) /\ j \in 1..Len(s) /\ j - 1 = k
          /\ j = k + 1 /\ s[j] \in Int /\ Claim(k)
      BY <1>2
    <2>2. /\ p[k] \in Int /\ c[k] \in Int /\ p[j] = p[k] * s[j]
          /\ c[j] = IF c[k] = NoSize \/ s[j] <= 0 \/ c[k] > Int32Max \div s[j]
                    THEN NoSize ELSE c[k] * s[j]
      BY <2>1 DEF Partial, Checked
    <2>3. Pos(j) <=> Pos(k) /\ s[j] > 0
      <3>1. \A i \in 1..j : i \in 1..k \/ i = j
        OBVIOUS
      <3>2. j \in 1..j /\ \A i \in 1..k : i \in 1..j
        OBVIOUS
      <3> QED
        BY <3>1, <3>2
    <2>4. NoSize = -1 /\ Int32Max \in Nat \ {0}
      BY ShapeAssumption DEF NoSize
    <2> HIDE DEF Pos, j
    <2>5. CASE ~Pos(k) \/ ~(s[j] > 0)
      BY <2>1, <2>2, <2>3, <2>4, <2>5
    <2>6. CASE Pos(k) /\ s[j] > 0
      <3>1. p[k] \in Nat /\ p[k] >= 1 /\ s[j] \in Nat \ {0}
        BY <2>1, <2>2, <2>6
      <3>2. p[k] * s[j] >= p[k]
        BY <3>1, ProductGrows
      <3>3. CASE p[k] <= Int32Max
        <4>1. c[k] = p[k] /\ c[k] # NoSize
          BY <2>1, <2>4, <2>6, <3>1, <3>3
        <4>2. c[k] > Int32Max \div s[j] <=> p[j] > Int32Max
          BY <2>2, <2>4, <3>1, <4>1, DivisionGuard
        <4>3. p[j] \in Int /\ p[j] >= 1
          BY <2>2, <3>1, <3>2
        <4>4. c[j] = IF p[j] > Int32Max THEN NoSize ELSE p[j]
          BY <2>2, <2>6, <3>1, <4>1, <4>2
        <4> QED
          BY <2>1, <2>3, <2>4, <2>6, <4>3, <4>4
      <3>4. CASE p[k] > Int32Max
        <4>1. c[k] = NoSize
          BY <2>1, <2>2, <2>4, <3>4
        <4>2. c[j] = NoSize
          BY <2>2, <4>1
        <4>3. p[j] > Int32Max /\ p[j] >= 1
          BY <2>2, <2>4, <3>1, <3>2, <3>4
        <4> QED
          BY <2>1, <2>2, <2>4, <3>1, <4>2, <4>3
      <3> QED
        BY <2>4, <3>1, <3>3, <3>4
    <2> QED
      BY <2>1, <2>5, <2>6
  <1> HIDE DEF S
  <1>3. Nat \subseteq S
    BY <1>1, <1>2, NatSetInduction
  <1>4. m \in Nat /\ m <= Len(s)
    OBVIOUS
  <1> QED
    BY <1>3, <1>4 DEF S

(* The guarded product is the product of positive factors, when the limit   *)
(* allows it.                                                              *)
LEMMA CheckedProductIs ==
  ASSUME NEW s \in Seq(Int)
  PROVE  /\ CheckedProduct(s) = IF Positive(s) /\ Product(s) <= Int32Max
                                THEN Product(s) ELSE NoSize
         /\ Positive(s) => Product(s) >= 1
         /\ Product(s) \in Int
  <1>1. PICK p : Partial(p, s) /\ Product(s) = p[Len(s)]
    BY ProductUnfolds
  <1>2. PICK c : Checked(c, s) /\ CheckedProduct(s) = c[Len(s)]
    BY CheckedProductUnfolds
  <1>3. Len(s) \in 0..Len(s) /\ DOMAIN s = 1..Len(s)
    OBVIOUS
  <1>4. Positive(s) <=> \A i \in 1..Len(s) : s[i] > 0
    BY <1>3 DEF Positive
  <1>5. p[Len(s)] \in Int
    BY <1>1, <1>3 DEF Partial
  <1> QED
    BY <1>1, <1>2, <1>3, <1>4, <1>5, CheckedAndPartial

----------------------------------------------------------------------------
(* The shapes predict() makes up *)

LEMMA ConcreteTyped ==
  ASSUME NEW s \in Seq(Int)
  PROVE  /\ ConcreteShape(s) \in Seq(Int) /\ Len(ConcreteShape(s)) = Len(s)
         /\ Positive(ConcreteShape(s))
         /\ \A i \in 1..Len(s) :
              ConcreteShape(s)[i] = IF s[i] > 0 THEN s[i] ELSE 1
  <1>1. Len(s) \in Nat /\ DOMAIN s = 1..Len(s) /\ \A i \in 1..Len(s) : s[i] \in Int
    OBVIOUS
  <1>2. ConcreteShape(s) = [i \in 1..Len(s) |-> IF s[i] > 0 THEN s[i] ELSE 1]
    BY <1>1 DEF ConcreteShape
  <1> QED
    BY <1>1, <1>2 DEF Positive

(* Two products with the same factors are the same; the second may have a   *)
(* factor more in front.                                                   *)
LEMMA ProductOfTail ==
  ASSUME NEW s \in Seq(Int), NEW t \in Seq(Int), Len(t) = Len(s) + 1,
         \A i \in 1..Len(s) : t[i + 1] = s[i]
  PROVE  Product(t) = t[1] * Product(s)
  <1>1. PICK p : Partial(p, s) /\ Product(s) = p[Len(s)]
    BY ProductUnfolds
  <1>2. PICK q : Partial(q, t) /\ Product(t) = q[Len(t)]
    BY ProductUnfolds
  <1>3. Len(s) \in Nat /\ t[1] \in Int
    BY Len(s) + 1 > 0
  <1> DEFINE S == {k \in Nat : k <= Len(s) => q[k + 1] = t[1] * p[k]}
  <1>4. 0 \in S
    <2>1. 1 \in 1..Len(t) /\ 1 - 1 = 0
      BY <1>3
    <2>2. q[1] = q[0] * t[1] /\ q[0] = 1 /\ p[0] = 1
      BY <1>1, <1>2, <2>1 DEF Partial
    <2> QED
      BY <1>3, <2>2
  <1>5. ASSUME NEW k \in Nat, k \in S PROVE k + 1 \in S
    <2> SUFFICES ASSUME k + 1 <= Len(s) PROVE q[(k + 1) + 1] = t[1] * p[k + 1]
      OBVIOUS
    <2>1. q[k + 1] = t[1] * p[k]
      BY <1>3, <1>5
    <2>2. /\ k + 1 \in 1..Len(s) /\ (k + 1) + 1 \in 1..Len(t)
          /\ (k + 1) - 1 = k /\ ((k + 1) + 1) - 1 = k + 1 /\ k \in 0..Len(s)
      BY <1>3
    <2>3. p[k + 1] = p[k] * s[k + 1] /\ q[(k + 1) + 1] = q[k + 1] * t[(k + 1) + 1]
      BY <1>1, <1>2, <2>2 DEF Partial
    <2>4. t[(k + 1) + 1] = s[k + 1]
      BY <2>2
    <2>5. p[k] \in Int /\ s[k + 1] \in Int
      <3>1. p[k] \in Int
        BY <1>1, <2>2 DEF Partial
      <3> QED
        BY <2>2, <3>1
    <2>6. (t[1] * p[k]) * s[k + 1] = t[1] * (p[k] * s[k + 1])
      BY <1>3, <2>5
    <2> QED
      BY <2>1, <2>3, <2>4, <2>6
  <1>6. Len(s) \in S
    <2> HIDE DEF S
    <2> QED
      BY <1>3, <1>4, <1>5, NatSetInduction
  <1> QED
    BY <1>1, <1>2, <1>3, <1>6

LEMMA ProductOfNone == Product(<<>>) = 1
  <1>1. PICK p : Partial(p, <<>>) /\ Product(<<>>) = p[Len(<<>>)]
    BY ProductUnfolds, <<>> \in Seq(Int)
  <1> QED
    BY <1>1 DEF Partial
LEMMA FlatSizeIs ==
  ASSUME dims \in Seq(Int)
  PROVE  FlatSizeExact
  <1> DEFINE inner == IF dims = <<>> THEN <<>> ELSE Tail(dims)
             batch == IF dims = <<>> \/ dims[1] <= 0 THEN 1 ELSE dims[1]
             t == ConcreteShape(dims)
  <1>1. t \in Seq(Int) /\ Len(t) = Len(dims) /\ Positive(t) /\ Len(dims) \in Nat
        /\ \A i \in 1..Len(dims) : t[i] = IF dims[i] > 0 THEN dims[i] ELSE 1
    BY ConcreteTyped
  <1>2. inner \in Seq(Int) /\ DOMAIN dims = 1..Len(dims) /\ \A i \in DOMAIN dims : dims[i] \in Int
    OBVIOUS
  <1>3. CheckedProduct(t) = IF Product(t) <= Int32Max THEN Product(t) ELSE NoSize
    BY <1>1, CheckedProductIs
  <1>4. (\E i \in DOMAIN dims : i > 1 /\ dims[i] <= 0) <=> ~Positive(inner)
    <2>1. CASE dims = <<>>
      BY <2>1 DEF Positive
    <2>2. CASE dims # <<>>
      <3>1. DOMAIN inner = 1..Len(dims) - 1 /\ \A i \in 1..Len(dims) - 1 : inner[i] = dims[i + 1]
        BY <2>2
      <3>2. \A i \in 2..Len(dims) : i - 1 \in 1..Len(dims) - 1 /\ (i - 1) + 1 = i
        BY <1>1
      <3>3. \A i \in 1..Len(dims) - 1 : i + 1 \in 1..Len(dims) /\ i + 1 > 1
        BY <1>1
      <3>4. ASSUME NEW i \in DOMAIN dims, i > 1, dims[i] <= 0 PROVE ~Positive(inner)
        <4>1. i \in 2..Len(dims)
          BY <1>2, <3>4
        <4>2. inner[i - 1] = dims[i] /\ i - 1 \in DOMAIN inner
          BY <3>1, <3>2, <4>1
        <4> QED
          BY <1>2, <3>4, <4>2 DEF Positive
      <3>5. ASSUME ~Positive(inner) PROVE \E i \in DOMAIN dims : i > 1 /\ dims[i] <= 0
        <4>1. PICK i \in DOMAIN inner : ~(inner[i] > 0)
          BY <3>5 DEF Positive
        <4>2. i + 1 \in DOMAIN dims /\ i + 1 > 1 /\ dims[i + 1] = inner[i]
          BY <1>2, <3>1, <3>3, <4>1
        <4> QED
          BY <1>2, <4>1, <4>2
      <3> QED
        BY <3>4, <3>5
    <2> QED
      BY <2>1, <2>2
  <1>5. Positive(inner) => Product(t) = batch * Product(inner)
    <2>1. CASE dims = <<>>
      <3>1. t = <<>>
        BY <1>1, <2>1
      <3> QED
        BY <2>1, <3>1, ProductOfNone
    <2>2. CASE dims # <<>>
      <3> SUFFICES ASSUME Positive(inner) PROVE Product(t) = batch * Product(inner)
        OBVIOUS
      <3>1. /\ Len(dims) >= 1 /\ Len(inner) = Len(dims) - 1 /\ DOMAIN inner = 1..Len(inner)
            /\ \A i \in 1..Len(inner) : inner[i] = dims[i + 1]
        BY <2>2
      <3> HIDE DEF t, inner, batch
      <3>2. Len(t) = Len(inner) + 1
        BY <1>1, <3>1
      <3>3. ASSUME NEW i \in 1..Len(inner) PROVE t[i + 1] = inner[i]
        <4>1. i + 1 \in 1..Len(dims)
          BY <1>1, <3>1
        <4>2. inner[i] = dims[i + 1]
          BY <3>1
        <4>3. inner[i] > 0
          BY <3>1 DEF Positive
        <4> QED
          BY <1>1, <4>1, <4>2, <4>3
      <3>4. t[1] = batch
        BY <1>1, <1>2, <2>2, <3>1 DEF batch
      <3>5. Product(t) = t[1] * Product(inner)
        BY <1>1, <1>2, <3>2, <3>3, ProductOfTail
      <3> QED
        BY <3>4, <3>5
    <2> QED
      BY <2>1, <2>2
  <1>6. FlatSize(dims) = IF ~Positive(inner) THEN NoSize ELSE CheckedProduct(t)
    BY <1>4 DEF FlatSize
  <1> HIDE DEF t, inner, batch
  <1>7. FlatSize(dims) = IF Positive(inner) /\ batch * Product(inner) <= Int32Max
                        THEN batch * Product(inner) ELSE NoSize
    BY <1>3, <1>5, <1>6
  <1> QED
    BY <1>7 DEF FlatSizeExact, inner, batch

(* The shape made up conforms, wherever the flat size is known.             *)
LEMMA MadeUpFits ==
  ASSUME dims \in Seq(Int)
  PROVE  PredictShapeAccepted
  <1> SUFFICES ASSUME FlatSize(dims) # NoSize
               PROVE  /\ ShapeFits(dims, ConcreteShape(dims))
                      /\ CheckedProduct(ConcreteShape(dims)) = FlatSize(dims)
    BY DEF PredictShapeAccepted
  <1>1. FlatSize(dims) = CheckedProduct(ConcreteShape(dims))
    BY DEF FlatSize
  <1>2. /\ ConcreteShape(dims) \in Seq(Int) /\ Len(ConcreteShape(dims)) = Len(dims)
        /\ Positive(ConcreteShape(dims)) /\ DOMAIN ConcreteShape(dims) = 1..Len(dims)
        /\ \A i \in 1..Len(dims) :
             ConcreteShape(dims)[i] = IF dims[i] > 0 THEN dims[i] ELSE 1
    BY ConcreteTyped
  <1> QED
    BY <1>1, <1>2 DEF ShapeFits, Positive
----------------------------------------------------------------------------
(* What is read of an output *)

(* For positive dimensions the two guarded loops take the same decisions.   *)
LEMMA OutputCountOfPositive ==
  ASSUME NEW s \in Seq(Int), Positive(s)
  PROVE  OutputCount(s) = CheckedProduct(s)
  <1> DEFINE C(p) == [i \in 0..Len(s) |->
                       IF i = 0 THEN 1
                       ELSE IF \/ p[i - 1] = NoSize
                               \/ s[i] <= 0
                               \/ p[i - 1] > Int32Max \div s[i]
                            THEN NoSize
                            ELSE p[i - 1] * s[i]]
             O(p) == [i \in 0..Len(s) |->
                       IF i = 0 THEN 1
                       ELSE IF \/ p[i - 1] = NoSize
                               \/ s[i] < 0
                               \/ s[i] # 0 /\ p[i - 1] > Int32Max \div s[i]
                            THEN NoSize
                            ELSE p[i - 1] * s[i]]
  <1>1. \A i \in 0..Len(s) : i # 0 => s[i] \in Int /\ s[i] > 0
    <2>1. DOMAIN s = 1..Len(s) /\ Len(s) \in Nat
      OBVIOUS
    <2>2. \A i \in 0..Len(s) : i # 0 => i \in 1..Len(s)
      BY <2>1
    <2> QED
      BY <2>1, <2>2 DEF Positive
  <1>2. \A i \in 0..Len(s) : i # 0 => ~(s[i] <= 0) /\ ~(s[i] < 0) /\ s[i] # 0
    BY <1>1
  <1>3. \A p : C(p) = O(p)
    BY <1>2
  <1>4. (CHOOSE p : p = C(p)) = (CHOOSE p : p = O(p))
    <2> HIDE DEF C, O
    <2> QED
      BY <1>3
  <1> QED
    BY <1>4 DEF OutputCount, CheckedProduct

LEMMA ProductNotNegative ==
  ASSUME NEW s \in Seq(Int), NotNegative(s)
  PROVE  /\ Product(s) \in Nat
         /\ Product(s) # 0 => Positive(s)
  <1>1. PICK p : Partial(p, s) /\ Product(s) = p[Len(s)]
    BY ProductUnfolds
  <1>2. Len(s) \in Nat /\ DOMAIN s = 1..Len(s) /\ \A i \in 1..Len(s) : s[i] \in Int /\ s[i] >= 0
    BY DEF NotNegative
  <1> DEFINE Claim(m) == /\ p[m] \in Nat
                         /\ p[m] # 0 => \A i \in 1..m : s[i] > 0
             S == {m \in Nat : m <= Len(s) => Claim(m)}
  <1>3. 0 \in S
    BY <1>1 DEF Partial
  <1>4. ASSUME NEW m \in Nat, m \in S PROVE m + 1 \in S
    <2> SUFFICES ASSUME m + 1 <= Len(s) PROVE Claim(m + 1)
      OBVIOUS
    <2>1. m + 1 \in 1..Len(s) /\ (m + 1) - 1 = m /\ Claim(m)
      BY <1>2, <1>4
    <2>2. p[m + 1] = p[m] * s[m + 1] /\ s[m + 1] \in Nat
      BY <1>1, <1>2, <2>1 DEF Partial
    <2>3. p[m + 1] \in Nat
      BY <2>1, <2>2
    <2>4. p[m + 1] # 0 => p[m] # 0 /\ s[m + 1] # 0
      BY <2>1, <2>2
    <2>5. \A i \in 1..m + 1 : i \in 1..m \/ i = m + 1
      OBVIOUS
    <2> QED
      BY <2>1, <2>2, <2>3, <2>4, <2>5
  <1>5. Len(s) \in S
    <2> HIDE DEF S
    <2> QED
      BY <1>2, <1>3, <1>4, NatSetInduction
  <1> QED
    BY <1>1, <1>2, <1>5 DEF Positive

(* A tensor with elements is handed out whole or not at all, by the room    *)
(* its shape makes.                                                        *)
LEMMA OutputLengthIs ==
  ASSUME NEW s \in Seq(Int), NotNegative(s)
  PROVE  OutputLength(s, Product(s)) =
           IF Product(s) <= Int32Max /\ (Len(s) <= MaxRank \/ Product(s) = 1)
           THEN Product(s) ELSE 0
  <1>1. Product(s) \in Nat /\ Int32Max \in Nat \ {0} /\ NoSize = -1
    BY ProductNotNegative, ShapeAssumption DEF NoSize
  <1>2. CASE Product(s) = 0
    BY <1>2 DEF OutputLength
  <1>3. CASE Product(s) # 0 /\ Len(s) <= MaxRank
    <2>1. OutputShape(s) = s /\ Positive(s)
      BY <1>3, ProductNotNegative DEF OutputShape
    <2>2. OutputCount(s) = IF Product(s) <= Int32Max THEN Product(s) ELSE NoSize
      BY <2>1, OutputCountOfPositive, CheckedProductIs
    <2> QED
      BY <1>1, <1>3, <2>1, <2>2 DEF OutputLength
  <1>4. CASE Product(s) # 0 /\ ~(Len(s) <= MaxRank)
    <2>1. OutputShape(s) = <<>>
      BY <1>4 DEF OutputShape
    <2>2. Positive(<<>>) /\ <<>> \in Seq(Int)
      BY DEF Positive
    <2>3. OutputCount(<<>>) = 1
      <3>1. OutputCount(<<>>) = CheckedProduct(<<>>)
        BY <2>2, OutputCountOfPositive
      <3>2. CheckedProduct(<<>>) = IF Product(<<>>) <= Int32Max THEN Product(<<>>) ELSE NoSize
        BY <2>2, CheckedProductIs
      <3> QED
        BY <1>1, <3>1, <3>2, ProductOfNone
    <2> QED
      BY <1>1, <1>4, <2>1, <2>3 DEF OutputLength
  <1> QED
    BY <1>2, <1>3, <1>4

(* A subtraction of sizes that does not go below zero does not wrap.        *)
LEMMA NoWrap ==
  ASSUME NEW a \in Nat, NEW b \in Nat, b <= a, NEW m \in Nat, a < m
  PROVE  (a - b) % m = a - b
  <1> DEFINE d == a - b
             q == d \div m
             r == d % m
  <1>1. d \in Nat /\ d < m /\ m \in Nat \ {0}
    OBVIOUS
  <1>2. q \in Nat /\ r \in 0..m - 1 /\ d = m * q + r
    BY <1>1
  <1>3. q \in Nat \ {0} => m * q >= m
    BY ProductGrows
  <1> HIDE DEF d, q
  <1>4. q = 0
    <2> HIDE DEF r
    <2>1. q \in Nat \ {0} => m * q \in Nat
      BY <1>1
    <2> QED
      BY <1>1, <1>2, <1>3, <2>1
  <1>5. r = d
    <2> HIDE DEF r
    <2> QED
      BY <1>1, <1>2, <1>4
  <1> QED
    BY <1>5 DEF d

LEMMA ReadersAre ==
  ASSUME shape \in Seq(Int)
  PROVE  ReadersAgree
  <1> DEFINE total == Product(shape)
             slice == SliceLength(0, total, total)
             whole == OutputLength(shape, total)
  <1> SUFFICES ASSUME Produced(shape)
               PROVE  /\ slice = IF total <= Int32Max THEN total ELSE 0
                      /\ whole = IF Len(shape) <= MaxRank \/ total = 1 THEN slice ELSE 0
                      /\ OutputShape(shape) # <<>> /\ total <= Int32Max =>
                           whole = Product(OutputShape(shape))
                      /\ \A index \in -1..Int32Max + 1 :
                           SliceLength(index, 1, total) = 1
                             <=> index \in 0..total - 1 /\ index <= Int32Max
    BY DEF ReadersAgree
  <1>1. /\ total \in Nat /\ total < SizeMod /\ NotNegative(shape)
        /\ Int32Max \in Nat \ {0} /\ SizeMod \in Nat /\ SizeMod > Int32Max
    BY ProductNotNegative, ShapeAssumption DEF Produced
  <1>2. whole = IF total <= Int32Max /\ (Len(shape) <= MaxRank \/ total = 1) THEN total ELSE 0
    BY <1>1, OutputLengthIs
  <1> HIDE DEF total, whole
  <1>3. ASSUME NEW n \in Nat, n <= total PROVE (total - n) % SizeMod = total - n
    BY <1>1, <1>3, NoWrap
  <1>4. slice = IF total <= Int32Max THEN total ELSE 0
    <2>1. 0 \in Nat /\ 0 <= total
      BY <1>1
    <2>2. (total - 0) % SizeMod = total - 0
      BY <1>3, <2>1
    <2> QED
      BY <1>1, <2>2 DEF SliceLength, SliceFits
  <1> HIDE DEF slice
  <1>5. whole = IF Len(shape) <= MaxRank \/ total = 1 THEN slice ELSE 0
    BY <1>2, <1>4
  <1>6. ASSUME OutputShape(shape) # <<>>, total <= Int32Max
        PROVE  whole = Product(OutputShape(shape))
    BY <1>2, <1>6 DEF OutputShape, total
  <1>7. ASSUME NEW index \in -1..Int32Max + 1
        PROVE  SliceLength(index, 1, total) = 1 <=> index \in 0..total - 1 /\ index <= Int32Max
    <2>1. CASE index \in 0..Int32Max /\ index <= total
      <3>1. (total - index) % SizeMod = total - index
        BY <1>3, <2>1
      <3> QED
        BY <1>1, <2>1, <3>1 DEF SliceLength, SliceFits
    <2>2. CASE ~(index \in 0..Int32Max /\ index <= total)
      BY <1>1, <2>2 DEF SliceLength, SliceFits
    <2> QED
      BY <2>1, <2>2
  <1> QED
    BY <1>4, <1>5, <1>6, <1>7 DEF total, slice, whole

LEMMA SlicesAre ==
  ASSUME shape \in Seq(Int)
  PROVE  SliceInsideTensor
  <1> DEFINE total == CheckedProduct(shape)
  <1> SUFFICES ASSUME total # NoSize, NEW offset \in 0..Int32Max, NEW count \in 0..Int32Max
               PROVE  SliceFits(offset, count, total) <=> offset + count <= total
    BY DEF SliceInsideTensor
  <1>1. total \in Nat /\ total <= Int32Max
    BY CheckedProductIs
  <1>2. Int32Max \in Nat /\ SizeMod \in Nat /\ SizeMod > Int32Max
    BY ShapeAssumption
  <1> HIDE DEF total
  <1>3. CASE offset <= total
    <2>1. (total - offset) % SizeMod = total - offset
      BY <1>1, <1>2, <1>3, NoWrap
    <2> QED
      BY <1>1, <1>3, <2>1 DEF SliceFits
  <1>4. CASE ~(offset <= total)
    BY <1>1, <1>4 DEF SliceFits
  <1> QED
    BY <1>3, <1>4

----------------------------------------------------------------------------
(* The theorems *)

(* Shapes are sequences of integers, however they grow.                     *)
TypeInv == dims \in Seq(Int) /\ shape \in Seq(Int)

THEOREM TypeCorrect == Spec => []TypeInv
  <1>1. Init => TypeInv
    BY DEF Init, TypeInv
  <1>2. TypeInv /\ [Next]_vars => TypeInv'
    <2> SUFFICES ASSUME TypeInv, [Next]_vars PROVE TypeInv'
      OBVIOUS
    <2>1. CASE Grow
      <3>1. PICK d \in Int, s \in Int : dims' = Append(dims, d) /\ shape' = Append(shape, s)
        BY <2>1, DimAssumption DEF Grow
      <3> QED
        BY <3>1 DEF TypeInv
    <2>2. CASE Exceed
      <3>1. PICK s \in Int : UNCHANGED dims /\ shape' = Append(shape, s)
        BY <2>2, DimAssumption DEF Exceed
      <3> QED
        BY <3>1 DEF TypeInv
    <2>3. CASE Restart
      BY <2>3 DEF Restart, TypeInv
    <2>4. CASE UNCHANGED vars
      BY <2>4 DEF vars, TypeInv
    <2> QED
      BY <2>1, <2>2, <2>3, <2>4 DEF Next
  <1> QED
    BY <1>1, <1>2, PTL DEF Spec

(* The division guard neither lets a product past the limit through nor     *)
(* refuses one that fits, whatever the limit and however long the shape.   *)
THEOREM CheckedProductAlwaysExact == Spec => []CheckedProductExact
  <1>1. TypeInv => CheckedProductExact
    BY CheckedProductIs DEF TypeInv, CheckedProductExact
  <1> QED
    BY TypeCorrect, <1>1, PTL

(* The flat size is that of one batch, and is known exactly when only the   *)
(* batch dimension is dynamic and one batch fits.                          *)
THEOREM FlatSizeAlwaysExact == Spec => []FlatSizeExact
  <1>1. TypeInv => FlatSizeExact
    BY FlatSizeIs DEF TypeInv
  <1> QED
    BY TypeCorrect, <1>1, PTL

(* predict() never makes up a shape that set_input would refuse.            *)
THEOREM PredictShapeAlwaysAccepted == Spec => []PredictShapeAccepted
  <1>1. TypeInv => PredictShapeAccepted
    BY MadeUpFits DEF TypeInv
  <1> QED
    BY TypeCorrect, <1>1, PTL

(* get_output hands out a tensor whole or not at all, zero dimensions and   *)
(* ranks beyond the buffer included.                                       *)
THEOREM OutputAlwaysHandedOutWhole == Spec => []OutputHandedOutWhole
  <1>1. TypeInv => OutputHandedOutWhole
    BY OutputLengthIs DEF TypeInv, OutputHandedOutWhole
  <1> QED
    BY TypeCorrect, <1>1, PTL

(* The readers agree on every tensor whose elements a size_t counts, except *)
(* that get_output has no room for some ranks the others read.              *)
THEOREM ReadersAlwaysAgree == Spec => []ReadersAgree
  <1>1. TypeInv => ReadersAgree
    BY ReadersAre DEF TypeInv
  <1> QED
    BY TypeCorrect, <1>1, PTL

(* No slice reaches past the tensor, and none inside it is refused.         *)
THEOREM SlicesAlwaysInside == Spec => []SliceInsideTensor
  <1>1. TypeInv => SliceInsideTensor
    BY SlicesAre DEF TypeInv
  <1> QED
    BY TypeCorrect, <1>1, PTL
=============================================================================
