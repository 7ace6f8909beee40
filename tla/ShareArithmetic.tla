--------------------------- MODULE ShareArithmetic ---------------------------
(***************************************************************************)
(* Facts about naturals, products, quotients rounded down and sums over    *)
(* the buyers, as both versions of the program use them to divide a supply *)
(* in proportion to deposits.                                              *)
(***************************************************************************)
EXTENDS Integers, FiniteSetTheorems, TLAPS

LEMMA DivNat ==
  ASSUME NEW a \in Nat, NEW d \in Nat \ {0}
  PROVE  a \div d \in 0 .. a
OBVIOUS

LEMMA ModNat ==
  ASSUME NEW a \in Nat, NEW d \in Nat \ {0}
  PROVE  a % d \in 0 .. d - 1
OBVIOUS

LEMMA MulNat ==
  ASSUME NEW a \in Nat, NEW c \in Nat
  PROVE  /\ a * c \in Nat
         /\ a > 0 /\ c > 0 => a * c > 0
OBVIOUS

LEMMA DivBounds ==
  ASSUME NEW n \in Nat, NEW p \in Nat \ {0}
  PROVE  /\ n \div p \in Nat
         /\ (n \div p) * p <= n
         /\ n < (n \div p + 1) * p
OBVIOUS

LEMMA MulMono ==
  ASSUME NEW a \in Nat, NEW b \in Nat, NEW c \in Nat
  PROVE  /\ a <= b => a * c <= b * c
         /\ a < b /\ c > 0 => a * c < b * c
OBVIOUS

\* A share of s in the proportion a : p, with a at most p, is at most s.
LEMMA ShareBound ==
  ASSUME NEW a \in Nat, NEW s \in Nat, NEW p \in Nat \ {0}, a <= p
  PROVE  /\ (a * s) \div p \in Nat
         /\ (a * s) \div p <= s
<1> DEFINE n == a * s
           q == n \div p
<1>1. n \in Nat /\ n <= p * s
  BY MulNat, MulMono
<1>2. q \in Nat /\ q * p <= n
  <2> HIDE DEF n
  <2> QED  BY <1>1, DivBounds
<1>3. q <= s
  <2> SUFFICES ASSUME q > s PROVE FALSE
    BY <1>2
  <2> HIDE DEF q, n
  <2>1. s * p < q * p
    BY <1>2, MulMono
  <2>2. s * p = p * s
    OBVIOUS
  <2> QED
    BY <1>1, <1>2, <2>1, <2>2, MulNat
<1> QED
  BY <1>2, <1>3

\* Two shares of s in the proportions a : p and b : p, rounded down, are to
\* each other as a to b, to within one.
LEMMA SharesProportional ==
  ASSUME NEW a \in Nat, NEW b \in Nat, NEW s \in Nat, NEW p \in Nat \ {0}
  PROVE  ((a * s) \div p) * b <= ((b * s) \div p + 1) * a
<1> DEFINE q == (a * s) \div p
           r == (b * s) \div p
<1>1. a * s \in Nat /\ b * s \in Nat
  BY MulNat
<1>2. q \in Nat /\ r \in Nat /\ q * p <= a * s /\ b * s < (r + 1) * p
  BY <1>1, DivBounds
<1> HIDE DEF q, r
<1>3. (q * p) * b <= (a * s) * b
  BY <1>1, <1>2, MulNat, MulMono
<1>4. (b * s) * a <= ((r + 1) * p) * a
  BY <1>1, <1>2, MulNat, MulMono
<1>5. (a * s) * b = (b * s) * a
  OBVIOUS
<1>6. (q * p) * b = (q * b) * p /\ ((r + 1) * p) * a = ((r + 1) * a) * p
  BY <1>2
<1> DEFINE x == q * b
           y == (r + 1) * a
<1>7. x \in Nat /\ y \in Nat
  BY <1>2, MulNat
<1>8. x * p <= y * p
  <2>1. (q * p) * b \in Nat /\ (a * s) * b \in Nat /\ ((r + 1) * p) * a \in Nat
    BY <1>1, <1>2, MulNat
  <2> QED
    BY <2>1, <1>3, <1>4, <1>5, <1>6
<1>9. x <= y
  <2> HIDE DEF x, y
  <2> QED  BY <1>7, <1>8, MulMono
<1> QED
  BY <1>9 DEF x, y, q, r

\* Two quotients rounded down add up to the quotient of the sum, or to one
\* less.
LEMMA DivSum ==
  ASSUME NEW a \in Nat, NEW c \in Nat, NEW d \in Nat \ {0}
  PROVE  /\ a \div d + c \div d <= (a + c) \div d
         /\ (a + c) \div d <= a \div d + c \div d + 1
<1> DEFINE q == a \div d
           r == c \div d
           z == (a + c) \div d
<1>1. /\ q \in Nat /\ q * d <= a /\ a < (q + 1) * d
      /\ r \in Nat /\ r * d <= c /\ c < (r + 1) * d
      /\ z \in Nat /\ z * d <= a + c /\ a + c < (z + 1) * d
  BY DivBounds
<1> HIDE DEF q, r, z
<1>2. \A i \in Nat, j \in Nat : i * d < j * d => i < j
  <2> SUFFICES ASSUME NEW i \in Nat, NEW j \in Nat, i * d < j * d, j <= i PROVE FALSE
    OBVIOUS
  <2>1. j * d <= i * d /\ j * d \in Nat /\ i * d \in Nat
    BY MulNat, MulMono
  <2> QED  BY <2>1
<1>3. q + r <= z
  <2>1. (q + r) * d = q * d + r * d /\ q * d \in Nat /\ r * d \in Nat /\ (z + 1) * d \in Nat
    BY <1>1, MulNat
  <2>2. (q + r) * d < (z + 1) * d
    BY <1>1, <2>1
  <2> QED  BY <1>1, <1>2, <2>2
<1>4. z <= q + r + 1
  <2>1. /\ (q + r + 2) * d = (q + 1) * d + (r + 1) * d
        /\ (q + 1) * d \in Nat /\ (r + 1) * d \in Nat /\ z * d \in Nat
    BY <1>1, MulNat
  <2>2. z * d < (q + r + 2) * d
    BY <1>1, <2>1
  <2> QED  BY <1>1, <1>2, <2>2
<1> QED
  BY <1>3, <1>4 DEF q, r, z

\* An exact quotient is added to another without loss.
LEMMA DivSumExact ==
  ASSUME NEW a \in Nat, NEW j \in Nat, NEW d \in Nat \ {0}
  PROVE  (a + j * d) \div d = a \div d + j
<1> DEFINE q == a \div d
           z == (a + j * d) \div d
<1>1. j * d \in Nat
  BY MulNat
<1>2. /\ q \in Nat /\ q * d <= a /\ a < (q + 1) * d
      /\ z \in Nat /\ z * d <= a + j * d /\ a + j * d < (z + 1) * d
  BY <1>1, DivBounds
<1> HIDE DEF q, z
<1>3. \A m \in Nat, n \in Nat : m * d < n * d => m < n
  <2> SUFFICES ASSUME NEW m \in Nat, NEW n \in Nat, m * d < n * d, n <= m PROVE FALSE
    OBVIOUS
  <2>1. n * d <= m * d /\ n * d \in Nat /\ m * d \in Nat
    BY MulNat, MulMono
  <2> QED  BY <2>1
<1>4. /\ (q + j) * d = q * d + j * d
      /\ (q + j + 1) * d = (q + 1) * d + j * d
      /\ q * d \in Nat /\ (q + 1) * d \in Nat /\ z * d \in Nat /\ (z + 1) * d \in Nat
  BY <1>2, MulNat
<1>5. q + j < z + 1
  <2>1. (q + j) * d < (z + 1) * d
    BY <1>1, <1>2, <1>4
  <2> QED  BY <1>2, <1>3, <2>1
<1>6. z < q + j + 1
  <2>1. z * d < (q + j + 1) * d
    BY <1>1, <1>2, <1>4
  <2> QED  BY <1>2, <1>3, <2>1
<1> QED
  BY <1>2, <1>5, <1>6 DEF q, z

-----------------------------------------------------------------------------
(* Sums.  SumFunction(f) adds up the values of f with a fold: a recursive   *)
(* function over the subsets of its domain, whose existence is proved       *)
(* first.  What is said of all sets is proved by taking a smallest set it   *)
(* would fail for.                                                          *)

\* A set of naturals that is not empty has a least element.
LEMMA LeastNat ==
  ASSUME NEW T, T \subseteq Nat, T # {}
  PROVE  \E n \in T : \A m \in T : n <= m
<1>1. PICK n \in T : \A m \in T : ~ (<<m, n>> \in OpToRel(<, Nat))
  <2> HIDE DEF OpToRel
  <2>1. IsWellFoundedOn(OpToRel(<, Nat), Nat)
    BY NatLessThanWellFounded
  <2> QED  BY <2>1, WFMin
<1>2. ASSUME NEW m \in T, m < n PROVE FALSE
  BY <1>1, <1>2 DEF OpToRel
<1> QED
  BY <1>2

\* The element a fold takes out of a set first.
Pick(s) == CHOOSE x \in s : TRUE

\* g sums f over each of the sets in D, taking out one element after the other.
SumsOn(g, f, D) ==
  \A s \in D : g[s] = IF s = {} THEN 0 ELSE f[Pick(s)] + g[s \ {Pick(s)}]

LEMMA PickIn == \A s : s # {} => Pick(s) \in s
BY DEF Pick

\* What a fold over the subsets of a finite set is defined to be exists: by
\* induction on the size of the subsets, each step extends the function.
LEMMA SumsExist ==
  ASSUME NEW S, IsFiniteSet(S), NEW f \in [S -> Nat]
  PROVE  \E g \in [SUBSET S -> Nat] : SumsOn(g, f, SUBSET S)
<1> DEFINE UpTo(n) == {s \in SUBSET S : Cardinality(s) <= n}
           Exists(n) == \E g \in [UpTo(n) -> Nat] : SumsOn(g, f, UpTo(n))
<1>1. \A s \in SUBSET S : IsFiniteSet(s) /\ Cardinality(s) \in Nat
  BY FS_Subset, FS_CardinalityType
<1>2. \A s \in SUBSET S : s # {} =>
        /\ Pick(s) \in S
        /\ s \ {Pick(s)} \in SUBSET S
        /\ Cardinality(s \ {Pick(s)}) = Cardinality(s) - 1
  <2> SUFFICES ASSUME NEW s \in SUBSET S, s # {}
               PROVE  /\ Pick(s) \in s
                      /\ Cardinality(s \ {Pick(s)}) = Cardinality(s) - 1
    OBVIOUS
  <2>1. Pick(s) \in s
    BY PickIn
  <2> QED  BY <1>1, <2>1, FS_RemoveElement
<1>3. ASSUME NEW n \in Nat, ~ Exists(n) PROVE FALSE
  <2> DEFINE Missing == {m \in Nat : ~ Exists(m)}
  <2>1. PICK k \in Missing : \A m \in Missing : k <= m
    <3> HIDE DEF Exists
    <3> QED  BY <1>3, LeastNat
  <2>2. CASE k = 0
    <3>1. \A s \in UpTo(0) : s = {}
      BY <1>1, FS_EmptySet
    <3> DEFINE g == [s \in UpTo(0) |-> 0]
    <3>2. SumsOn(g, f, UpTo(0)) /\ g \in [UpTo(0) -> Nat]
      BY <3>1 DEF SumsOn
    <3> QED  BY <2>1, <2>2, <3>2
  <2>3. CASE k > 0
    <3>1. k - 1 \in Nat /\ Exists(k - 1)
      <4> HIDE DEF Exists
      <4> QED  BY <2>1, <2>3
    <3>2. PICK h \in [UpTo(k - 1) -> Nat] : SumsOn(h, f, UpTo(k - 1))
      BY <3>1
    <3> DEFINE Less(s) == s \ {Pick(s)}
               g == [s \in UpTo(k) |-> IF s = {} THEN 0 ELSE f[Pick(s)] + h[Less(s)]]
    <3>3. \A s \in UpTo(k) : s # {} =>
            Pick(s) \in S /\ Less(s) \in UpTo(k - 1) /\ Less(s) \in UpTo(k)
      BY <1>1, <1>2, <2>1
    <3>4. \A s \in UpTo(k - 1) : s \in UpTo(k) /\ (s # {} => Less(s) \in UpTo(k - 1))
      BY <1>1, <1>2, <2>1
    <3> HIDE DEF UpTo, Less
    <3>5. g \in [UpTo(k) -> Nat]
      BY <3>3
    <3>6. \A s \in UpTo(k - 1) : g[s] = h[s]
      BY <3>2, <3>4 DEF SumsOn, Less
    <3>7. SumsOn(g, f, UpTo(k))
      BY <3>3, <3>6 DEF SumsOn, Less
    <3> QED  BY <2>1, <3>5, <3>7
  <2> QED  BY <2>1, <2>2, <2>3
<1>4. UpTo(Cardinality(S)) = SUBSET S /\ Cardinality(S) \in Nat
  BY <1>1, FS_Subset
<1> QED
  BY <1>3, <1>4

\* Induction over the subsets of a finite set: among any of them there is one
\* with no proper subset among them.
LEMMA MinimalSet ==
  ASSUME NEW S, IsFiniteSet(S), NEW D \in SUBSET SUBSET S, D # {}
  PROVE  \E s \in D : \A u \in SUBSET s : u # s => u \notin D
<1> DEFINE Sizes == {Cardinality(u) : u \in D}
<1>1. \A u \in SUBSET S : IsFiniteSet(u) /\ Cardinality(u) \in Nat
  BY FS_Subset, FS_CardinalityType
<1>2. PICK s \in D : \A u \in D : Cardinality(s) <= Cardinality(u)
  <2>1. Sizes \subseteq Nat /\ Sizes # {}
    BY <1>1
  <2>2. PICK n \in Sizes : \A m \in Sizes : n <= m
    BY <2>1, LeastNat
  <2> QED  BY <2>2
<1>3. ASSUME NEW u \in SUBSET s, u # s, u \in D PROVE FALSE
  <2>1. IsFiniteSet(s) /\ s \in SUBSET S
    BY <1>1
  <2>2. Cardinality(u) <= Cardinality(s) /\ Cardinality(u) # Cardinality(s)
    BY <1>3, <2>1, FS_Subset
  <2> QED  BY <1>1, <1>2, <1>3, <2>1, <2>2
<1> QED
  BY <1>2, <1>3

\* g gives the sum of f over each subset of S, whichever element is counted
\* last.
Sums(g, f, S) ==
  /\ g[{}] = 0
  /\ \A s \in SUBSET S : \A x \in s : g[s] = f[x] + g[s \ {x}]

LEMMA SumByElements ==
  ASSUME NEW S, IsFiniteSet(S), NEW f \in [S -> Nat]
  PROVE  \E g \in [SUBSET S -> Nat] : SumFunction(f) = g[S] /\ Sums(g, f, S)
<1> DEFINE Folded(h) ==
             h = [s \in SUBSET S |->
                    IF s = {} THEN 0
                    ELSE f[CHOOSE x \in s : TRUE] + h[s \ {CHOOSE x \in s : TRUE}]]
           g == CHOOSE h : Folded(h)
<1>1. SumFunction(f) = g[S]
  BY DEF SumFunction, SumFunctionOnSet, FoldFunctionOnSet, MapThenFoldSet
<1>2. Folded(g)
  <2>1. PICK h \in [SUBSET S -> Nat] : SumsOn(h, f, SUBSET S)
    BY SumsExist
  <2>2. Folded(h)
    BY <2>1 DEF SumsOn, Pick
  <2> HIDE DEF Folded
  <2> QED  BY <2>2
<1> HIDE DEF g
<1>3. g[{}] = 0 /\ \A s \in SUBSET S : s # {} => g[s] = f[Pick(s)] + g[s \ {Pick(s)}]
  BY <1>2 DEF Pick
<1> DEFINE AnyOrder(s) == g[s] \in Nat /\ \A x \in s : g[s] = f[x] + g[s \ {x}]
<1>4. ASSUME NEW t \in SUBSET S, ~ AnyOrder(t) PROVE FALSE
  <2>1. PICK s \in SUBSET S : ~ AnyOrder(s) /\ \A u \in SUBSET s : u # s => AnyOrder(u)
    <3> DEFINE D == {u \in SUBSET S : ~ AnyOrder(u)}
    <3> HIDE DEF AnyOrder
    <3>1. D \in SUBSET SUBSET S /\ D # {}
      BY <1>4
    <3>2. PICK s \in D : \A u \in SUBSET s : u # s => u \notin D
      <4> HIDE DEF D
      <4> QED  BY <3>1, MinimalSet
    <3>3. \A u \in SUBSET s : u \in SUBSET S
      OBVIOUS
    <3> QED  BY <3>2, <3>3
  <2>2. \A x, y \in s : AnyOrder(s \ {x}) /\ AnyOrder((s \ {x}) \ {y})
    <3> HIDE DEF AnyOrder
    <3> QED  BY <2>1
  <2>3. s # {}
    <3>1. AnyOrder({})
      BY <1>3
    <3> HIDE DEF AnyOrder
    <3> QED  BY <2>1, <3>1
  <2> DEFINE c == Pick(s)
  <2>4. c \in s /\ g[s] = f[c] + g[s \ {c}]
    BY <1>3, <2>3, PickIn
  <2> HIDE DEF c
  <2>5. g[s] \in Nat
    BY <2>2, <2>4
  <2>6. ASSUME NEW x \in s PROVE g[s] = f[x] + g[s \ {x}]
    <3>1. CASE x = c
      BY <2>4, <3>1
    <3>2. CASE x # c
      <4> DEFINE rest == g[(s \ {x}) \ {c}]
      <4>1. (s \ {c}) \ {x} = (s \ {x}) \ {c}
        OBVIOUS
      <4>2. g[s \ {c}] = f[x] + rest
        BY <2>2, <2>4, <3>2, <4>1
      <4>3. g[s \ {x}] = f[c] + rest
        BY <2>2, <2>4, <3>2
      <4>4. f[c] \in Nat /\ f[x] \in Nat /\ rest \in Nat
        BY <2>2, <2>4
      <4>5. f[c] + (f[x] + rest) = f[x] + (f[c] + rest)
        BY <4>4
      <4> HIDE DEF rest
      <4> QED  BY <2>4, <4>2, <4>3, <4>5
    <3> QED  BY <3>1, <3>2
  <2> QED  BY <2>1, <2>5, <2>6
<1>5. g \in [SUBSET S -> Nat]
  BY <1>2, <1>4
<1> QED
  BY <1>1, <1>3, <1>4, <1>5 DEF Sums

\* One value changed, the sum changes by as much.
LEMMA SumUpdate ==
  ASSUME NEW S, IsFiniteSet(S), NEW f \in [S -> Nat], NEW h \in [S -> Nat],
         NEW x \in S, \A y \in S \ {x} : h[y] = f[y]
  PROVE  /\ SumFunction(f) \in Nat
         /\ SumFunction(h) \in Nat
         /\ f[x] <= SumFunction(f)
         /\ SumFunction(h) + f[x] = SumFunction(f) + h[x]
<1>1. PICK g \in [SUBSET S -> Nat] : SumFunction(f) = g[S] /\ Sums(g, f, S)
  BY SumByElements
<1>2. PICK k \in [SUBSET S -> Nat] : SumFunction(h) = k[S] /\ Sums(k, h, S)
  BY SumByElements
<1>3. ASSUME NEW t \in SUBSET (S \ {x}), g[t] # k[t] PROVE FALSE
  <2> DEFINE Differ == {u \in SUBSET S : x \notin u /\ g[u] # k[u]}
  <2>1. PICK s \in Differ : \A u \in SUBSET s : u # s => u \notin Differ
    <3>1. Differ \in SUBSET SUBSET S /\ Differ # {}
      BY <1>3
    <3> HIDE DEF Differ
    <3> QED  BY <3>1, MinimalSet
  <2>2. PICK y \in s : TRUE
    BY <1>1, <1>2, <2>1 DEF Sums
  <2>3. g[s \ {y}] = k[s \ {y}]
    BY <2>1, <2>2
  <2>4. g[s] = f[y] + g[s \ {y}] /\ k[s] = h[y] + k[s \ {y}] /\ h[y] = f[y]
    BY <1>1, <1>2, <2>1, <2>2 DEF Sums
  <2> QED  BY <2>1, <2>3, <2>4
<1>4. g[S \ {x}] = k[S \ {x}] /\ g[S \ {x}] \in Nat
  BY <1>3
<1>5. g[S] = f[x] + g[S \ {x}] /\ k[S] = h[x] + k[S \ {x}]
  BY <1>1, <1>2 DEF Sums
<1> DEFINE rest == g[S \ {x}]
<1>6. rest \in Nat /\ SumFunction(f) = f[x] + rest /\ SumFunction(h) = h[x] + rest
  BY <1>1, <1>2, <1>4, <1>5
<1> HIDE DEF rest
<1> QED
  BY <1>6

\* Values in a proportion, or below it, sum up in it, or below it.
LEMMA SumProportion ==
  ASSUME NEW S, IsFiniteSet(S), NEW f \in [S -> Nat], NEW h \in [S -> Nat],
         NEW p \in Nat, NEW q \in Nat, \A x \in S : p * f[x] <= q * h[x]
  PROVE  /\ SumFunction(f) \in Nat
         /\ SumFunction(h) \in Nat
         /\ p * SumFunction(f) <= q * SumFunction(h)
<1>1. PICK g \in [SUBSET S -> Nat] : SumFunction(f) = g[S] /\ Sums(g, f, S)
  BY SumByElements
<1>2. PICK k \in [SUBSET S -> Nat] : SumFunction(h) = k[S] /\ Sums(k, h, S)
  BY SumByElements
<1> DEFINE Within(u) == p * g[u] <= q * k[u]
<1>3. ASSUME NEW t \in SUBSET S, ~ Within(t) PROVE FALSE
  <2> DEFINE Over == {u \in SUBSET S : ~ Within(u)}
  <2>1. PICK s \in Over : \A u \in SUBSET s : u # s => u \notin Over
    <3> HIDE DEF Within
    <3>1. Over \in SUBSET SUBSET S /\ Over # {}
      BY <1>3
    <3> HIDE DEF Over
    <3> QED  BY <3>1, MinimalSet
  <2>2. PICK y \in s : TRUE
    <3>1. Within({})
      BY <1>1, <1>2 DEF Sums
    <3> HIDE DEF Within
    <3> QED  BY <2>1, <3>1
  <2> DEFINE r == s \ {y}
             a == f[y]  b == h[y]  c == g[r]  d == k[r]
  <2>3. Within(r) /\ ~ Within(s) /\ r \in SUBSET S
    <3> HIDE DEF Within
    <3> QED  BY <2>1, <2>2
  <2>4. g[s] = a + c /\ k[s] = b + d
    BY <1>1, <1>2, <2>1, <2>2 DEF Sums
  <2>5. a \in Nat /\ b \in Nat /\ c \in Nat /\ d \in Nat /\ p * a <= q * b
    BY <2>1, <2>2, <2>3
  <2>6. p * c <= q * d /\ ~ (p * (a + c) <= q * (b + d))
    BY <2>3, <2>4
  <2> HIDE DEF a, b, c, d
  <2>7. p * (a + c) = p * a + p * c /\ q * (b + d) = q * b + q * d
    BY <2>5
  <2>8. p * a \in Nat /\ q * b \in Nat /\ p * c \in Nat /\ q * d \in Nat
    BY <2>5, MulNat
  <2> QED  BY <2>5, <2>6, <2>7, <2>8
<1> QED
  BY <1>1, <1>2, <1>3

\* A function that is zero everywhere sums up to zero.
LEMMA SumZero ==
  ASSUME NEW S, IsFiniteSet(S), NEW f \in [S -> Nat], \A x \in S : f[x] = 0
  PROVE  SumFunction(f) = 0
<1>1. \A x \in S : 1 * f[x] <= 0 * f[x]
  OBVIOUS
<1>2. SumFunction(f) \in Nat /\ 1 * SumFunction(f) <= 0 * SumFunction(f)
  BY <1>1, SumProportion
<1> QED
  BY <1>2

\* Shares t of s in proportion to d, rounded down, never add up to more than
\* s, whichever of them have been given out.
LEMMA SharesFitTogether ==
  ASSUME NEW S, IsFiniteSet(S), NEW d \in [S -> Nat], NEW t \in [S -> Nat], NEW s \in Nat,
         \A x \in S : t[x] > 0 => d[x] > 0 /\ t[x] = (d[x] * s) \div SumFunction(d)
  PROVE  SumFunction(t) \in Nat /\ SumFunction(t) <= s
<1> DEFINE p == SumFunction(d)
           total == SumFunction(t)
<1>1. p \in Nat /\ total \in Nat /\ \A x \in S : d[x] <= p
  <2>1. \A x \in S : 0 * t[x] <= 0 * d[x]
    OBVIOUS
  <2>2. p \in Nat /\ total \in Nat
    BY <2>1, SumProportion
  <2>3. \A x \in S : d[x] <= p
    BY SumUpdate
  <2> QED  BY <2>2, <2>3
<1>2. \A x \in S : t[x] > 0 => d[x] > 0 /\ t[x] = (d[x] * s) \div p
  OBVIOUS
<1> HIDE DEF p
<1>3. CASE p = 0
  <2>1. \A x \in S : t[x] = 0
    BY <1>1, <1>2, <1>3
  <2>2. total = 0
    BY <2>1, SumZero
  <2> QED  BY <2>2
<1>4. CASE p > 0
  <2>1. ASSUME NEW x \in S PROVE p * t[x] <= s * d[x]
    <3> DEFINE a == d[x]  b == t[x]
    <3>1. a \in Nat /\ b \in Nat /\ p \in Nat \ {0} /\ (b > 0 => b = (a * s) \div p)
      BY <1>1, <1>2, <1>4
    <3> HIDE DEF a, b
    <3>2. a * s \in Nat /\ a * s = s * a /\ p * b = b * p
      BY <3>1, MulNat
    <3>3. CASE b = 0
      BY <3>1, <3>2, <3>3 DEF a, b
    <3>4. CASE b > 0
      <4> DEFINE n == a * s
      <4>1. b = n \div p /\ n \in Nat
        BY <3>1, <3>2, <3>4
      <4> HIDE DEF n
      <4>2. b * p <= n
        BY <3>1, <4>1, DivBounds
      <4> QED  BY <3>2, <4>2 DEF n, a, b
    <3> QED  BY <3>1, <3>3, <3>4
  <2>2. p * total <= s * p
    BY <1>1, <2>1, SumProportion DEF p
  <2> HIDE DEF total
  <2>3. total <= s
    <3> SUFFICES ASSUME s < total PROVE FALSE
      BY <1>1
    <3>1. s * p < total * p
      BY <1>1, <1>4, MulMono
    <3>2. total * p = p * total /\ s * p \in Nat /\ p * total \in Nat
      BY <1>1, MulNat
    <3> QED  BY <2>2, <3>1, <3>2
  <2> QED  BY <1>1, <2>3 DEF total
<1> QED
  BY <1>1, <1>3, <1>4

=============================================================================
