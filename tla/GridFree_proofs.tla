------------------------ MODULE GridFree_proofs ------------------------
(***************************************************************************)
(* For every size, every build and every program: the types of GridFree,   *)
(* products with cos(theta) and sin(theta) d/dtheta, rotations, and fields *)
(* at a latitude or at a point, as long as the program is careful with     *)
(* what the last latitude leaves behind.                                   *)
(***************************************************************************)
EXTENDS GridFree, FiniteSetTheorems, TLAPS

-----------------------------------------------------------------------------
(* Induction over the natural numbers, for sets rather than predicates.     *)

(* A set with 0 and with the successor of each of its numbers has all. *)
LEMMA SetInduction ==
  ASSUME NEW P, 0 \in P, \A k \in Nat : k \in P => k + 1 \in P
  PROVE  Nat \subseteq P
<1> SUFFICES ASSUME NEW n \in Nat, n \notin P PROVE FALSE
  OBVIOUS
<1> DEFINE D == {k \in 0..n : k \notin P}
           f == [k \in D |-> k - 1]
<1>1. IsFiniteSet(0..n)
  BY FS_Interval
<1>2. IsFiniteSet(D)
  BY <1>1, FS_Subset
<1>3. IsFiniteSet(D \ {n}) /\ Cardinality(D \ {n}) = Cardinality(D) - 1 /\ Cardinality(D) \in Nat
  <2>1. n \in D
    OBVIOUS
  <2> QED BY <1>2, <2>1, FS_RemoveElement, FS_CardinalityType
<1>4. \A k \in D : k - 1 \in D \ {n}
  <2> TAKE k \in D
  <2>1. k \in Nat /\ k # 0
    OBVIOUS
  <2>2. k - 1 \in Nat /\ (k - 1) + 1 = k /\ k - 1 \in 0..n /\ k - 1 # n
    BY <2>1
  <2>3. k - 1 \notin P
    BY <2>2
  <2> QED BY <2>2, <2>3
<1>5. f \in Injection(D, D \ {n})
  BY <1>4 DEF Injection, IsInjective
<1>6. Cardinality(D) <= Cardinality(D \ {n})
  BY <1>2, <1>3, <1>5, FS_Injection DEF ExistsInjection
<1> QED BY <1>3, <1>6

-----------------------------------------------------------------------------
(* The packed tables.                                                      *)

(* The size and the build of a job. *)
LEMMA JobFacts ==
  ASSUME job \in Jobs
  PROVE  /\ LMAX \in Nat /\ LMAX >= 2 /\ MMAX \in Nat /\ MRES \in Nat \ {0} /\ MMAX * MRES <= LMAX
         /\ NWAY \in Nat \ {0} /\ VSIZE2 \in Nat \ {0} /\ job.schmidt \in BOOLEAN
BY GridFreeAssumption DEF LMAX, MMAX, MRES, NWAY, VSIZE2

(* The least degree of an order is a degree. *)
LEMMA OrderFacts ==
  ASSUME job \in Jobs, NEW i \in 0..MMAX
  PROVE  i * MRES \in 0..LMAX
<1>1. LMAX \in Nat /\ MMAX \in Nat /\ MRES \in Nat \ {0} /\ MMAX * MRES <= LMAX
  BY JobFacts
<1> DEFINE d == MMAX - i
<1>2. d \in Nat /\ MMAX = i + d /\ i \in Nat
  BY <1>1
<1> HIDE DEF d
<1>3. d * MRES \in Nat /\ i * MRES \in Nat /\ MMAX * MRES = i * MRES + d * MRES
  BY <1>1, <1>2
<1> QED BY <1>1, <1>3

(* What is added to a degree to find its place. *)
Base(im) == (im * (2 * LMAX + 2 - (im + 1) * MRES)) \div 2

(* The division has no remainder. *)
LEMMA BaseTwice ==
  ASSUME job \in Jobs, NEW i \in Nat
  PROVE  /\ Base(i) \in Int
         /\ 2 * Base(i) = i * (2 * LMAX + 2 - (i + 1) * MRES)
<1>1. LMAX \in Nat /\ MRES \in Nat
  BY JobFacts
<1>2. \E t \in Int : i * (i + 1) = 2 * t
  <2>1. CASE i % 2 = 0
    <3> DEFINE q == i \div 2
    <3>1. q \in Nat /\ i = 2 * q
      BY <2>1
    <3> HIDE DEF q
    <3>2. i * (i + 1) = 2 * (q * (2 * q + 1)) /\ q * (2 * q + 1) \in Int
      BY <3>1
    <3> QED BY <3>2
  <2>2. CASE i % 2 = 1
    <3> DEFINE q == i \div 2
    <3>1. q \in Nat /\ i = 2 * q + 1
      BY <2>2
    <3> HIDE DEF q
    <3>2. i * (i + 1) = 2 * ((2 * q + 1) * (q + 1)) /\ (2 * q + 1) * (q + 1) \in Int
      BY <3>1
    <3> QED BY <3>2
  <2> QED BY <2>1, <2>2
<1>3. PICK t \in Int : i * (i + 1) = 2 * t
  BY <1>2
<1> DEFINE h == i * (LMAX + 1) - MRES * t
           z == i * (2 * LMAX + 2 - (i + 1) * MRES)
<1>4. h \in Int
  BY <1>1, <1>3
<1>5. z = i * (2 * LMAX + 2) - MRES * (i * (i + 1))
  BY <1>1
<1>6. MRES * (2 * t) = 2 * (MRES * t) /\ i * (2 * LMAX + 2) = 2 * (i * (LMAX + 1))
  BY <1>1, <1>3
<1>7. z = 2 * h
  BY <1>1, <1>3, <1>5, <1>6
<1>8. Base(i) = z \div 2
  BY DEF Base
<1> HIDE DEF h, z
<1>9. z \div 2 = h
  BY <1>4, <1>7
<1> QED BY <1>4, <1>7, <1>8, <1>9 DEF z

(* An order begins where the last one ends. *)
LEMMA BaseNext ==
  ASSUME job \in Jobs
  PROVE  /\ Base(0) = 0
         /\ \A i \in Nat : Base(i + 1) = Base(i) + LMAX + 1 - (i + 1) * MRES
<1>1. LMAX \in Nat /\ MRES \in Nat
  BY JobFacts
<1>2. Base(0) = 0
  <2>1. Base(0) \in Int /\ 2 * Base(0) = 0 * (2 * LMAX + 2 - (0 + 1) * MRES)
    BY BaseTwice
  <2> QED BY <1>1, <2>1
<1>3. ASSUME NEW i \in Nat PROVE Base(i + 1) = Base(i) + LMAX + 1 - (i + 1) * MRES
  <2> DEFINE n == i + 1
             k == n * MRES
  <2>1. n \in Nat /\ k \in Nat /\ (n + 1) * MRES = k + MRES
    BY <1>1
  <2>2. Base(i) \in Int /\ 2 * Base(i) = i * (2 * LMAX + 2 - k)
    BY BaseTwice
  <2> HIDE DEF n
  <2>3. Base(n) \in Int /\ 2 * Base(n) = n * (2 * LMAX + 2 - (n + 1) * MRES)
    BY <2>1, BaseTwice
  <2>4. n * (2 * LMAX + 2 - (k + MRES)) = n * (2 * LMAX + 2 - k) - k
    BY <1>1, <2>1
  <2>5. n * (2 * LMAX + 2 - k) = i * (2 * LMAX + 2 - k) + (2 * LMAX + 2 - k)
    BY <1>1, <2>1 DEF n
  <2> HIDE DEF k
  <2>6. i * (2 * LMAX + 2 - k) \in Int
    BY <1>1, <2>1
  <2>7. 2 * Base(n) = 2 * Base(i) + 2 * (LMAX + 1 - k)
    BY <1>1, <2>1, <2>2, <2>3, <2>4, <2>5, <2>6
  <2>8. Base(n) = Base(i) + LMAX + 1 - k
    BY <1>1, <2>1, <2>2, <2>3, <2>7
  <2> QED BY <2>8 DEF n, k
<1> QED BY <1>2, <1>3

(* The macro LiM adds the degree. *)
LEMMA LiMIs ==
  \A l, im : LiM(l, im) = Base(im) + l
BY DEF LiM, Base

(* The orders do not overlap. *)
LEMMA OrdersApart ==
  ASSUME job \in Jobs, NEW i \in 0..MMAX, NEW k \in 0..MMAX, i < k
  PROVE  Base(i) + LMAX < Base(k) + k * MRES
<1>1. LMAX \in Nat /\ MMAX \in Nat /\ MRES \in Nat
  BY JobFacts
<1> DEFINE P == {n \in Nat : n > i /\ n <= MMAX => Base(i) + LMAX < Base(n) + n * MRES}
<1>2. 0 \in P
  OBVIOUS
<1>3. ASSUME NEW n \in Nat, n \in P PROVE n + 1 \in P
  <2> SUFFICES ASSUME n + 1 > i, n + 1 <= MMAX
               PROVE  Base(i) + LMAX < Base(n + 1) + (n + 1) * MRES
    OBVIOUS
  <2>1. n \in 0..MMAX
    BY <1>1
  <2>2. n * MRES \in 0..LMAX /\ (n + 1) * MRES \in Int
    BY <1>1, <2>1, OrderFacts
  <2>3. Base(n + 1) + (n + 1) * MRES = Base(n) + LMAX + 1
    <3>1. Base(n + 1) = Base(n) + LMAX + 1 - (n + 1) * MRES /\ Base(n) \in Int
      BY BaseNext, BaseTwice
    <3> QED BY <1>1, <2>2, <3>1
  <2>4. Base(n) \in Int /\ Base(i) \in Int
    BY BaseTwice
  <2>5. CASE n = i
    BY <1>1, <2>3, <2>4, <2>5
  <2>6. CASE n > i
    <3>1. Base(i) + LMAX < Base(n) + n * MRES
      BY <1>1, <1>3, <2>6
    <3> QED BY <1>1, <2>2, <2>3, <2>4, <3>1
  <2> QED BY <2>5, <2>6
<1> HIDE DEF P
<1>4. Nat \subseteq P
  BY <1>2, <1>3, SetInduction
<1> QED BY <1>1, <1>4 DEF P

(* The degrees of an order lie within the table, each at a place of its own. *)
LEMMA PlaceFacts ==
  ASSUME job \in Jobs, NEW i \in 0..MMAX, NEW l \in (i * MRES)..LMAX
  PROVE  /\ LiM(l, i) \in 0..(NLM - 1) /\ NLM \in Nat \ {0}
         /\ LiM(l, i) = Base(i) + l /\ Base(i) \in Int
<1>1. LMAX \in Nat /\ MMAX \in Nat /\ MRES \in Nat /\ MMAX * MRES <= LMAX
  BY JobFacts
<1>2. i * MRES \in 0..LMAX /\ MMAX * MRES \in 0..LMAX /\ Base(i) \in Int /\ Base(MMAX) \in Int
  BY <1>1, OrderFacts, BaseTwice
<1>3. LiM(l, i) = Base(i) + l /\ NLM = Base(MMAX) + LMAX + 1 /\ l \in Int
  BY <1>1, <1>2, LiMIs DEF NLM
<1>4. Base(i) + i * MRES >= 0
  <2>1. CASE i = 0
    BY <1>1, <1>2, <2>1, BaseNext
  <2>2. CASE i # 0
    <3>1. Base(0) + LMAX < Base(i) + i * MRES
      BY <1>1, <2>2, OrdersApart
    <3> QED BY <1>1, <1>2, <3>1, BaseNext
  <2> QED BY <2>1, <2>2
<1>5. Base(i) + LMAX <= Base(MMAX) + LMAX
  <2>1. CASE i = MMAX
    BY <1>1, <1>2, <2>1
  <2>2. CASE i # MMAX
    <3>1. Base(i) + LMAX < Base(MMAX) + MMAX * MRES
      BY <1>1, <2>2, OrdersApart
    <3> QED BY <1>1, <1>2, <3>1
  <2> QED BY <2>1, <2>2
<1> QED BY <1>1, <1>2, <1>3, <1>4, <1>5

(* Two coefficients at one place are the same. *)
LEMMA PlaceApart ==
  ASSUME job \in Jobs,
         NEW i \in 0..MMAX, NEW l \in (i * MRES)..LMAX, NEW k \in 0..MMAX, NEW d \in (k * MRES)..LMAX,
         LiM(l, i) = LiM(d, k)
  PROVE  i = k /\ l = d
<1> DEFINE u == i * MRES
           v == k * MRES
<1>1. LMAX \in Nat /\ MMAX \in Nat /\ u \in Nat /\ v \in Nat /\ i \in Nat /\ k \in Nat
  BY JobFacts, OrderFacts
<1>2. l \in u..LMAX /\ d \in v..LMAX
  OBVIOUS
<1>3. Base(i) \in Int /\ Base(k) \in Int /\ Base(i) + l = Base(k) + d
  BY <1>1, BaseTwice, LiMIs
<1>4. i < k => Base(i) + LMAX < Base(k) + v
  BY OrdersApart
<1>5. k < i => Base(k) + LMAX < Base(i) + u
  BY OrdersApart
<1> HIDE DEF u, v
<1>6. l \in Int /\ d \in Int /\ l <= LMAX /\ d <= LMAX /\ u <= l /\ v <= d
  BY <1>1, <1>2
<1>7. i = k
  BY <1>1, <1>3, <1>4, <1>5, <1>6
<1>8. l = d
  BY <1>3, <1>6, <1>7
<1> QED BY <1>7, <1>8

(* A place of the table belongs to the degree and order it was computed from. *)
LEMMA CoefIs ==
  ASSUME job \in Jobs, NEW i \in 0..MMAX, NEW l \in (i * MRES)..LMAX
  PROVE  Coef(LiM(l, i)) = <<l, i>>
<1> DEFINE o == LiM(l, i)
           K == {k \in (0..LMAX) \X (0..MMAX) : k[1] >= k[2] * MRES /\ LiM(k[1], k[2]) = o}
<1>1. LMAX \in Nat /\ MMAX \in Nat /\ i * MRES \in Nat /\ l \in 0..LMAX /\ l >= i * MRES
  BY JobFacts, OrderFacts
<1>2. <<l, i>> \in K
  BY <1>1
<1>3. ASSUME NEW k \in K PROVE k = <<l, i>>
  <2> DEFINE a == k[1]
             c == k[2]
  <2>1. k = <<a, c>> /\ a \in 0..LMAX /\ c \in 0..MMAX /\ a >= c * MRES /\ LiM(a, c) = o
    BY <1>3
  <2> HIDE DEF a, c
  <2>2. c * MRES \in Nat
    BY <2>1, OrderFacts
  <2>3. a \in (c * MRES)..LMAX
    BY <1>1, <2>1, <2>2
  <2>4. c = i /\ a = l
    BY <2>1, <2>3, PlaceApart
  <2> QED BY <2>1, <2>4
<1>4. Coef(o) = IF K = {} THEN Wrong ELSE CHOOSE k \in K : TRUE
  BY DEF Coef
<1> HIDE DEF K, o
<1>5. K # {} /\ (CHOOSE k \in K : TRUE) \in K
  BY <1>2
<1>6. Coef(o) = <<l, i>>
  BY <1>3, <1>4, <1>5
<1> QED BY <1>6 DEF o

(* Every place belongs to a coefficient. *)
LEMMA PlaceFound ==
  ASSUME job \in Jobs, NEW o \in 0..(NLM - 1)
  PROVE  \E i \in 0..MMAX : \E l \in (i * MRES)..LMAX : o = LiM(l, i)
<1>1. LMAX \in Nat /\ MMAX \in Nat /\ MRES \in Nat /\ MMAX * MRES \in 0..LMAX
  BY JobFacts, OrderFacts
<1>2. NLM = Base(MMAX) + LMAX + 1 /\ Base(MMAX) \in Int /\ NLM \in Nat
  BY <1>1, PlaceFacts DEF NLM
<1> DEFINE Found(n) == \E i \in 0..MMAX : \E l \in (i * MRES)..LMAX : n = Base(i) + l
           P == {n \in Nat : n < NLM => Found(n)}
<1>3. 0 \in P
  <2>1. Found(0)
    <3>1. 0 \in 0..MMAX /\ 0 \in (0 * MRES)..LMAX /\ 0 = Base(0) + 0
      BY <1>1, BaseNext
    <3> QED BY <3>1
  <2> QED BY <2>1
<1>4. ASSUME NEW n \in Nat, n \in P PROVE n + 1 \in P
  <2> SUFFICES ASSUME n + 1 < NLM PROVE Found(n + 1)
    OBVIOUS
  <2>1. PICK i \in 0..MMAX : \E l \in (i * MRES)..LMAX : n = Base(i) + l
    BY <1>2, <1>4
  <2>2. PICK l \in (i * MRES)..LMAX : n = Base(i) + l
    BY <2>1
  <2>3. i * MRES \in Nat /\ Base(i) \in Int /\ i \in Nat
    BY OrderFacts, BaseTwice
  <2>4. CASE l < LMAX
    <3>1. l + 1 \in (i * MRES)..LMAX /\ n + 1 = Base(i) + (l + 1)
      BY <1>1, <2>2, <2>3, <2>4
    <3> QED BY <3>1
  <2>5. CASE l = LMAX
    <3>1. i # MMAX
      BY <1>1, <1>2, <2>2, <2>5
    <3> DEFINE k == i + 1
               d == k * MRES
    <3>2. k \in 0..MMAX
      BY <1>1, <2>3, <3>1
    <3>3. Base(k) = Base(i) + LMAX + 1 - d
      BY <2>3, BaseNext
    <3> HIDE DEF k
    <3>4. d \in 0..LMAX
      BY <3>2, OrderFacts
    <3>5. d \in d..LMAX /\ n + 1 = Base(k) + d
      <4> HIDE DEF d
      <4> QED BY <1>1, <2>2, <2>3, <2>5, <3>3, <3>4
    <3> QED BY <3>2, <3>5
  <2> QED BY <1>1, <2>3, <2>4, <2>5
<1> HIDE DEF P
<1>5. Nat \subseteq P
  BY <1>3, <1>4, SetInduction
<1>6. o \in Nat /\ o < NLM
  BY <1>2
<1>7. Found(o)
  BY <1>5, <1>6 DEF P
<1> QED BY <1>7, LiMIs
-----------------------------------------------------------------------------
(* Legendre functions and the terms of a field.                            *)

(* Each degree is computed from the pair of the recurrence that is its own. *)
LEMMA Climbs ==
  ASSUME job \in Jobs, NEW i \in 0..MMAX, NEW l
  PROVE  Climbed(i, l)
<1> DEFINE k == i * MRES
           b == Base(i)
           a == alm_im(i)
<1>1. LMAX \in Nat /\ MRES \in Nat /\ i \in Nat /\ k \in Nat
  BY JobFacts, OrderFacts
<1>2. b \in Int /\ 2 * b = i * (2 * LMAX + 2 - (i + 1) * MRES)
  BY <1>1, BaseTwice
<1>3. a = 2 * b + 2 * k
  BY <1>1, <1>2 DEF alm_im
<1> SUFFICES ASSUME NEW d \in (i * MRES + 1)..l PROVE AlUsed(i, d) = AlmPair(i, d)
  BY DEF Climbed
<1> DEFINE n == d - k
<1>4. AlmPair(i, d) = 2 * (b + (d - 1))
  BY LiMIs DEF AlmPair
<1>5. AlUsed(i, d) = IF n = 1 THEN a ELSE a + 2 + 4 * ((n - 2) \div 2) + 2 * (n % 2)
  BY DEF AlUsed
<1>6. d \in Int /\ d >= k + 1
  BY <1>1
<1> HIDE DEF k, b, a
<1>7. n \in Nat /\ n >= 1 /\ d = n + k
  BY <1>1, <1>6
<1> HIDE DEF n
<1>8. CASE n = 1
  BY <1>1, <1>2, <1>3, <1>4, <1>5, <1>7, <1>8
<1>9. CASE n # 1
  <2>1. 4 * ((n - 2) \div 2) + 2 * (n % 2) = 2 * (n - 2)
    BY <1>7, <1>9
  <2>2. (n - 2) \div 2 \in Int /\ n % 2 \in Int
    BY <1>7
  <2> QED BY <1>1, <1>2, <1>3, <1>4, <1>5, <1>7, <1>9, <2>1, <2>2
<1> QED BY <1>8, <1>9

(* What a function stores for a degree, however many it computes. *)
Stored(kind, m, l, x) == IF l < FirstDegree(m, x) THEN Zero ELSE <<kind, m, l, x>>

(* The first degree that counts is a degree of the order. *)
LEMMA FirstFacts ==
  ASSUME job \in Jobs, NEW m \in 0..MMAX, NEW x \in Lat
  PROVE  FirstDegree(m, x) \in Nat /\ FirstDegree(m, x) >= m * MRES
<1>1. m * MRES \in Nat
  BY OrderFacts
<1>2. Faint[x][m] \in Nat
  BY GridFreeAssumption DEF MMAX
<1> DEFINE k == m * MRES
<1>3. FirstDegree(m, x) = k + (IF Faint[x][m] = 0 THEN 0 ELSE 2 + 2 * Faint[x][m])
  BY DEF FirstDegree
<1> HIDE DEF k
<1>4. k \in Nat
  BY <1>1 DEF k
<1> QED BY <1>2, <1>3, <1>4 DEF k

(* The arrays of Legendre functions hold what is stored for each degree. *)
LEMMA SphPlmIs ==
  ASSUME job \in Jobs, NEW m \in 0..MMAX, NEW x, NEW lmax, NEW kind
  PROVE  SphPlm(kind, lmax, m, x) = [l \in (m * MRES)..lmax |-> Stored(kind, m, l, x)]
<1>1. \A l : Value(kind, m, l, x) = <<kind, m, l, x>>
  BY Climbs DEF Value
<1> QED BY <1>1 DEF SphPlm, Stored

(* One element of an array. *)
LEMMA SphPlmAt ==
  ASSUME job \in Jobs, NEW m \in 0..MMAX, NEW x, NEW lmax, NEW kind, NEW l \in (m * MRES)..lmax
  PROVE  SphPlm(kind, lmax, m, x)[l] = Stored(kind, m, l, x)
<1> DEFINE k == m * MRES
<1>1. SphPlm(kind, lmax, m, x) = [d \in k..lmax |-> Stored(kind, m, d, x)]
  BY SphPlmIs
<1> HIDE DEF k
<1>2. l \in k..lmax
  BY DEF k
<1> QED BY <1>1, <1>2

Fields == ToLat \cup ToPoint

(* The function behind the array y of a call, and what it and dy hold. *)
Kind(fn, m) == IF m = 0 \/ fn = "SH_to_point" THEN "Y" ELSE "Ys"
Val(fn, m, l, x, a) == IF a = "y" THEN Stored(Kind(fn, m), m, l, x) ELSE Stored("dY", m, l, x)

(* Components, functions and fields of order m in the result of a call. *)
CompsOf(fn, m) ==
  LET scalar == fn \in {"SH_to_lat", "SH_to_point"}
  IN  {<<"r", "Y", "Q">>}
        \cup (IF scalar THEN {} ELSE {<<"t", "dY", "S">>})
        \cup (IF scalar \/ m = 0 THEN {} ELSE {<<"p", "imY/st", "S">>})
        \cup (IF scalar \/ fn = "SH_to_grad_point" THEN {} ELSE {<<"p", "-dY", "T">>})
        \cup (IF scalar \/ m = 0 \/ fn = "SH_to_grad_point" THEN {} ELSE {<<"t", "imY/st", "T">>})
TermAt(z, o, m, l, x, C) ==
  [to |-> z[1], order |-> o, f |-> z[2], at |-> <<m, l, x>>, field |-> z[3], c |-> C]

(* What a factor and a function make together. *)
LEMMA Meanings ==
  ASSUME NEW m, NEW l, NEW x
  PROVE  /\ Meaning("1", <<"Y", m, l, x>>) = "Y"
         /\ Meaning("st", <<"Ys", m, l, x>>) = "Y"
         /\ Meaning("im", <<"Ys", m, l, x>>) = "imY/st"
         /\ Meaning("1", <<"dY", m, l, x>>) = "dY"
         /\ Meaning("-1", <<"dY", m, l, x>>) = "-dY"
<1>1. ASSUME NEW y, y # Zero
      PROVE  /\ y[1] = "Y" => Meaning("1", y) = "Y"
             /\ y[1] = "Ys" => Meaning("st", y) = "Y"
             /\ y[1] = "Ys" => Meaning("im", y) = "imY/st"
             /\ y[1] = "dY" => Meaning("1", y) = "dY"
             /\ y[1] = "dY" => Meaning("-1", y) = "-dY"
  <2>1. /\ "Y" # "Ys" /\ "Y" # "dY" /\ "Ys" # "dY"
        /\ "1" # "st" /\ "1" # "im" /\ "1" # "-1" /\ "st" # "im" /\ "st" # "-1" /\ "im" # "-1"
    OBVIOUS
  <2>2. y[1] = "Y" => Meaning("1", y) = "Y"
    BY <1>1, <2>1, Zenon DEF Meaning
  <2>3. y[1] = "Ys" => Meaning("st", y) = "Y"
    BY <1>1, <2>1, Zenon DEF Meaning
  <2>4. y[1] = "Ys" => Meaning("im", y) = "imY/st"
    BY <1>1, <2>1, Zenon DEF Meaning
  <2>5. y[1] = "dY" => Meaning("1", y) = "dY"
    BY <1>1, <2>1, Zenon DEF Meaning
  <2>6. y[1] = "dY" => Meaning("-1", y) = "-dY"
    BY <1>1, <2>1, Zenon DEF Meaning
  <2> QED BY <2>2, <2>3, <2>4, <2>5, <2>6
<1> DEFINE A == <<"Y", m, l, x>>
           B == <<"Ys", m, l, x>>
           D == <<"dY", m, l, x>>
<1>2. A # Zero /\ A[1] = "Y" /\ B # Zero /\ B[1] = "Ys" /\ D # Zero /\ D[1] = "dY"
  BY DEF Zero
<1> HIDE DEF A, B, D
<1>3. Meaning("1", A) = "Y" /\ Meaning("st", B) = "Y" /\ Meaning("im", B) = "imY/st"
  BY <1>1, <1>2
<1>4. Meaning("1", D) = "dY" /\ Meaning("-1", D) = "-dY"
  BY <1>1, <1>2
<1> QED BY <1>3, <1>4 DEF A, B, D

(* Negligible functions are not counted. *)
LEMMA MeaningZero ==
  \A f : Meaning(f, Zero) = "0"
<1>1. Zero[1] # "Y" /\ Zero[1] # "Ys" /\ Zero[1] # "dY"
  BY DEF Zero
<1> QED BY <1>1, Zenon DEF Meaning

(* Where the functions count, the sums of a call make the components of its result. *)
LEMMA SumsMake ==
  ASSUME NEW fn \in Fields, NEW m \in Nat, NEW l, NEW x, ~(l < FirstDegree(m, x))
  PROVE  CompsOf(fn, m) =
           {<<s[1], Meaning(s[2], Val(fn, m, l, x, s[3])), s[4]>> : s \in Sums(fn, m)}
<1> DEFINE V(a) == Val(fn, m, l, x, a)
           M(s) == <<s[1], Meaning(s[2], V(s[3])), s[4]>>
<1>1. V("y") = <<Kind(fn, m), m, l, x>> /\ V("dy") = <<"dY", m, l, x>>
  BY DEF Val, Stored
<1>2. /\ Kind(fn, m) = "Y" => Meaning("1", V("y")) = "Y"
      /\ Kind(fn, m) = "Ys" => Meaning("st", V("y")) = "Y" /\ Meaning("im", V("y")) = "imY/st"
      /\ Meaning("1", V("dy")) = "dY" /\ Meaning("-1", V("dy")) = "-dY"
  BY <1>1, Meanings
<1> HIDE DEF V
<1> SUFFICES CompsOf(fn, m) = {M(s) : s \in Sums(fn, m)}
  BY DEF V
<1>3. \A c, f, a, g : M(<<c, f, a, g>>) = <<c, Meaning(f, V(a)), g>>
  OBVIOUS
<1> HIDE DEF M
<1>4. CASE fn = "SH_to_lat" /\ m = 0
  <2>1. Sums(fn, m) = {<<"r", "1", "y", "Q">>}
    BY <1>4 DEF Sums
  <2>2. CompsOf(fn, m) = {<<"r", "Y", "Q">>}
    BY <1>4 DEF CompsOf
  <2>3. Kind(fn, m) = "Y"
    BY <1>4 DEF Kind
  <2>4. M(<<"r", "1", "y", "Q">>) = <<"r", "Y", "Q">>
    BY <1>2, <1>3, <2>3
  <2> QED BY <2>1, <2>2, <2>4
<1>5. CASE fn = "SH_to_lat" /\ m # 0
  <2>1. Sums(fn, m) = {<<"r", "st", "y", "Q">>}
    BY <1>5 DEF Sums
  <2>2. CompsOf(fn, m) = {<<"r", "Y", "Q">>}
    BY <1>5 DEF CompsOf
  <2>3. Kind(fn, m) = "Ys"
    BY <1>5 DEF Kind
  <2>4. M(<<"r", "st", "y", "Q">>) = <<"r", "Y", "Q">>
    BY <1>2, <1>3, <2>3
  <2> QED BY <2>1, <2>2, <2>4
<1>6. CASE fn = "SH_to_point"
  <2>1. Sums(fn, m) = {<<"r", "1", "y", "Q">>}
    BY <1>6 DEF Sums
  <2>2. CompsOf(fn, m) = {<<"r", "Y", "Q">>}
    BY <1>6 DEF CompsOf
  <2>3. Kind(fn, m) = "Y"
    BY <1>6 DEF Kind
  <2>4. M(<<"r", "1", "y", "Q">>) = <<"r", "Y", "Q">>
    BY <1>2, <1>3, <2>3
  <2> QED BY <2>1, <2>2, <2>4
<1>7. CASE fn = "SH_to_grad_point" /\ m = 0
  <2>1. Sums(fn, m) = {<<"r", "1", "y", "Q">>,
                         <<"t", "1", "dy", "S">>}
    BY <1>7 DEF Sums
  <2>2. CompsOf(fn, m) = {<<"r", "Y", "Q">>, <<"t", "dY", "S">>}
    BY <1>7 DEF CompsOf
  <2>3. Kind(fn, m) = "Y"
    BY <1>7 DEF Kind
  <2>4. M(<<"r", "1", "y", "Q">>) = <<"r", "Y", "Q">>
    BY <1>2, <1>3, <2>3
  <2>5. M(<<"t", "1", "dy", "S">>) = <<"t", "dY", "S">>
    BY <1>2, <1>3, <2>3
  <2> QED BY <2>1, <2>2, <2>4, <2>5
<1>8. CASE fn = "SH_to_grad_point" /\ m # 0
  <2>1. Sums(fn, m) = {<<"r", "st", "y", "Q">>,
                         <<"t", "1", "dy", "S">>,
                         <<"p", "im", "y", "S">>}
    BY <1>8 DEF Sums
  <2>2. CompsOf(fn, m) = {<<"r", "Y", "Q">>, <<"t", "dY", "S">>, <<"p", "imY/st", "S">>}
    BY <1>8 DEF CompsOf
  <2>3. Kind(fn, m) = "Ys"
    BY <1>8 DEF Kind
  <2>4. M(<<"r", "st", "y", "Q">>) = <<"r", "Y", "Q">>
    BY <1>2, <1>3, <2>3
  <2>5. M(<<"t", "1", "dy", "S">>) = <<"t", "dY", "S">>
    BY <1>2, <1>3, <2>3
  <2>6. M(<<"p", "im", "y", "S">>) = <<"p", "imY/st", "S">>
    BY <1>2, <1>3, <2>3
  <2> QED BY <2>1, <2>2, <2>4, <2>5, <2>6
<1>9. CASE fn \in {"SHqst_to_lat", "SHqst_to_point"} /\ m = 0
  <2>1. Sums(fn, m) = {<<"r", "1", "y", "Q">>,
                         <<"t", "1", "dy", "S">>,
                         <<"p", "-1", "dy", "T">>}
    BY <1>9 DEF Sums
  <2>2. CompsOf(fn, m) = {<<"r", "Y", "Q">>, <<"t", "dY", "S">>, <<"p", "-dY", "T">>}
    BY <1>9 DEF CompsOf
  <2>3. Kind(fn, m) = "Y"
    BY <1>9 DEF Kind
  <2>4. M(<<"r", "1", "y", "Q">>) = <<"r", "Y", "Q">>
    BY <1>2, <1>3, <2>3
  <2>5. M(<<"t", "1", "dy", "S">>) = <<"t", "dY", "S">>
    BY <1>2, <1>3, <2>3
  <2>6. M(<<"p", "-1", "dy", "T">>) = <<"p", "-dY", "T">>
    BY <1>2, <1>3, <2>3
  <2> QED BY <2>1, <2>2, <2>4, <2>5, <2>6
<1>10. CASE fn \in {"SHqst_to_lat", "SHqst_to_point"} /\ m # 0
  <2>1. Sums(fn, m) = {<<"r", "st", "y", "Q">>,
                         <<"t", "1", "dy", "S">>,
                         <<"t", "im", "y", "T">>,
                         <<"p", "im", "y", "S">>,
                         <<"p", "-1", "dy", "T">>}
    BY <1>10 DEF Sums
  <2>2. CompsOf(fn, m) = {<<"r", "Y", "Q">>, <<"t", "dY", "S">>, <<"t", "imY/st", "T">>, <<"p", "imY/st", "S">>, <<"p", "-dY", "T">>}
    BY <1>10 DEF CompsOf
  <2>3. Kind(fn, m) = "Ys"
    BY <1>10 DEF Kind
  <2>4. M(<<"r", "st", "y", "Q">>) = <<"r", "Y", "Q">>
    BY <1>2, <1>3, <2>3
  <2>5. M(<<"t", "1", "dy", "S">>) = <<"t", "dY", "S">>
    BY <1>2, <1>3, <2>3
  <2>6. M(<<"t", "im", "y", "T">>) = <<"t", "imY/st", "T">>
    BY <1>2, <1>3, <2>3
  <2>7. M(<<"p", "im", "y", "S">>) = <<"p", "imY/st", "S">>
    BY <1>2, <1>3, <2>3
  <2>8. M(<<"p", "-1", "dy", "T">>) = <<"p", "-dY", "T">>
    BY <1>2, <1>3, <2>3
  <2> QED BY <2>1, <2>2, <2>4, <2>5, <2>6, <2>7, <2>8
<1> QED BY <1>4, <1>5, <1>6, <1>7, <1>8, <1>9, <1>10 DEF Fields, ToLat, ToPoint

(* All terms of an order and a degree, negligible or not; the ones which count. *)
RawAt(fn, m, l, x, o, C) == {Term(s, o, Val(fn, m, l, x, s[3]), C) : s \in Sums(fn, m)}
TrueAt(fn, m, l, x, o, C) == {TermAt(z, o, m, l, x, C) : z \in CompsOf(fn, m)}

(* The terms of one order and degree which are counted. *)
LEMMA TermsOf ==
  ASSUME NEW fn \in Fields, NEW m \in Nat, NEW l, NEW x, NEW o, NEW C
  PROVE  Counted(RawAt(fn, m, l, x, o, C)) =
           IF l < FirstDegree(m, x) THEN {} ELSE TrueAt(fn, m, l, x, o, C)
<1> DEFINE V(a) == Val(fn, m, l, x, a)
<1>1. CASE l < FirstDegree(m, x)
  <2>1. \A a : V(a) = Zero
    BY <1>1 DEF Val, Stored
  <2> HIDE DEF V
  <2>2. \A s : Term(s, o, V(s[3]), C).f = "0"
    BY <2>1, MeaningZero DEF Term
  <2>3. {t \in {Term(s, o, V(s[3]), C) : s \in Sums(fn, m)} : t.f # "0"} = {}
    BY <2>2
  <2> QED BY <1>1, <2>3 DEF Counted, V, RawAt
<1>2. CASE ~(l < FirstDegree(m, x))
  <2> DEFINE M(s) == <<s[1], Meaning(s[2], V(s[3])), s[4]>>
  <2>1. CompsOf(fn, m) = {M(s) : s \in Sums(fn, m)}
    BY <1>2, SumsMake
  <2>2. \A a : At(V(a)) = <<m, l, x>>
    <3> SUFFICES ASSUME NEW a PROVE At(V(a)) = <<m, l, x>>
      OBVIOUS
    <3> DEFINE k == IF a = "y" THEN Kind(fn, m) ELSE "dY"
    <3>1. V(a) = <<k, m, l, x>>
      BY <1>2 DEF Val, Stored
    <3> HIDE DEF k, V
    <3>2. V(a) \notin {Zero, Wrong}
      BY <3>1 DEF Zero, Wrong
    <3> QED BY <3>1, <3>2 DEF At
  <2> HIDE DEF V
  <2>3. \A s : Term(s, o, V(s[3]), C) = TermAt(M(s), o, m, l, x, C)
    BY <2>2 DEF Term, TermAt
  <2>4. \A z \in CompsOf(fn, m) : z[2] # "0"
    BY DEF CompsOf
  <2>5. \A z : TermAt(z, o, m, l, x, C).f = z[2]
    BY DEF TermAt
  <2> DEFINE W == {Term(s, o, V(s[3]), C) : s \in Sums(fn, m)}
  <2>6. W = {TermAt(z, o, m, l, x, C) : z \in CompsOf(fn, m)}
    <3> HIDE DEF M
    <3> QED BY <2>1, <2>3
  <2>7. \A t \in W : t.f # "0"
    <3> HIDE DEF W
    <3> QED BY <2>4, <2>5, <2>6
  <2>8. {t \in W : t.f # "0"} = W
    BY <2>7
  <2>9. Counted(W) = W
    BY <2>8 DEF Counted
  <2> QED BY <1>2, <2>6, <2>9 DEF V, RawAt, TrueAt
<1> QED BY <1>1, <1>2
-----------------------------------------------------------------------------
(* Fields at a point and at a latitude.                                    *)

CallType ==
  [fn: STRING, cfg: Cfg, x: Lat, nphi: Nat \ {0}, ltr: Nat, mtr: Nat, base: Cfg, same: BOOLEAN]

(* The terms with their order and their coefficient. *)
RawTerms(fn, m, l, x) == RawAt(fn, m, l, x, m * MRES, <<l, m>>)
TrueTerms(fn, m, l, x) == TrueAt(fn, m, l, x, m * MRES, <<l, m>>)

(* Counting the terms of all degrees leaves those from the first one that counts. *)
LEMMA FieldFound ==
  ASSUME job \in Jobs, NEW fn \in Fields, NEW x \in Lat, NEW M \in SUBSET (0..MMAX), NEW top \in Int,
         NEW S, \A t : t \in S <=> \E m \in M : \E l \in (m * MRES)..top : t \in RawTerms(fn, m, l, x)
  PROVE  Counted(S) =
           UNION {UNION {TrueTerms(fn, m, l, x) : l \in FirstDegree(m, x)..top} : m \in M}
<1> DEFINE R(m) == UNION {TrueTerms(fn, m, l, x) : l \in FirstDegree(m, x)..top}
<1>1. MMAX \in Nat /\ \A m \in M : m \in 0..MMAX /\ m \in Nat
  BY JobFacts
<1>2. ASSUME NEW m \in M, NEW l
      PROVE  Counted(RawTerms(fn, m, l, x)) =
               IF l < FirstDegree(m, x) THEN {} ELSE TrueTerms(fn, m, l, x)
  <2>1. m \in Nat
    BY <1>1
  <2> QED BY <2>1, TermsOf DEF RawTerms, TrueTerms
<1>3. \A m \in M : m * MRES \in Nat /\ FirstDegree(m, x) \in Nat /\ FirstDegree(m, x) >= m * MRES
  BY <1>1, FirstFacts, OrderFacts
<1>4. ASSUME NEW t, t \in Counted(S) PROVE \E m \in M : t \in R(m)
  <2>1. t \in S /\ t.f # "0"
    BY <1>4 DEF Counted
  <2>2. PICK m \in M : \E l \in (m * MRES)..top : t \in RawTerms(fn, m, l, x)
    BY <2>1
  <2>3. PICK l \in (m * MRES)..top : t \in RawTerms(fn, m, l, x)
    BY <2>2
  <2>4. t \in Counted(RawTerms(fn, m, l, x))
    BY <2>1, <2>3 DEF Counted
  <2>5. ~(l < FirstDegree(m, x)) /\ t \in TrueTerms(fn, m, l, x)
    BY <1>2, <2>4
  <2>6. l \in FirstDegree(m, x)..top
    BY <1>3, <2>5
  <2> QED BY <2>5, <2>6
<1>5. ASSUME NEW m \in M, NEW t \in R(m) PROVE t \in Counted(S)
  <2>1. PICK l \in FirstDegree(m, x)..top : t \in TrueTerms(fn, m, l, x)
    BY <1>5
  <2>2. ~(l < FirstDegree(m, x)) /\ l \in (m * MRES)..top
    BY <1>3
  <2>3. t \in Counted(RawTerms(fn, m, l, x))
    BY <1>2, <2>1, <2>2
  <2>4. t \in RawTerms(fn, m, l, x) /\ t.f # "0"
    BY <2>3 DEF Counted
  <2>5. t \in S
    BY <2>2, <2>4
  <2> QED BY <2>4, <2>5 DEF Counted
<1> HIDE DEF R
<1>6. \A t : t \in Counted(S) <=> \E m \in M : t \in R(m)
  BY <1>4, <1>5
<1>7. Counted(S) = UNION {R(m) : m \in M}
  BY <1>6
<1> QED BY <1>7 DEF R

(* The orders of a field and its last degree. *)
Top == IF call.fn \in ToLat THEN Least(call.ltr, LMAX) ELSE LMAX
OrdersOf ==
  {m \in 0..MMAX : /\ m * MRES <= Top
                   /\ call.fn \in ToLat => m <= call.mtr /\ 2 * m * MRES < call.nphi}

(* FieldTerms, with names for its parts. *)
LEMMA FieldIs ==
  FieldTerms =
    UNION {UNION {TrueTerms(call.fn, m, l, call.x) : l \in FirstDegree(m, call.x)..Top} : m \in OrdersOf}
BY DEF FieldTerms, TrueTerms, TrueAt, TermAt, CompsOf, OrdersOf, Top

(* The loop over pairs of degrees, with the odd one at the end, takes all of them. *)
LEMMA PointDegreesAre ==
  ASSUME job \in Jobs, NEW m \in 0..MMAX
  PROVE  PointDegrees(m) = (m * MRES)..LMAX
<1> DEFINE k == m * MRES
           Two == {l \in k..(LMAX - 1) : (l - k) % 2 = 0}
<1>1. LMAX \in Nat /\ k \in 0..LMAX
  BY JobFacts, OrderFacts
<1>2. PointDegrees(m) = IF call.fn # "SH_to_point" THEN k..LMAX
        ELSE Two \cup {l + 1 : l \in Two} \cup (IF (LMAX - k) % 2 = 0 THEN {LMAX} ELSE {})
  BY DEF PointDegrees
<1> HIDE DEF k
<1>3. Two \cup {l + 1 : l \in Two} \cup (IF (LMAX - k) % 2 = 0 THEN {LMAX} ELSE {}) \subseteq k..LMAX
  BY <1>1
<1>4. ASSUME NEW d \in k..LMAX
      PROVE  d \in Two \cup {l + 1 : l \in Two} \cup (IF (LMAX - k) % 2 = 0 THEN {LMAX} ELSE {})
  <2>1. CASE (d - k) % 2 = 0
    BY <1>1, <2>1
  <2>2. CASE (d - k) % 2 # 0
    <3> DEFINE n == d - k
    <3>1. n \in Nat /\ n % 2 # 0 /\ n >= 1 /\ d = n + k
      BY <1>1, <2>2
    <3> HIDE DEF n
    <3>2. (n - 1) % 2 = 0
      BY <3>1
    <3>3. d - 1 \in Two /\ d = (d - 1) + 1
      BY <1>1, <3>1, <3>2
    <3> QED BY <3>3
  <2> QED BY <2>1, <2>2
<1>5. Two \cup {l + 1 : l \in Two} \cup (IF (LMAX - k) % 2 = 0 THEN {LMAX} ELSE {}) = k..LMAX
  BY <1>3, <1>4
<1> QED BY <1>2, <1>5 DEF k

(* The two arrays for an order and a latitude. *)
LEMMA ArraysAre ==
  ASSUME job \in Jobs, NEW m \in 0..MMAX, NEW x, NEW lmax,
         NEW fn \in Fields, fn # "SH_to_point", NEW l \in (m * MRES)..lmax
  PROVE  /\ legendre_sphPlm_deriv_array(lmax, m, x).y[l] = Val(fn, m, l, x, "y")
         /\ legendre_sphPlm_deriv_array(lmax, m, x).dy[l] = Val(fn, m, l, x, "dy")
<1>1. Kind(fn, m) = IF m = 0 THEN "Y" ELSE "Ys"
  BY DEF Kind
<1> DEFINE A == SphPlm(IF m = 0 THEN "Y" ELSE "Ys", lmax, m, x)
           B == SphPlm("dY", lmax, m, x)
<1>2. A[l] = Stored(Kind(fn, m), m, l, x)
  BY <1>1, SphPlmAt
<1>3. B[l] = Stored("dY", m, l, x)
  BY SphPlmAt
<1>4. legendre_sphPlm_deriv_array(lmax, m, x) = [y |-> A, dy |-> B]
  BY DEF legendre_sphPlm_deriv_array
<1> HIDE DEF A, B
<1>5. legendre_sphPlm_deriv_array(lmax, m, x).y = A /\ legendre_sphPlm_deriv_array(lmax, m, x).dy = B
  BY <1>4
<1> QED BY <1>2, <1>3, <1>5 DEF Val

PointArrays(m) ==
  IF call.fn = "SH_to_point" THEN [y |-> legendre_sphPlm_array(LMAX, m, call.x)]
  ELSE legendre_sphPlm_deriv_array(LMAX, m, call.x)
PointTerms(m) ==
  {Term(s, m * MRES, PointArrays(m)[s[3]][l], Coef(LiM(0, m) + l)) : s \in Sums(call.fn, m), l \in PointDegrees(m)}

(* A sum uses one of the two arrays; the one of SH_to_point the first. *)
LEMMA ArraysUsed ==
  ASSUME NEW fn \in Fields, NEW m, NEW s \in Sums(fn, m)
  PROVE  s[3] \in {"y", "dy"} /\ (fn = "SH_to_point" => s[3] = "y")
<1>1. CASE fn = "SH_to_lat"
  BY <1>1 DEF Sums
<1>2. CASE fn = "SH_to_point"
  <2>1. Sums(fn, m) = {<<"r", "1", "y", "Q">>}
    BY <1>2 DEF Sums
  <2> QED BY <2>1
<1>3. CASE fn = "SH_to_grad_point"
  BY <1>3 DEF Sums
<1>4. CASE fn \in {"SHqst_to_lat", "SHqst_to_point"}
  BY <1>4 DEF Sums
<1> QED BY <1>1, <1>2, <1>3, <1>4 DEF Fields, ToLat, ToPoint

(* The terms of one order at a point. *)
LEMMA PointTermsAre ==
  ASSUME job \in Jobs, call \in CallType, call.fn \in ToPoint, NEW m \in 0..MMAX, NEW t
  PROVE  t \in PointTerms(m) <=> \E l \in (m * MRES)..LMAX : t \in RawTerms(call.fn, m, l, call.x)
<1> DEFINE F == call.fn
           x == call.x
<1>1. F \in Fields
  BY DEF Fields
<1>2. ASSUME NEW s \in Sums(F, m), NEW l \in (m * MRES)..LMAX
      PROVE  /\ PointArrays(m)[s[3]][l] = Val(F, m, l, x, s[3])
             /\ Coef(LiM(0, m) + l) = <<l, m>>
  <2>1. LiM(0, m) + l = LiM(l, m)
    <3>1. Base(m) \in Int /\ l \in Int
      BY JobFacts, OrderFacts, BaseTwice
    <3> QED BY <3>1, LiMIs
  <2>2. CASE F = "SH_to_point"
    <3>1. PointArrays(m) = [y |-> SphPlm("Y", LMAX, m, x)]
      BY <2>2 DEF PointArrays, legendre_sphPlm_array
    <3> DEFINE A == SphPlm("Y", LMAX, m, x)
    <3>2. A[l] = Stored("Y", m, l, x)
      BY SphPlmAt
    <3> HIDE DEF A
    <3>3. s[3] = "y" /\ PointArrays(m)["y"] = A
      BY <1>1, <2>2, <3>1, ArraysUsed DEF A
    <3>4. Val(F, m, l, x, "y") = Stored("Y", m, l, x)
      BY <2>2 DEF Val, Kind
    <3> QED BY <2>1, <3>2, <3>3, <3>4, CoefIs
  <2>3. CASE F # "SH_to_point"
    <3> DEFINE B == legendre_sphPlm_deriv_array(LMAX, m, x)
    <3>1. PointArrays(m) = B
      BY <2>3 DEF PointArrays
    <3>2. B.y[l] = Val(F, m, l, x, "y") /\ B.dy[l] = Val(F, m, l, x, "dy")
      <4> HIDE DEF F
      <4> QED BY <1>1, <2>3, ArraysAre
    <3> HIDE DEF B
    <3>3. s[3] \in {"y", "dy"}
      BY <1>1, ArraysUsed
    <3> QED BY <2>1, <3>1, <3>2, <3>3, CoefIs
  <2> QED BY <2>2, <2>3
<1>3. PointDegrees(m) = (m * MRES)..LMAX
  BY PointDegreesAre
<1>4. ASSUME t \in PointTerms(m) PROVE \E l \in (m * MRES)..LMAX : t \in RawTerms(F, m, l, x)
  <2>1. PICK s \in Sums(F, m), l \in (m * MRES)..LMAX :
          t = Term(s, m * MRES, PointArrays(m)[s[3]][l], Coef(LiM(0, m) + l))
    BY <1>3, <1>4 DEF PointTerms
  <2>2. t = Term(s, m * MRES, Val(F, m, l, x, s[3]), <<l, m>>)
    BY <1>2, <2>1
  <2> QED BY <2>2 DEF RawTerms, RawAt
<1>5. ASSUME NEW l \in (m * MRES)..LMAX, t \in RawTerms(F, m, l, x) PROVE t \in PointTerms(m)
  <2>1. PICK s \in Sums(F, m) : t = Term(s, m * MRES, Val(F, m, l, x, s[3]), <<l, m>>)
    BY <1>5 DEF RawTerms, RawAt
  <2>2. t = Term(s, m * MRES, PointArrays(m)[s[3]][l], Coef(LiM(0, m) + l))
    BY <1>2, <2>1
  <2> QED BY <1>3, <2>2 DEF PointTerms
<1> QED BY <1>4, <1>5

(* A call for a point returns the terms of its field. *)
LEMMA PointRight ==
  ASSUME job \in Jobs, call \in CallType, call.fn \in ToPoint
  PROVE  Counted(PointSums) = FieldTerms
<1> DEFINE F == call.fn
           x == call.x
<1>1. F \in Fields /\ x \in Lat /\ F \notin ToLat
  BY DEF Fields, CallType, ToLat, ToPoint
<1>2. LMAX \in Nat /\ MMAX \in Nat
  BY JobFacts
<1>3. OrdersOf = 0..MMAX /\ Top = LMAX
  <2>1. Top = LMAX
    BY <1>1 DEF Top
  <2>2. \A m \in 0..MMAX : m * MRES <= LMAX
    BY OrderFacts
  <2> QED BY <1>1, <2>1, <2>2 DEF OrdersOf
<1>4. PointSums = UNION {PointTerms(m) : m \in 0..MMAX}
  BY DEF PointSums, PointTerms, PointArrays
<1>5. \A t : t \in PointSums <=> \E m \in 0..MMAX : \E l \in (m * MRES)..LMAX : t \in RawTerms(F, m, l, x)
  BY <1>4, PointTermsAre
<1>6. 0..MMAX \in SUBSET (0..MMAX) /\ LMAX \in Int
  BY <1>2
<1> HIDE DEF F, x
<1>7. Counted(PointSums) =
        UNION {UNION {TrueTerms(F, m, l, x) : l \in FirstDegree(m, x)..LMAX} : m \in 0..MMAX}
  BY <1>1, <1>5, <1>6, FieldFound
<1> QED BY <1>3, <1>7, FieldIs DEF F, x
-----------------------------------------------------------------------------
(* The block of Legendre functions.                                        *)

(* The last degree and the last order of a call for a latitude. *)
LtrOf(c) == Least(c.ltr, LMAX)
MtrOf(c) ==
  LET t == Least(Least(c.mtr, MMAX), LtrOf(c) \div MRES)
  IN  IF t * 2 * MRES >= c.nphi THEN (c.nphi - 1) \div (2 * MRES) ELSE t

(* Dividing by a positive number. *)
LEMMA Quotient ==
  ASSUME NEW a \in Nat, NEW b \in Nat \ {0}
  PROVE  a \div b \in Nat /\ \A n \in Nat : n <= a \div b <=> n * b <= a
<1> DEFINE q == a \div b
<1>1. q \in Nat /\ a = b * q + (a % b) /\ a % b \in 0..(b - 1)
  OBVIOUS
<1> HIDE DEF q
<1> SUFFICES ASSUME NEW n \in Nat PROVE n <= q <=> n * b <= a
  BY <1>1 DEF q
<1>2. CASE n <= q
  <2> DEFINE d == q - n
  <2>1. d \in Nat /\ q = n + d
    BY <1>1, <1>2
  <2> HIDE DEF d
  <2>2. b * q = n * b + b * d /\ b * d \in Nat /\ n * b \in Nat
    BY <2>1
  <2> QED BY <1>1, <1>2, <2>2
<1>3. CASE n > q
  <2> DEFINE d == n - q - 1
  <2>1. d \in Nat /\ n = q + 1 + d
    BY <1>1, <1>3
  <2> HIDE DEF d
  <2>2. n * b = b * q + b + b * d /\ b * d \in Nat /\ b * q \in Nat
    BY <1>1, <2>1
  <2> QED BY <1>1, <1>3, <2>2
<1> QED BY <1>1, <1>2, <1>3

(* Which orders a call takes: those with a degree, up to mtr, below half the longitudes. *)
LEMMA TruncFacts ==
  ASSUME job \in Jobs, NEW c \in CallType
  PROVE  /\ LtrOf(c) \in 0..LMAX /\ MtrOf(c) \in 0..MMAX
         /\ \A m \in 0..MMAX : m <= MtrOf(c) <=> m * MRES <= LtrOf(c) /\ m <= c.mtr /\ 2 * m * MRES < c.nphi
<1> DEFINE lt == LtrOf(c)
           r2 == 2 * MRES
           q == lt \div MRES
           t == Least(Least(c.mtr, MMAX), q)
           p == c.nphi - 1
           h == p \div r2
<1>1. LMAX \in Nat /\ MMAX \in Nat /\ MRES \in Nat \ {0} /\ MMAX * MRES <= LMAX /\ r2 \in Nat \ {0}
  BY JobFacts
<1>2. c.ltr \in Nat /\ c.mtr \in Nat /\ c.nphi \in Nat \ {0} /\ p \in Nat /\ c.nphi = p + 1
  BY DEF CallType
<1>3. lt \in 0..LMAX
  BY <1>1, <1>2 DEF LtrOf, Least
<1> HIDE DEF lt
<1>4. q \in Nat /\ \A n \in Nat : n <= q <=> n * MRES <= lt
  BY <1>1, <1>3, Quotient
<1> HIDE DEF r2, p
<1>5. h \in Nat /\ \A n \in Nat : n <= h <=> n * r2 <= p
  BY <1>1, <1>2, Quotient
<1> HIDE DEF q, h
<1>6. t \in Nat /\ \A n \in Nat : n <= t <=> n <= c.mtr /\ n <= MMAX /\ n <= q
  BY <1>1, <1>2, <1>4 DEF Least
<1> HIDE DEF t
<1>7. MtrOf(c) = IF t * 2 * MRES >= c.nphi THEN h ELSE t
  BY DEF MtrOf, t, q, h, p, r2, lt
<1>8. \A n \in Nat : n * 2 * MRES = n * r2 /\ 2 * n * MRES = n * r2 /\ n * r2 \in Nat
  BY <1>1 DEF r2
<1>9. \A n \in Nat : n <= MtrOf(c) <=> n <= t /\ n <= h
  <2>1. CASE t * r2 >= c.nphi
    <3>1. ~(t <= h)
      <4>1. ~(t * r2 <= p) /\ t * r2 \in Nat
        BY <1>2, <1>6, <1>8, <2>1
      <4> QED BY <1>5, <1>6, <4>1
    <3> QED BY <1>5, <1>6, <1>7, <1>8, <2>1, <3>1
  <2>2. CASE ~(t * r2 >= c.nphi)
    <3>1. t <= h
      <4>1. t * r2 <= p
        BY <1>2, <1>6, <1>8, <2>2
      <4> QED BY <1>5, <1>6, <4>1
    <3> QED BY <1>5, <1>6, <1>7, <1>8, <2>2, <3>1
  <2> QED BY <2>1, <2>2
<1>10. MtrOf(c) \in Nat /\ MtrOf(c) <= MMAX
  <2>1. MtrOf(c) \in Nat
    BY <1>5, <1>6, <1>7
  <2> QED BY <1>6, <1>9, <2>1
<1>11. \A m \in 0..MMAX : m <= MtrOf(c) <=> m * MRES <= lt /\ m <= c.mtr /\ 2 * m * MRES < c.nphi
  <2> SUFFICES ASSUME NEW m \in 0..MMAX
               PROVE  m <= MtrOf(c) <=> m * MRES <= lt /\ m <= c.mtr /\ 2 * m * MRES < c.nphi
    OBVIOUS
  <2>1. m \in Nat /\ m <= MMAX
    BY <1>1
  <2>2. m <= h <=> 2 * m * MRES < c.nphi
    BY <1>2, <1>5, <1>8, <2>1
  <2> QED BY <1>4, <1>6, <1>9, <2>1, <2>2
<1> QED BY <1>1, <1>3, <1>10, <1>11 DEF lt

(* The truncations of a call within another one. *)
LEMMA TruncWithin ==
  ASSUME job \in Jobs, NEW c \in CallType, NEW d \in CallType, Within(d, c)
  PROVE  LtrOf(d) <= LtrOf(c) /\ MtrOf(d) <= MtrOf(c)
<1>1. LMAX \in Nat /\ MMAX \in Nat /\ MRES \in Nat
  BY JobFacts
<1>2. /\ c.ltr \in Nat /\ c.mtr \in Nat /\ c.nphi \in Nat
      /\ d.ltr \in Nat /\ d.mtr \in Nat /\ d.nphi \in Nat
      /\ d.ltr <= c.ltr /\ d.mtr <= c.mtr /\ d.nphi <= c.nphi
  BY DEF CallType, Within
<1>3. LtrOf(d) <= LtrOf(c)
  BY <1>1, <1>2 DEF LtrOf, Least
<1> DEFINE m == MtrOf(d)
<1>4. /\ LtrOf(c) \in 0..LMAX /\ LtrOf(d) \in 0..LMAX /\ m \in 0..MMAX
      /\ m <= m => m * MRES <= LtrOf(d) /\ m <= d.mtr /\ 2 * m * MRES < d.nphi
      /\ m <= MtrOf(c) <=> m * MRES <= LtrOf(c) /\ m <= c.mtr /\ 2 * m * MRES < c.nphi
  BY TruncFacts
<1> HIDE DEF m
<1>5. m \in Nat /\ m * MRES \in Nat /\ 2 * m * MRES \in Nat
  BY <1>1, <1>4
<1>6. m <= MtrOf(c)
  BY <1>1, <1>2, <1>3, <1>4, <1>5
<1> QED BY <1>3, <1>6 DEF m

(* Where the loops that fill the block and those of the sums count an order. *)
LEMMA SpotsAre ==
  ASSUME job \in Jobs, NEW m \in 0..MMAX, NEW l \in Int, call.ltr \in Nat
  PROVE  FillAt(m) + l - m * MRES = LiM(l, m) /\ SumAt(m) = FillAt(m)
<1> DEFINE b == Base(m)
           k == m * MRES
           n == m * (LMAX + 1)
           w == MRES * m * (m - 1)
           z == n - b - k
<1>1. LMAX \in Nat /\ MRES \in Nat /\ m \in Nat /\ k \in Nat /\ n \in Nat /\ ltr \in Int
  BY JobFacts, OrderFacts DEF ltr, Least
<1>2. b \in Int /\ 2 * b = m * (2 * LMAX + 2 - (m + 1) * MRES)
  BY <1>1, BaseTwice
<1>3. m * (2 * LMAX + 2 - (m + 1) * MRES) = 2 * n - w - 2 * k
  BY <1>1
<1>4. w \in Int
  BY <1>1
<1>5. FillAt(m) = n - (w \div 2)
  BY DEF FillAt
<1>6. SumAt(m) = m * (ltr + 1) - (w \div 2) + m * (LMAX - ltr)
  BY DEF SumAt
<1>7. LiM(l, m) = b + l
  BY LiMIs
<1>8. m * (ltr + 1) \in Int /\ m * (LMAX - ltr) \in Int /\ m * (ltr + 1) + m * (LMAX - ltr) = n
  BY <1>1
<1> HIDE DEF b, k, n, w
<1>9. z \in Int /\ w = 2 * z
  BY <1>1, <1>2, <1>3, <1>4
<1> HIDE DEF z
<1>10. w \div 2 = z
  BY <1>9
<1> HIDE DEF ltr
<1>11. FillAt(m) + l - k = b + l
  BY <1>1, <1>2, <1>5, <1>9, <1>10 DEF z
<1>12. SumAt(m) = n - z
  BY <1>1, <1>6, <1>8, <1>9, <1>10
<1>13. SumAt(m) = FillAt(m)
  BY <1>5, <1>10, <1>12
<1> QED BY <1>7, <1>11, <1>13 DEF k

(* A block has the Legendre functions a call needs. *)
Holds(block, c) ==
  \A m \in 0..MtrOf(c) : \A l \in (m * MRES)..LtrOf(c) :
    /\ block[LiM(l, m)] = Val("SH_to_lat", m, l, c.x, "y")
    /\ block[NLM + LiM(l, m)] = Val("SH_to_lat", m, l, c.x, "dy")

(* A block for one call has what another one within it needs, at the same latitude. *)
LEMMA HoldsWithin ==
  ASSUME job \in Jobs, NEW c \in CallType, NEW d \in CallType, Within(d, c), d.x = c.x,
         NEW block, Holds(block, c)
  PROVE  Holds(block, d)
<1>1. LtrOf(d) <= LtrOf(c) /\ MtrOf(d) <= MtrOf(c)
  BY TruncWithin
<1>2. /\ LtrOf(c) \in 0..LMAX /\ MtrOf(c) \in 0..MMAX
      /\ LtrOf(d) \in 0..LMAX /\ MtrOf(d) \in 0..MMAX /\ LMAX \in Nat /\ MMAX \in Nat
  BY TruncFacts, JobFacts
<1> SUFFICES ASSUME NEW m \in 0..MtrOf(d), NEW l \in (m * MRES)..LtrOf(d)
             PROVE  /\ block[LiM(l, m)] = Val("SH_to_lat", m, l, d.x, "y")
                    /\ block[NLM + LiM(l, m)] = Val("SH_to_lat", m, l, d.x, "dy")
  BY DEF Holds
<1>3. m \in 0..MtrOf(c) /\ m \in 0..MMAX
  BY <1>1, <1>2
<1>4. m * MRES \in Nat
  BY <1>3, OrderFacts
<1>5. l \in (m * MRES)..LtrOf(c)
  BY <1>1, <1>2, <1>4
<1> QED BY <1>3, <1>5 DEF Holds

(* What is written over is the new value. *)
LEMMA OverwriteAt ==
  ASSUME NEW old, NEW new, NEW o, NEW v, <<o, v>> \in new, \A z \in new : z[1] = o => z[2] = v
  PROVE  Overwrite(old, new)[o] = v
<1>1. o \in DOMAIN old \cup {z[1] : z \in new}
  OBVIOUS
<1>2. \E z \in new : z[1] = o
  OBVIOUS
<1>3. (CHOOSE z \in new : z[1] = o)[2] = v
  <2> DEFINE z == CHOOSE u \in new : u[1] = o
  <2>1. z \in new /\ z[1] = o
    BY <1>2
  <2> HIDE DEF z
  <2>2. z[2] = v
    BY <2>1
  <2> QED BY <2>2 DEF z
<1>4. Overwrite(old, new)[o] = (CHOOSE z \in new : z[1] = o)[2]
  BY <1>1, <1>2 DEF Overwrite
<1> QED BY <1>3, <1>4

(* What the loops that fill the block write for one order. *)
FilledOf(m) ==
  LET a == legendre_sphPlm_deriv_array(ltr, m, call.x)
  IN  {<<FillAt(m) + l - m * MRES, a.y[l]>> : l \in Degrees(m)}
        \cup {<<NLM + FillAt(m) + l - m * MRES, a.dy[l]>> : l \in Degrees(m)}
Lower(m, l) == <<LiM(l, m), Val("SH_to_lat", m, l, call.x, "y")>>
Upper(m, l) == <<NLM + LiM(l, m), Val("SH_to_lat", m, l, call.x, "dy")>>

(* The truncations of the call. *)
LEMMA CallTrunc ==
  ASSUME job \in Jobs, call \in CallType
  PROVE  /\ ltr = LtrOf(call) /\ mtr = MtrOf(call) /\ ltr \in 0..LMAX /\ mtr \in 0..MMAX
         /\ call.ltr \in Nat /\ call.x \in Lat
         /\ \A m \in 0..mtr : m \in 0..MMAX /\ m * MRES \in Nat
         /\ \A m : \A l \in Degrees(m) : l \in (m * MRES)..ltr
         /\ \A m \in 0..mtr : \A l \in Degrees(m) : l \in (m * MRES)..LMAX /\ l \in Int
<1>1. ltr = LtrOf(call) /\ mtr = MtrOf(call)
  BY DEF ltr, mtr, LtrOf, MtrOf
<1>2. ltr \in 0..LMAX /\ mtr \in 0..MMAX /\ LMAX \in Nat /\ MMAX \in Nat
  BY <1>1, TruncFacts, JobFacts
<1>3. ASSUME NEW m \in 0..mtr PROVE m \in 0..MMAX /\ m * MRES \in Nat
  <2>1. m \in 0..MMAX
    BY <1>2
  <2> QED BY <2>1, OrderFacts
<1>4. \A m : \A l \in Degrees(m) : l \in (m * MRES)..ltr
  BY DEF Degrees
<1>5. ASSUME NEW m \in 0..mtr, NEW l \in Degrees(m) PROVE l \in (m * MRES)..LMAX /\ l \in Int
  <2> DEFINE k == m * MRES
  <2>1. k \in Nat /\ l \in k..ltr
    BY <1>3, <1>4
  <2> HIDE DEF k
  <2>2. l \in k..LMAX /\ l \in Int
    BY <1>2, <2>1
  <2> QED BY <2>2 DEF k
<1>6. call.ltr \in Nat /\ call.x \in Lat
  BY DEF CallType
<1> QED BY <1>1, <1>2, <1>3, <1>4, <1>5, <1>6

(* The new contents, place by place. *)
LEMMA FilledOfIs ==
  ASSUME job \in Jobs, call \in CallType, NEW m \in 0..mtr, NEW z
  PROVE  z \in FilledOf(m) <=> \E l \in Degrees(m) : z = Lower(m, l) \/ z = Upper(m, l)
<1> DEFINE a == legendre_sphPlm_deriv_array(ltr, m, call.x)
           k == m * MRES
<1>1. m \in 0..MMAX /\ call.ltr \in Nat
  BY CallTrunc
<1>2. \A l \in Degrees(m) : FillAt(m) + l - k = LiM(l, m)
  BY <1>1, CallTrunc, SpotsAre
<1>3. ASSUME NEW l \in Degrees(m) PROVE NLM + FillAt(m) + l - k = NLM + LiM(l, m)
  <2>1. FillAt(m) \in Int
    <3>1. LMAX \in Nat /\ MRES \in Nat /\ m \in Nat
      BY <1>1, JobFacts
    <3> DEFINE w == MRES * m * (m - 1)
               n == m * (LMAX + 1)
    <3>2. w \in Int /\ n \in Int
      BY <3>1
    <3>3. FillAt(m) = n - (w \div 2)
      BY DEF FillAt
    <3> HIDE DEF w, n
    <3> QED BY <3>2, <3>3
  <2>2. l \in (m * MRES)..LMAX /\ l \in Int /\ k \in Nat
    BY CallTrunc
  <2>3. NLM \in Int
    BY <1>1, <2>2, PlaceFacts
  <2>4. FillAt(m) + l - k = LiM(l, m)
    BY <1>2
  <2> HIDE DEF k
  <2> QED BY <2>1, <2>2, <2>3, <2>4
<1>4. \A l \in Degrees(m) :
        a.y[l] = Val("SH_to_lat", m, l, call.x, "y") /\ a.dy[l] = Val("SH_to_lat", m, l, call.x, "dy")
  <2> SUFFICES ASSUME NEW l \in Degrees(m)
               PROVE  /\ a.y[l] = Val("SH_to_lat", m, l, call.x, "y")
                      /\ a.dy[l] = Val("SH_to_lat", m, l, call.x, "dy")
    OBVIOUS
  <2> DEFINE fn == "SH_to_lat"
             x == call.x
  <2>1. fn \in Fields /\ fn # "SH_to_point"
    BY DEF Fields, ToLat
  <2>2. l \in (m * MRES)..ltr
    BY CallTrunc
  <2> HIDE DEF fn, x
  <2>3. /\ legendre_sphPlm_deriv_array(ltr, m, x).y[l] = Val(fn, m, l, x, "y")
        /\ legendre_sphPlm_deriv_array(ltr, m, x).dy[l] = Val(fn, m, l, x, "dy")
    BY <1>1, <2>1, <2>2, ArraysAre
  <2> QED BY <2>3 DEF fn, x
<1> HIDE DEF a
<1>5. \A l \in Degrees(m) : Lower(m, l) = <<FillAt(m) + l - k, a.y[l]>>
  BY <1>2, <1>4 DEF Lower
<1>6. \A l \in Degrees(m) : Upper(m, l) = <<NLM + FillAt(m) + l - k, a.dy[l]>>
  BY <1>3, <1>4 DEF Upper
<1>7. FilledOf(m) = {<<FillAt(m) + l - k, a.y[l]>> : l \in Degrees(m)}
        \cup {<<NLM + FillAt(m) + l - k, a.dy[l]>> : l \in Degrees(m)}
  BY DEF FilledOf, a
<1> HIDE DEF k
<1>8. z \in FilledOf(m) <=>
        \E l \in Degrees(m) :
          z = <<FillAt(m) + l - k, a.y[l]>> \/ z = <<NLM + FillAt(m) + l - k, a.dy[l]>>
  BY <1>7
<1> QED BY <1>5, <1>6, <1>8

(* Filling gives a call what it needs, and writes within the block. *)
LEMMA FillHolds ==
  ASSUME job \in Jobs, call \in CallType, NEW old, DOMAIN old = 0..(2 * NLM - 1)
  PROVE  /\ Holds(Overwrite(old, Filled), call)
         /\ DOMAIN Overwrite(old, Filled) = 0..(2 * NLM - 1)
<1>1. Filled = UNION {FilledOf(m) : m \in 0..mtr}
  BY DEF Filled, FilledOf
<1>2. \A z : z \in Filled <=>
        \E m \in 0..mtr : \E l \in Degrees(m) : z = Lower(m, l) \/ z = Upper(m, l)
  BY <1>1, FilledOfIs
<1> HIDE DEF Filled
<1>3. ASSUME NEW m \in 0..mtr, NEW l \in Degrees(m)
      PROVE  /\ LiM(l, m) \in 0..(NLM - 1) /\ NLM \in Nat \ {0}
             /\ m \in 0..MMAX /\ l \in (m * MRES)..LMAX
  <2>1. m \in 0..MMAX /\ l \in (m * MRES)..LMAX
    BY CallTrunc
  <2> QED BY <2>1, PlaceFacts
<1>4. ASSUME NEW m \in 0..mtr, NEW l \in Degrees(m), NEW n \in 0..mtr, NEW d \in Degrees(n),
             LiM(l, m) = LiM(d, n)
      PROVE  m = n /\ l = d
  <2>1. /\ m \in 0..MMAX /\ l \in (m * MRES)..LMAX
        /\ n \in 0..MMAX /\ d \in (n * MRES)..LMAX
    BY CallTrunc
  <2> QED BY <1>4, <2>1, PlaceApart
<1>5. ASSUME NEW m \in 0..mtr, NEW l \in Degrees(m)
      PROVE  /\ Overwrite(old, Filled)[LiM(l, m)] = Val("SH_to_lat", m, l, call.x, "y")
             /\ Overwrite(old, Filled)[NLM + LiM(l, m)] = Val("SH_to_lat", m, l, call.x, "dy")
  <2> DEFINE o == LiM(l, m)
             y == Val("SH_to_lat", m, l, call.x, "y")
             e == Val("SH_to_lat", m, l, call.x, "dy")
             u == NLM + o
  <2>1. <<o, y>> \in Filled /\ <<u, e>> \in Filled
    BY <1>2 DEF Lower, Upper
  <2>2. ASSUME NEW z \in Filled, z[1] = o PROVE z[2] = y
    <3>1. PICK n \in 0..mtr : \E d \in Degrees(n) : z = Lower(n, d) \/ z = Upper(n, d)
      BY <1>2, <2>2
    <3>2. PICK d \in Degrees(n) : z = Lower(n, d) \/ z = Upper(n, d)
      BY <3>1
    <3>3. z # Upper(n, d)
      <4>1. NLM + LiM(d, n) # o
        BY <1>3
      <4> QED BY <2>2, <4>1 DEF Upper
    <3>4. z = Lower(n, d)
      BY <3>2, <3>3
    <3>5. m = n /\ l = d
      BY <1>4, <2>2, <3>4 DEF Lower
    <3> QED BY <3>4, <3>5 DEF Lower
  <2>3. ASSUME NEW z \in Filled, z[1] = u PROVE z[2] = e
    <3>1. PICK n \in 0..mtr : \E d \in Degrees(n) : z = Lower(n, d) \/ z = Upper(n, d)
      BY <1>2, <2>3
    <3>2. PICK d \in Degrees(n) : z = Lower(n, d) \/ z = Upper(n, d)
      BY <3>1
    <3>3. z # Lower(n, d)
      <4>1. LiM(d, n) # u
        BY <1>3
      <4> QED BY <2>3, <4>1 DEF Lower
    <3>4. z = Upper(n, d)
      BY <3>2, <3>3
    <3>5. NLM + LiM(d, n) = NLM + LiM(l, m)
      BY <2>3, <3>4 DEF Upper
    <3>6. LiM(d, n) \in 0..(NLM - 1) /\ LiM(l, m) \in 0..(NLM - 1) /\ NLM \in Nat \ {0}
      BY <1>3
    <3>7. LiM(l, m) = LiM(d, n)
      BY <3>5, <3>6
    <3>8. m = n /\ l = d
      BY <1>4, <3>7
    <3> QED BY <3>4, <3>8 DEF Upper
  <2> HIDE DEF o, y, e, u
  <2>4. Overwrite(old, Filled)[o] = y
    BY <2>1, <2>2, OverwriteAt
  <2>5. Overwrite(old, Filled)[u] = e
    BY <2>1, <2>3, OverwriteAt
  <2> QED BY <2>4, <2>5 DEF o, y, e, u
<1>6. Holds(Overwrite(old, Filled), call)
  <2>1. ltr = LtrOf(call) /\ mtr = MtrOf(call)
    BY CallTrunc
  <2>2. \A m : Degrees(m) = (m * MRES)..LtrOf(call)
    BY <2>1 DEF Degrees
  <2> QED BY <1>5, <2>1, <2>2 DEF Holds
<1>7. DOMAIN Overwrite(old, Filled) = 0..(2 * NLM - 1)
  <2>1. DOMAIN Overwrite(old, Filled) = DOMAIN old \cup {z[1] : z \in Filled}
    BY DEF Overwrite
  <2>2. ASSUME NEW z \in Filled PROVE z[1] \in 0..(2 * NLM - 1)
    <3>1. PICK m \in 0..mtr : \E l \in Degrees(m) : z = Lower(m, l) \/ z = Upper(m, l)
      BY <1>2
    <3>2. PICK l \in Degrees(m) : z = Lower(m, l) \/ z = Upper(m, l)
      BY <3>1
    <3>3. LiM(l, m) \in 0..(NLM - 1) /\ NLM \in Nat \ {0}
      BY <1>3
    <3>4. z[1] = LiM(l, m) \/ z[1] = NLM + LiM(l, m)
      BY <3>2 DEF Lower, Upper
    <3> QED BY <3>3, <3>4
  <2> QED BY <2>1, <2>2
<1> QED BY <1>6, <1>7

LatTerms(block, m, l) ==
  LET j == SumAt(m) + l - m * MRES
  IN  {Term(s, m * MRES, block[IF s[3] = "y" THEN j ELSE NLM + j], Coef(j)) : s \in Sums(call.fn, m)}

(* With a block that has what the call needs, the sums are the field. *)
LEMMA LatRight ==
  ASSUME job \in Jobs, call \in CallType, call.fn \in ToLat, NEW block, Holds(block, call)
  PROVE  Counted(LatSums(block)) = FieldTerms
<1> DEFINE F == call.fn
           x == call.x
<1>1. F \in Fields /\ x \in Lat
  BY CallTrunc DEF Fields
<1>2. ASSUME NEW m \in 0..mtr, NEW l \in Degrees(m)
      PROVE  LatTerms(block, m, l) = RawTerms(F, m, l, x)
  <2> DEFINE j == SumAt(m) + l - m * MRES
  <2>1. m \in 0..MMAX /\ l \in (m * MRES)..LMAX /\ l \in Int /\ call.ltr \in Nat
    BY CallTrunc
  <2>2. j = LiM(l, m)
    BY <2>1, SpotsAre
  <2>3. Coef(j) = <<l, m>>
    BY <2>1, <2>2, CoefIs
  <2>4. m \in 0..MtrOf(call) /\ l \in (m * MRES)..LtrOf(call)
    BY CallTrunc
  <2>5. /\ block[j] = Val("SH_to_lat", m, l, x, "y")
        /\ block[NLM + j] = Val("SH_to_lat", m, l, x, "dy")
    BY <2>2, <2>4 DEF Holds
  <2>6. \A a : Val("SH_to_lat", m, l, x, a) = Val(F, m, l, x, a)
    <3>1. Kind("SH_to_lat", m) = Kind(F, m)
      BY DEF Kind, ToLat
    <3> QED BY <3>1 DEF Val
  <2> HIDE DEF j
  <2>7. \A s \in Sums(F, m) : block[IF s[3] = "y" THEN j ELSE NLM + j] = Val(F, m, l, x, s[3])
    <3> SUFFICES ASSUME NEW s \in Sums(F, m)
                 PROVE  block[IF s[3] = "y" THEN j ELSE NLM + j] = Val(F, m, l, x, s[3])
      OBVIOUS
    <3>1. s[3] \in {"y", "dy"}
      BY <1>1, ArraysUsed
    <3> QED BY <2>5, <2>6, <3>1
  <2>8. LatTerms(block, m, l) =
          {Term(s, m * MRES, block[IF s[3] = "y" THEN j ELSE NLM + j], Coef(j)) : s \in Sums(F, m)}
    BY DEF LatTerms, j
  <2> DEFINE o == m * MRES
  <2>9. RawTerms(F, m, l, x) = {Term(s, o, Val(F, m, l, x, s[3]), <<l, m>>) : s \in Sums(F, m)}
    BY DEF RawTerms, RawAt
  <2> HIDE DEF o, F, x
  <2> QED BY <2>3, <2>7, <2>8, <2>9 DEF o
<1>3. LatSums(block) = UNION {UNION {LatTerms(block, m, l) : l \in Degrees(m)} : m \in 0..mtr}
  BY DEF LatSums, LatTerms
<1> HIDE DEF F, x
<1>4. \A t : t \in LatSums(block) <=>
        \E m \in 0..mtr : \E l \in (m * MRES)..ltr : t \in RawTerms(F, m, l, x)
  <2>1. \A t : t \in LatSums(block) <=> \E m \in 0..mtr : \E l \in Degrees(m) : t \in LatTerms(block, m, l)
    BY <1>3
  <2>2. \A m : Degrees(m) = (m * MRES)..ltr
    BY DEF Degrees
  <2> TAKE t
  <2>3. ASSUME NEW m \in 0..mtr, NEW l \in Degrees(m)
        PROVE  l \in (m * MRES)..ltr /\ (t \in LatTerms(block, m, l) <=> t \in RawTerms(F, m, l, x))
    BY <1>2, <2>2
  <2>4. ASSUME t \in LatSums(block)
        PROVE  \E m \in 0..mtr : \E l \in (m * MRES)..ltr : t \in RawTerms(F, m, l, x)
    <3>1. PICK m \in 0..mtr : \E l \in Degrees(m) : t \in LatTerms(block, m, l)
      BY <2>1, <2>4
    <3>2. PICK l \in Degrees(m) : t \in LatTerms(block, m, l)
      BY <3>1
    <3> QED BY <2>3, <3>2
  <2>5. ASSUME NEW m \in 0..mtr, NEW l \in (m * MRES)..ltr, t \in RawTerms(F, m, l, x)
        PROVE  t \in LatSums(block)
    <3>1. l \in Degrees(m)
      BY <2>2
    <3> QED BY <2>1, <2>3, <2>5, <3>1
  <2> QED BY <2>4, <2>5
<1>5. 0..mtr \in SUBSET (0..MMAX) /\ ltr \in Int
  BY CallTrunc
<1>6. Counted(LatSums(block)) =
        UNION {UNION {TrueTerms(F, m, l, x) : l \in FirstDegree(m, x)..ltr} : m \in 0..mtr}
  <2> DEFINE S == LatSums(block)
             M == 0..mtr
             top == ltr
  <2>1. M \in SUBSET (0..MMAX) /\ top \in Int
    BY <1>5
  <2>2. \A t : t \in S <=> \E m \in M : \E l \in (m * MRES)..top : t \in RawTerms(F, m, l, x)
    BY <1>4
  <2> HIDE DEF S, M, top
  <2>3. Counted(S) = UNION {UNION {TrueTerms(F, m, l, x) : l \in FirstDegree(m, x)..top} : m \in M}
    BY <1>1, <2>1, <2>2, FieldFound, SMTT(20)
  <2> QED BY <2>3 DEF S, M, top
<1>7. Top = ltr
  BY DEF Top, ltr
<1>8. OrdersOf = 0..mtr
  <2>1. ltr = LtrOf(call) /\ mtr = MtrOf(call) /\ mtr \in 0..MMAX /\ MMAX \in Nat
    BY CallTrunc, JobFacts
  <2>2. \A m \in 0..MMAX : m <= mtr <=> m * MRES <= ltr /\ m <= call.mtr /\ 2 * m * MRES < call.nphi
    BY <2>1, TruncFacts
  <2>3. \A m \in 0..MMAX : m \in 0..mtr <=> m <= mtr
    BY <2>1
  <2>4. OrdersOf = {m \in 0..MMAX : m <= mtr}
    BY <1>7, <2>2 DEF OrdersOf
  <2> QED BY <2>1, <2>4
<1> QED BY <1>6, <1>7, <1>8, FieldIs DEF F, x
-----------------------------------------------------------------------------
(* Products with cos(theta) and sin(theta) d/dtheta.                       *)

(* The elements computed for a degree: with the degree below and above. *)
Inv(im, l) == El("inv", im, l + 1)
Up(im, l) == IF job.schmidt THEN El("up", im, l + 2) ELSE Inv(im, l)
RowOf(im) ==
  UNION {LET o == 2 * (LiM(l, im))
             n == l - im * MRES
             up == IF l < LMAX
                   THEN IF alm_im(im) + 2 * (n + 1) = AlmPair(im, l + 2) THEN El("up", im, l + 2) ELSE Wrong
                   ELSE El("up", im, LMAX + 2)
             inv == IF alm_im(im) + 2 * n = AlmPair(im, l + 1) THEN El("inv", im, l + 1) ELSE Wrong
         IN  {<<o + 1, inv>>, <<o, IF job.schmidt THEN up ELSE inv>>} :
           l \in (im * MRES)..LMAX}

(* The elements are computed from the pairs of the recurrence which are their own. *)
LEMMA RowOfIs ==
  ASSUME job \in Jobs, NEW im \in 0..MMAX, NEW z
  PROVE  z \in RowOf(im) <=>
           \E l \in (im * MRES)..LMAX : z = <<2 * LiM(l, im) + 1, Inv(im, l)>> \/ z = <<2 * LiM(l, im), Up(im, l)>>
<1> DEFINE k == im * MRES
           b == Base(im)
           a == alm_im(im)
           up(l) == IF l < LMAX
                    THEN IF a + 2 * (l - k + 1) = AlmPair(im, l + 2) THEN El("up", im, l + 2) ELSE Wrong
                    ELSE El("up", im, LMAX + 2)
           inv(l) == IF a + 2 * (l - k) = AlmPair(im, l + 1) THEN El("inv", im, l + 1) ELSE Wrong
           o(l) == 2 * (LiM(l, im))
<1>1. LMAX \in Nat /\ MRES \in Nat /\ im \in Nat /\ k \in Nat
  BY JobFacts, OrderFacts
<1>2. b \in Int /\ 2 * b = im * (2 * LMAX + 2 - (im + 1) * MRES)
  BY <1>1, BaseTwice
<1>3. a = 2 * b + 2 * k
  BY <1>1, <1>2 DEF alm_im
<1>4. ASSUME NEW d \in Int PROVE AlmPair(im, d) = 2 * b + 2 * (d - 1)
  <2> DEFINE e == d - 1
  <2>1. AlmPair(im, d) = 2 * LiM(e, im)
    BY DEF AlmPair
  <2>2. LiM(e, im) = b + e
    BY LiMIs
  <2> HIDE DEF b
  <2> QED BY <1>2, <2>1, <2>2
<1>5. RowOf(im) = UNION {{<<o(l) + 1, inv(l)>>, <<o(l), IF job.schmidt THEN up(l) ELSE inv(l)>>} : l \in k..LMAX}
  BY DEF RowOf
<1> HIDE DEF k, b, a
<1>6. ASSUME NEW l \in k..LMAX PROVE inv(l) = Inv(im, l) /\ up(l) = El("up", im, l + 2)
  <2>1. l \in Int /\ l <= LMAX
    BY <1>1
  <2> DEFINE d == l + 1
             e == l + 2
  <2>4. d \in Int /\ e \in Int
    BY <2>1
  <2> HIDE DEF d, e
  <2>5. AlmPair(im, d) = 2 * b + 2 * (d - 1) /\ AlmPair(im, e) = 2 * b + 2 * (e - 1)
    BY <1>4, <2>4
  <2>2. a + 2 * (l - k) = AlmPair(im, d) /\ a + 2 * (l - k + 1) = AlmPair(im, e)
    BY <1>1, <1>2, <1>3, <2>1, <2>5 DEF d, e
  <2>3. ~(l < LMAX) => LMAX = l
    BY <1>1, <2>1
  <2> QED BY <2>2, <2>3 DEF Inv, d, e
<1> HIDE DEF inv, up, o
<1>7. z \in RowOf(im) <=>
        \E l \in k..LMAX : z = <<o(l) + 1, Inv(im, l)>> \/ z = <<o(l), Up(im, l)>>
  BY <1>5, <1>6 DEF Up
<1> QED BY <1>7 DEF k, o

(* The matrix before it is shifted. *)
LEMMA ShiftedIs ==
  ASSUME job \in Jobs
  PROVE  /\ DOMAIN mul_ct_matrix_shifted = 0..(2 * NLM - 1)
         /\ \A im \in 0..MMAX : \A l \in (im * MRES)..LMAX :
              /\ mul_ct_matrix_shifted[2 * LiM(l, im) + 1] = Inv(im, l)
              /\ mul_ct_matrix_shifted[2 * LiM(l, im)] = Up(im, l)
<1> DEFINE new == UNION {RowOf(im) : im \in 0..MMAX}
           odd(l, im) == 2 * LiM(l, im) + 1
           even(l, im) == 2 * LiM(l, im)
<1>1. mul_ct_matrix_shifted = Overwrite(<<>>, new)
  BY DEF mul_ct_matrix_shifted, RowOf
<1>2. \A z : z \in new <=> \E im \in 0..MMAX : z \in RowOf(im)
  OBVIOUS
<1>3. \A z : z \in new <=>
        \E im \in 0..MMAX : \E l \in (im * MRES)..LMAX :
          z = <<odd(l, im), Inv(im, l)>> \/ z = <<even(l, im), Up(im, l)>>
  BY <1>2, RowOfIs
<1>4. ASSUME NEW im \in 0..MMAX, NEW l \in (im * MRES)..LMAX
      PROVE  /\ LiM(l, im) \in 0..(NLM - 1) /\ NLM \in Nat \ {0}
             /\ odd(l, im) % 2 = 1 /\ even(l, im) % 2 = 0
             /\ odd(l, im) \in 0..(2 * NLM - 1) /\ even(l, im) \in 0..(2 * NLM - 1)
  <2>1. LiM(l, im) \in 0..(NLM - 1) /\ NLM \in Nat \ {0}
    BY PlaceFacts
  <2> QED BY <2>1
<1> HIDE DEF new
<1>5. ASSUME NEW im \in 0..MMAX, NEW l \in (im * MRES)..LMAX
      PROVE  /\ Overwrite(<<>>, new)[odd(l, im)] = Inv(im, l)
             /\ Overwrite(<<>>, new)[even(l, im)] = Up(im, l)
  <2> DEFINE p == odd(l, im)
             q == even(l, im)
             u == Inv(im, l)
             v == Up(im, l)
  <2>1. <<p, u>> \in new /\ <<q, v>> \in new
    BY <1>3
  <2>2. ASSUME NEW z \in new
        PROVE  (z[1] = p => z[2] = u) /\ (z[1] = q => z[2] = v)
    <3>1. PICK i \in 0..MMAX : \E d \in (i * MRES)..LMAX :
            z = <<odd(d, i), Inv(i, d)>> \/ z = <<even(d, i), Up(i, d)>>
      BY <1>3
    <3>2. PICK d \in (i * MRES)..LMAX : z = <<odd(d, i), Inv(i, d)>> \/ z = <<even(d, i), Up(i, d)>>
      BY <3>1
    <3>3. LiM(l, im) = LiM(d, i) => im = i /\ l = d
      BY PlaceApart
    <3>4. LiM(l, im) \in Nat /\ LiM(d, i) \in Nat
      BY <1>4
    <3>5. odd(d, i) # q /\ even(d, i) # p
      BY <3>4
    <3>6. (odd(d, i) = p \/ even(d, i) = q) => im = i /\ l = d
      BY <3>3, <3>4
    <3> HIDE DEF odd, even
    <3> QED BY <3>2, <3>5, <3>6
  <2> HIDE DEF p, q, u, v
  <2> QED
    <3>1. Overwrite(<<>>, new)[p] = u
      BY <2>1, <2>2, OverwriteAt
    <3>2. Overwrite(<<>>, new)[q] = v
      BY <2>1, <2>2, OverwriteAt
    <3> QED BY <3>1, <3>2 DEF p, q, u, v
<1>6. DOMAIN Overwrite(<<>>, new) = 0..(2 * NLM - 1)
  <2>1. DOMAIN Overwrite(<<>>, new) = {z[1] : z \in new}
    BY DEF Overwrite
  <2>2. ASSUME NEW z \in new PROVE z[1] \in 0..(2 * NLM - 1)
    <3>1. PICK i \in 0..MMAX : \E d \in (i * MRES)..LMAX :
            z = <<odd(d, i), Inv(i, d)>> \/ z = <<even(d, i), Up(i, d)>>
      BY <1>3
    <3>2. PICK d \in (i * MRES)..LMAX : z = <<odd(d, i), Inv(i, d)>> \/ z = <<even(d, i), Up(i, d)>>
      BY <3>1
    <3>3. odd(d, i) \in 0..(2 * NLM - 1) /\ even(d, i) \in 0..(2 * NLM - 1)
      BY <1>4
    <3> HIDE DEF odd, even
    <3> QED BY <3>2, <3>3
  <2>3. ASSUME NEW o \in 0..(2 * NLM - 1) PROVE \E z \in new : z[1] = o
    <3> DEFINE h == o \div 2
    <3>1. NLM \in Nat
      BY JobFacts, OrderFacts, PlaceFacts DEF NLM
    <3>2. h \in 0..(NLM - 1) /\ (o = 2 * h \/ o = 2 * h + 1)
      BY <3>1
    <3> HIDE DEF h
    <3>3. PICK i \in 0..MMAX : \E d \in (i * MRES)..LMAX : h = LiM(d, i)
      BY <3>2, PlaceFound
    <3>4. PICK d \in (i * MRES)..LMAX : h = LiM(d, i)
      BY <3>3
    <3>5. <<odd(d, i), Inv(i, d)>> \in new /\ <<even(d, i), Up(i, d)>> \in new
      BY <1>3
    <3>6. o = odd(d, i) \/ o = even(d, i)
      BY <3>2, <3>4
    <3> HIDE DEF odd, even
    <3> QED BY <3>5, <3>6
  <2> QED BY <2>1, <2>2, <2>3
<1> QED BY <1>1, <1>5, <1>6

(* The places before and after, and the elements which are cleared. *)
LEMMA Neighbours ==
  ASSUME job \in Jobs, NEW im \in 0..MMAX, NEW l \in (im * MRES)..LMAX
  PROVE  /\ l \in Int /\ LMAX \in Nat /\ l <= LMAX /\ im * MRES \in Nat /\ im * MRES <= l
         /\ LiM(l, im) \in 0..(NLM - 1) /\ NLM \in Nat \ {0}
         /\ l > im * MRES => /\ l - 1 \in (im * MRES)..LMAX /\ LiM(l, im) = LiM(l - 1, im) + 1
         /\ l < LMAX => /\ l + 1 \in (im * MRES)..LMAX /\ LiM(l + 1, im) = LiM(l, im) + 1
<1> DEFINE k == im * MRES
           a == l - 1
           b == l + 1
<1>1. LMAX \in Nat /\ k \in Nat /\ l \in k..LMAX /\ Base(im) \in Int
  BY JobFacts, OrderFacts, BaseTwice
<1>2. LiM(l, im) \in 0..(NLM - 1) /\ NLM \in Nat \ {0}
  BY PlaceFacts
<1> HIDE DEF a, b
<1>3. LiM(a, im) = Base(im) + a /\ LiM(b, im) = Base(im) + b /\ LiM(l, im) = Base(im) + l
  BY LiMIs
<1> HIDE DEF k
<1>4. l \in Int /\ l <= LMAX /\ k <= l
  BY <1>1
<1>5. l > k => a \in k..LMAX /\ LiM(l, im) = LiM(a, im) + 1
  BY <1>1, <1>3, <1>4 DEF a
<1>6. l < LMAX => b \in k..LMAX /\ LiM(b, im) = LiM(l, im) + 1
  BY <1>1, <1>3, <1>4 DEF b
<1> QED BY <1>1, <1>2, <1>4, <1>5, <1>6 DEF a, b, k

ClearedOf ==
  {0, 2 * NLM - 1} \cup UNION {{2 * LiM(im * MRES, im) - 1, 2 * LiM(im * MRES, im)} : im \in 1..MMAX}

(* What is cleared: the first element of an order towards below, the last one towards above. *)
LEMMA ClearedIs ==
  ASSUME job \in Jobs, NEW im \in 0..MMAX, NEW l \in (im * MRES)..LMAX
  PROVE  /\ 2 * LiM(l, im) \in ClearedOf <=> l = im * MRES
         /\ 2 * LiM(l, im) + 1 \in ClearedOf <=> l = LMAX
<1> DEFINE o == LiM(l, im)
           G(i) == LiM(i * MRES, i)
<1>1. LMAX \in Nat /\ MMAX \in Nat /\ MRES \in Nat /\ o \in Nat /\ NLM \in Nat \ {0} /\ im \in Nat
  BY JobFacts, PlaceFacts
<1>2. \A z : z \in ClearedOf <=>
        z = 0 \/ z = 2 * NLM - 1 \/ \E i \in 1..MMAX : z = 2 * G(i) - 1 \/ z = 2 * G(i)
  BY DEF ClearedOf
<1>3. ASSUME NEW i \in 1..MMAX
      PROVE  /\ i \in 0..MMAX /\ i * MRES \in (i * MRES)..LMAX /\ G(i) \in Nat
             /\ i - 1 \in 0..MMAX /\ LMAX \in ((i - 1) * MRES)..LMAX
             /\ G(i) = LiM(LMAX, i - 1) + 1 /\ LiM(LMAX, i - 1) \in Nat
  <2>1. i \in 0..MMAX /\ i - 1 \in 0..MMAX /\ i - 1 \in Nat /\ (i - 1) + 1 = i
    BY <1>1
  <2> DEFINE n == i - 1
             d == i * MRES
  <2>2. d \in 0..LMAX /\ n * MRES \in 0..LMAX
    BY <2>1, OrderFacts
  <2>3. d \in d..LMAX /\ LMAX \in (n * MRES)..LMAX
    BY <1>1, <2>2
  <2>4. G(i) \in 0..(NLM - 1) /\ LiM(LMAX, n) \in 0..(NLM - 1)
    BY <2>1, <2>3, PlaceFacts
  <2>5. Base(i) = Base(n) + LMAX + 1 - d /\ Base(n) \in Int
    BY <2>1, BaseNext, BaseTwice
  <2>6. G(i) = Base(i) + d /\ LiM(LMAX, n) = Base(n) + LMAX
    BY LiMIs
  <2>7. G(i) = LiM(LMAX, n) + 1
    <3> HIDE DEF G, n, d
    <3> QED BY <1>1, <2>2, <2>5, <2>6
  <2> QED BY <1>1, <2>1, <2>2, <2>3, <2>4, <2>7
<1>4. 2 * o \in ClearedOf <=> l = im * MRES
  <2>1. ASSUME 2 * o \in ClearedOf PROVE l = im * MRES
    <3>1. CASE 2 * o = 0
      <4> DEFINE z == 0
      <4>1. z \in 0..MMAX /\ z \in (z * MRES)..LMAX /\ z * MRES = z
        BY <1>1
      <4>2. LiM(z, z) = 0
        BY BaseNext, LiMIs
      <4>3. LiM(l, im) = LiM(z, z)
        BY <1>1, <3>1, <4>2
      <4> HIDE DEF z
      <4>4. im = z /\ l = z
        BY <4>1, <4>3, PlaceApart
      <4> QED BY <4>1, <4>4
    <3>2. CASE 2 * o = 2 * NLM - 1
      BY <1>1, <3>2
    <3>3. CASE \E i \in 1..MMAX : 2 * o = 2 * G(i) - 1 \/ 2 * o = 2 * G(i)
      <4>1. PICK i \in 1..MMAX : 2 * o = 2 * G(i) - 1 \/ 2 * o = 2 * G(i)
        BY <3>3
      <4>2. i \in 0..MMAX /\ i * MRES \in (i * MRES)..LMAX /\ G(i) \in Nat
        BY <1>3
      <4>3. o = G(i)
        <5> HIDE DEF o, G
        <5> QED BY <1>1, <4>1, <4>2
      <4>4. im = i /\ l = i * MRES
        BY <4>2, <4>3, PlaceApart
      <4> QED BY <4>4
    <3> QED BY <1>2, <2>1, <3>1, <3>2, <3>3
  <2>2. ASSUME l = im * MRES PROVE 2 * o \in ClearedOf
    <3>1. CASE im = 0
      <4>1. o = 0
        BY <1>1, <2>2, <3>1, BaseNext, LiMIs
      <4> QED BY <1>2, <4>1
    <3>2. CASE im # 0
      <4>1. im \in 1..MMAX /\ o = G(im)
        BY <1>1, <2>2, <3>2
      <4> HIDE DEF o, G
      <4> QED BY <1>2, <4>1
    <3> QED BY <3>1, <3>2
  <2> QED BY <2>1, <2>2
<1>5. 2 * o + 1 \in ClearedOf <=> l = LMAX
  <2>1. MMAX \in 0..MMAX /\ LMAX \in (MMAX * MRES)..LMAX /\ NLM = LiM(LMAX, MMAX) + 1
    BY <1>1, JobFacts, OrderFacts DEF NLM
  <2>2. ASSUME 2 * o + 1 \in ClearedOf PROVE l = LMAX
    <3>1. 2 * o + 1 # 0
      BY <1>1
    <3>2. CASE 2 * o + 1 = 2 * NLM - 1
      <4>1. LiM(LMAX, MMAX) \in Nat
        BY <2>1, PlaceFacts
      <4> DEFINE p == LiM(LMAX, MMAX)
      <4>2. o = p
        <5> HIDE DEF o, p
        <5>1. p \in Nat /\ NLM = p + 1
          BY <2>1, <4>1 DEF p
        <5> QED BY <1>1, <3>2, <5>1
      <4> QED BY <2>1, <4>2, PlaceApart
    <3>3. CASE \E i \in 1..MMAX : 2 * o + 1 = 2 * G(i) - 1 \/ 2 * o + 1 = 2 * G(i)
      <4>1. PICK i \in 1..MMAX : 2 * o + 1 = 2 * G(i) - 1 \/ 2 * o + 1 = 2 * G(i)
        BY <3>3
      <4> DEFINE n == i - 1
      <4>2. G(i) \in Nat /\ n \in 0..MMAX /\ LMAX \in (n * MRES)..LMAX
            /\ G(i) = LiM(LMAX, n) + 1 /\ LiM(LMAX, n) \in Nat
        BY <1>3
      <4> HIDE DEF n
      <4> DEFINE p == LiM(LMAX, n)
      <4>3. o = p
        <5>1. G(i) = p + 1 /\ p \in Nat
          BY <4>2
        <5> HIDE DEF o, G, p
        <5> QED BY <1>1, <4>1, <5>1
      <4> QED BY <4>2, <4>3, PlaceApart
    <3> QED BY <1>2, <2>2, <3>1, <3>2, <3>3
  <2>3. ASSUME l = LMAX PROVE 2 * o + 1 \in ClearedOf
    <3>1. CASE im = MMAX
      <4>1. 2 * o + 1 = 2 * NLM - 1
        BY <1>1, <2>1, <2>3, <3>1
      <4> QED BY <1>2, <4>1
    <3>2. CASE im # MMAX
      <4> DEFINE i == im + 1
      <4>1. i \in 1..MMAX /\ i - 1 = im
        BY <1>1, <3>2
      <4> HIDE DEF i
      <4>2. G(i) = LiM(LMAX, i - 1) + 1
        BY <1>3, <4>1
      <4>3. G(i) = o + 1
        BY <2>3, <4>1, <4>2
      <4> HIDE DEF o, G
      <4>4. 2 * o + 1 = 2 * G(i) - 1
        BY <1>1, <4>3
      <4> QED BY <1>2, <4>1, <4>4
    <3> QED BY <3>1, <3>2
  <2> QED BY <2>2, <2>3
<1> QED BY <1>4, <1>5

(* The matrix of the product with cos(theta). *)
LEMMA MulCtIs ==
  ASSUME job \in Jobs
  PROVE  /\ DOMAIN mul_ct_matrix = 0..(2 * NLM - 1)
         /\ \A im \in 0..MMAX : \A l \in (im * MRES)..LMAX :
              /\ mul_ct_matrix[2 * LiM(l, im)] = IF l > im * MRES THEN Inv(im, l - 1) ELSE None
              /\ mul_ct_matrix[2 * LiM(l, im) + 1] = IF l < LMAX THEN Up(im, l) ELSE None
<1> DEFINE s == mul_ct_matrix_shifted
<1>1. DOMAIN s = 0..(2 * NLM - 1)
  BY ShiftedIs
<1>2. mul_ct_matrix = [o \in DOMAIN s |-> IF o \in ClearedOf THEN None ELSE s[o - 1]]
  BY DEF mul_ct_matrix, ClearedOf
<1>3. ASSUME NEW im \in 0..MMAX, NEW l \in (im * MRES)..LMAX
      PROVE  /\ s[2 * LiM(l, im) + 1] = Inv(im, l)
             /\ s[2 * LiM(l, im)] = Up(im, l)
  BY ShiftedIs
<1> HIDE DEF s
<1>4. ASSUME NEW im \in 0..MMAX, NEW l \in (im * MRES)..LMAX
      PROVE  /\ mul_ct_matrix[2 * LiM(l, im)] = IF l > im * MRES THEN Inv(im, l - 1) ELSE None
             /\ mul_ct_matrix[2 * LiM(l, im) + 1] = IF l < LMAX THEN Up(im, l) ELSE None
  <2> DEFINE k == im * MRES
             o == LiM(l, im)
             a == l - 1
             e == 2 * o
             f == 2 * o + 1
  <2>1. /\ l \in Int /\ LMAX \in Nat /\ l <= LMAX /\ k \in Nat /\ k <= l
        /\ o \in 0..(NLM - 1) /\ NLM \in Nat \ {0}
        /\ l > k => a \in k..LMAX /\ o = LiM(a, im) + 1
    BY Neighbours
  <2>2. (e \in ClearedOf <=> l = k) /\ (f \in ClearedOf <=> l = LMAX)
    BY ClearedIs
  <2>3. s[f] = Inv(im, l) /\ s[e] = Up(im, l)
    BY <1>3
  <2> HIDE DEF o
  <2>4. e \in DOMAIN s /\ f \in DOMAIN s /\ f - 1 = e
    BY <1>1, <2>1
  <2>5. mul_ct_matrix[f] = IF l < LMAX THEN Up(im, l) ELSE None
    <3> HIDE DEF e, f
    <3> QED BY <1>2, <2>1, <2>2, <2>3, <2>4
  <2>6. CASE l > k
    <3> HIDE DEF a
    <3>1. a \in k..LMAX /\ o = LiM(a, im) + 1
      BY <2>1, <2>6
    <3> DEFINE p == LiM(a, im)
               g == 2 * p + 1
    <3>2. s[g] = Inv(im, a)
      BY <1>3, <3>1
    <3>3. p \in 0..(NLM - 1)
      BY <3>1, PlaceFacts
    <3> HIDE DEF p
    <3>4. e - 1 = g
      BY <2>1, <3>1, <3>3 DEF p
    <3>5. mul_ct_matrix[e] = s[g]
      <4>1. e \notin ClearedOf
        BY <2>2, <2>6
      <4> HIDE DEF e, g
      <4> QED BY <1>2, <2>4, <3>4, <4>1
    <3> QED BY <2>5, <2>6, <3>2, <3>5 DEF o, a
  <2>7. CASE ~(l > k)
    <3>1. l = k
      BY <2>1, <2>7
    <3>2. mul_ct_matrix[e] = None
      <4> HIDE DEF e
      <4> QED BY <1>2, <2>2, <2>4, <3>1
    <3> QED BY <2>5, <2>7, <3>2 DEF o
  <2> QED BY <2>6, <2>7
<1> QED BY <1>1, <1>2, <1>4

(* The factor of an element of the matrix for sin(theta) d/dtheta. *)
Scale(e, x) == [e EXCEPT ![1] = x]

(* The parts of elements are numbered. *)
LEMMA Elements ==
  ASSUME NEW im, NEW l, NEW x, job \in Jobs
  PROVE  /\ Inv(im, l) \notin {None, Wrong} /\ Up(im, l) \notin {None, Wrong}
         /\ Scale(Inv(im, l), x) = <<x, "inv", im, l + 1>> /\ Inv(im, l) = <<"1", "inv", im, l + 1>>
         /\ Scale(Up(im, l), x) = IF job.schmidt THEN <<x, "up", im, l + 2>> ELSE <<x, "inv", im, l + 1>>
         /\ Up(im, l) = IF job.schmidt THEN <<"1", "up", im, l + 2>> ELSE <<"1", "inv", im, l + 1>>
         /\ Scale(Inv(im, l), x) # None /\ Scale(Up(im, l), x) # None
<1>1. ASSUME NEW k, NEW d
      PROVE  LET e == <<"1", k, im, d>>
             IN  e \notin {None, Wrong} /\ Scale(e, x) = <<x, k, im, d>> /\ Scale(e, x) # None
  <2> DEFINE e == <<"1", k, im, d>>
             f == <<x, k, im, d>>
  <2>1. e \notin {None, Wrong}
    BY DEF None, Wrong
  <2>2. Scale(e, x) = f
    BY DEF Scale
  <2>3. f # None
    BY DEF None
  <2> QED BY <2>1, <2>2, <2>3
<1> DEFINE p == l + 1
           q == l + 2
<1>2. Inv(im, l) = <<"1", "inv", im, p>>
  BY DEF Inv, El
<1>3. Up(im, l) = IF job.schmidt THEN <<"1", "up", im, q>> ELSE <<"1", "inv", im, p>>
  BY <1>2 DEF Up, El
<1> HIDE DEF p, q
<1>4. /\ Inv(im, l) \notin {None, Wrong} /\ Scale(Inv(im, l), x) = <<x, "inv", im, p>>
      /\ Scale(Inv(im, l), x) # None
  BY <1>1, <1>2
<1>5. /\ Up(im, l) \notin {None, Wrong} /\ Scale(Up(im, l), x) # None
      /\ Scale(Up(im, l), x) = IF job.schmidt THEN <<x, "up", im, q>> ELSE <<x, "inv", im, p>>
  BY <1>1, <1>3
<1> QED BY <1>2, <1>3, <1>4, <1>5 DEF p, q

(* The elements a degree gets, with their factors. *)
Fac(x) == IF call.fn = "mul_ct" THEN "1" ELSE x
Below(im, l) == <<Fac(l - 1), "inv", im, l>>
Above(im, l) ==
  IF job.schmidt THEN <<Fac(-(l + 2)), "up", im, l + 2>> ELSE <<Fac(-(l + 2)), "inv", im, l + 1>>
Matrix == IF call.fn = "mul_ct" THEN mul_ct_matrix ELSE st_dt_matrix

(* The matrix of each of the two products. *)
LEMMA MatrixIs ==
  ASSUME job \in Jobs, NEW im \in 0..MMAX, NEW l \in (im * MRES)..LMAX
  PROVE  /\ Matrix[2 * LiM(l, im)] = IF l > im * MRES THEN Below(im, l) ELSE None
         /\ Matrix[2 * LiM(l, im) + 1] = IF l < LMAX THEN Above(im, l) ELSE None
<1> DEFINE mx == mul_ct_matrix
           k == im * MRES
           o == LiM(l, im)
           e == 2 * o
           f == 2 * o + 1
           a == l - 1
<1>1. DOMAIN mx = 0..(2 * NLM - 1)
  BY MulCtIs
<1>2. mx[e] = (IF l > k THEN Inv(im, a) ELSE None) /\ mx[f] = (IF l < LMAX THEN Up(im, l) ELSE None)
  BY MulCtIs
<1>3. o \in 0..(NLM - 1) /\ NLM \in Nat \ {0} /\ l \in Int
  BY Neighbours
<1>4. Coef(o) = <<l, im>>
  BY CoefIs
<1> HIDE DEF mx, o, k
<1>5. e \in DOMAIN mx /\ f \in DOMAIN mx /\ e % 2 = 0 /\ f % 2 = 1 /\ e \div 2 = o /\ f \div 2 = o
  BY <1>1, <1>3
<1>6. a + 1 = l
  BY <1>3
<1> HIDE DEF e, f, a
<1>7. CASE call.fn = "mul_ct"
  <2>1. Matrix = mx
    BY <1>7 DEF Matrix, mx
  <2>2. Inv(im, a) = <<"1", "inv", im, a + 1>>
        /\ Up(im, l) = IF job.schmidt THEN <<"1", "up", im, l + 2>> ELSE <<"1", "inv", im, l + 1>>
    BY Elements
  <2>3. Inv(im, a) = Below(im, l) /\ Up(im, l) = Above(im, l)
    BY <1>6, <1>7, <2>2 DEF Below, Above, Fac
  <2> QED BY <1>2, <2>1, <2>3 DEF e, f, o, k
<1>8. CASE call.fn # "mul_ct"
  <2> DEFINE F(n) == LET d == Coef(n \div 2)[1] IN IF n % 2 = 0 THEN d - 1 ELSE -(d + 2)
  <2>1. Matrix = [n \in DOMAIN mx |-> IF mx[n] \in {None, Wrong} THEN mx[n] ELSE Scale(mx[n], F(n))]
    BY <1>8 DEF Matrix, mx, st_dt_matrix, Scale
  <2>2. F(e) = l - 1 /\ F(f) = -(l + 2)
    BY <1>4, <1>5
  <2> HIDE DEF F
  <2> DEFINE g == -(l + 2)
             h == l - 1
  <2>3. /\ Inv(im, a) \notin {None, Wrong} /\ Scale(Inv(im, a), h) = <<h, "inv", im, a + 1>>
        /\ Up(im, l) \notin {None, Wrong}
        /\ Scale(Up(im, l), g) = IF job.schmidt THEN <<g, "up", im, l + 2>> ELSE <<g, "inv", im, l + 1>>
    <3> HIDE DEF g, h
    <3> QED BY Elements
  <2>4. Scale(Inv(im, a), h) = Below(im, l) /\ Scale(Up(im, l), g) = Above(im, l)
    <3>1. Fac(h) = h /\ Fac(g) = g
      BY <1>8 DEF Fac
    <3> QED BY <1>6, <2>3, <3>1 DEF Below, Above
  <2>5. Matrix[e] = (IF mx[e] \in {None, Wrong} THEN mx[e] ELSE Scale(mx[e], h))
        /\ Matrix[f] = (IF mx[f] \in {None, Wrong} THEN mx[f] ELSE Scale(mx[f], g))
    BY <1>5, <2>1, <2>2
  <2> HIDE DEF g, h
  <2>6. Matrix[e] = IF l > k THEN Below(im, l) ELSE None
    BY <1>2, <2>3, <2>4, <2>5
  <2>7. Matrix[f] = IF l < LMAX THEN Above(im, l) ELSE None
    BY <1>2, <2>3, <2>4, <2>5
  <2> QED BY <2>6, <2>7 DEF e, f, o, k
<1> QED BY <1>7, <1>8

(* What is added up for a coefficient. *)
ProductOf(im, l) ==
  (IF l > im * MRES THEN {<<Below(im, l), <<l - 1, im>>>>} ELSE {})
    \cup (IF l < LMAX THEN {<<Above(im, l), <<l + 1, im>>>>} ELSE {})

(* The product takes the degrees below and above, and nothing of another order. *)
LEMMA ProductAt ==
  ASSUME job \in Jobs, NEW im \in 0..MMAX, NEW l \in (im * MRES)..LMAX
  PROVE  SH_mul_mx(Matrix)[LiM(l, im)] = ProductOf(im, l)
<1> DEFINE k == im * MRES
           o == LiM(l, im)
           a == l - 1
           b == l + 1
           p == Matrix[2 * o]
           q == Matrix[2 * o + 1]
           c == Coef(o - 1)
           d == Coef(o + 1)
           low == Below(im, l)
           high == Above(im, l)
<1>1. /\ l \in Int /\ LMAX \in Nat /\ l <= LMAX /\ k \in Nat /\ k <= l
      /\ o \in 0..(NLM - 1) /\ NLM \in Nat \ {0}
      /\ l > k => a \in k..LMAX /\ o = LiM(a, im) + 1
      /\ l < LMAX => b \in k..LMAX /\ LiM(b, im) = o + 1
  BY Neighbours
<1>2. p = (IF l > k THEN low ELSE None) /\ q = (IF l < LMAX THEN high ELSE None)
  BY MatrixIs
<1>3. low # None /\ high # None
  <2>1. \A x, y, z, w : <<x, y, z, w>> # None
    BY DEF None
  <2> QED BY <2>1 DEF Below, Above
<1>4. l > k => o > 0 /\ c = <<a, im>>
  <2> SUFFICES ASSUME l > k PROVE o > 0 /\ c = <<a, im>>
    OBVIOUS
  <2> HIDE DEF a, b
  <2>1. a \in k..LMAX /\ o = LiM(a, im) + 1
    BY <1>1
  <2> DEFINE n == LiM(a, im)
  <2>2. n \in 0..(NLM - 1) /\ Coef(n) = <<a, im>>
    BY <2>1, PlaceFacts, CoefIs
  <2> HIDE DEF n, o
  <2>3. o - 1 = n /\ o > 0
    BY <1>1, <2>1, <2>2 DEF n
  <2> QED BY <2>2, <2>3
<1>5. l < LMAX => o < NLM - 1 /\ d = <<b, im>>
  <2> SUFFICES ASSUME l < LMAX PROVE o < NLM - 1 /\ d = <<b, im>>
    OBVIOUS
  <2> HIDE DEF a, b
  <2>1. b \in k..LMAX /\ LiM(b, im) = o + 1
    BY <1>1
  <2> DEFINE n == LiM(b, im)
  <2>2. n \in 0..(NLM - 1) /\ Coef(n) = <<b, im>>
    BY <2>1, PlaceFacts, CoefIs
  <2> HIDE DEF n, o
  <2>3. o + 1 = n /\ o < NLM - 1
    BY <1>1, <2>1, <2>2 DEF n
  <2> QED BY <2>2, <2>3
<1> DEFINE S == (IF o > 0 THEN {<<p, c>>} ELSE {}) \cup (IF o < NLM - 1 THEN {<<q, d>>} ELSE {})
<1>6. SH_mul_mx(Matrix)[o] = {z \in S : z[1] # None}
  BY <1>1 DEF SH_mul_mx
<1> HIDE DEF k, o, p, q, c, d, a, b, low, high
<1>7. {z \in S : z[1] # None} = (IF l > k THEN {<<low, <<a, im>>>>} ELSE {})
                                  \cup (IF l < LMAX THEN {<<high, <<b, im>>>>} ELSE {})
  BY <1>2, <1>3, <1>4, <1>5
<1> QED BY <1>6, <1>7 DEF ProductOf, k, o, a, b, low, high

Expected ==
  [lm \in 0..(NLM - 1) |->
    LET l == Coef(lm)[1]
        im == Coef(lm)[2]
        f(x) == IF call.fn = "mul_ct" THEN "1" ELSE x
        up(x) == IF job.schmidt THEN <<x, "up", im, l + 2>> ELSE <<x, "inv", im, l + 1>>
    IN  (IF l > im * MRES THEN {<<<<f(l - 1), "inv", im, l>>, <<l - 1, im>>>>} ELSE {})
          \cup (IF l < LMAX THEN {<<up(f(-(l + 2))), <<l + 1, im>>>>} ELSE {})]

(* An operator returns what the property wants. *)
LEMMA OperateRight ==
  ASSUME job \in Jobs
  PROVE  SH_mul_mx(Matrix) = Expected
<1> DEFINE E == [lm \in 0..(NLM - 1) |-> ProductOf(Coef(lm)[2], Coef(lm)[1])]
<1>1. Expected = E
  BY DEF Expected, ProductOf, Below, Above, Fac
<1>2. ASSUME NEW lm \in 0..(NLM - 1) PROVE SH_mul_mx(Matrix)[lm] = E[lm]
  <2>1. PICK im \in 0..MMAX : \E l \in (im * MRES)..LMAX : lm = LiM(l, im)
    BY PlaceFound
  <2>2. PICK l \in (im * MRES)..LMAX : lm = LiM(l, im)
    BY <2>1
  <2>3. Coef(lm) = <<l, im>>
    BY <2>2, CoefIs
  <2>4. SH_mul_mx(Matrix)[lm] = ProductOf(im, l)
    BY <2>2, ProductAt
  <2> QED BY <2>3, <2>4
<1> DEFINE X(lm) == {p \in (IF lm > 0 THEN {<<Matrix[2 * lm], Coef(lm - 1)>>} ELSE {})
                            \cup (IF lm < NLM - 1 THEN {<<Matrix[2 * lm + 1], Coef(lm + 1)>>} ELSE {}) : p[1] # None}
<1>4. SH_mul_mx(Matrix) = [lm \in 0..(NLM - 1) |-> X(lm)]
  BY DEF SH_mul_mx
<1> HIDE DEF X
<1>5. \A lm \in 0..(NLM - 1) : X(lm) = ProductOf(Coef(lm)[2], Coef(lm)[1])
  BY <1>2, <1>4
<1> QED BY <1>1, <1>4, <1>5
-----------------------------------------------------------------------------
(* The program, and what its calls leave behind.                           *)

Prog == job.prog
Made == Len(Prog) - Len(todo)                      \* calls begun
Done == IF pc = "run" THEN Made - 1 ELSE Made      \* calls after which the caches are as they are
Copying == "shtns_create_with_grid"
Copies == \E k \in DOMAIN Prog : Prog[k].fn = Copying
Plan == [n: Nat, alive: BOOLEAN]

(* The call and the calls still to be made are those of the program, in order. *)
ProgOK ==
  /\ job \in Jobs
  /\ todo \in Seq(CallType) /\ Len(todo) <= Len(Prog)
  /\ \A k \in 1..Len(todo) : todo[k] = Prog[Made + k]
  /\ IF Made = 0 THEN call = NULL /\ pc = "idle" ELSE call = Prog[Made]
  /\ pc \in {"idle", "run", "ring", "store"}
  /\ pc \in {"ring", "store"} => call.fn \in Rotations

(* A configuration has a block, a latitude, a number of longitudes and a plan, or none of them;
   whoever has no block has not given one to others. *)
CacheOK ==
  /\ ylm_lat \in [Cfg -> Cfg \cup {NULL}] /\ ct_lat \in [Cfg -> Lat \cup {NULL}]
  /\ nphi_lat \in [Cfg -> Nat] /\ ifft_lat \in [Cfg -> (DOMAIN plans) \cup {NULL}]
  /\ DOMAIN heap = Cfg /\ plans \in Seq(Plan)
  /\ \A c \in Cfg : DOMAIN heap[c] = IF \E d \in Cfg : ylm_lat[d] = c THEN 0..(2 * NLM - 1) ELSE {}
  /\ \A c \in Cfg : /\ ylm_lat[c] = NULL <=> ct_lat[c] = NULL
                    /\ ylm_lat[c] = NULL <=> nphi_lat[c] = 0
                    /\ ylm_lat[c] = NULL <=> ifft_lat[c] = NULL
  /\ \A c \in Cfg : ylm_lat[c] = NULL => \A d \in Cfg : ylm_lat[d] # c
  /\ \A c \in Cfg : (\A k \in 1..Done : Prog[k].cfg # c) => ylm_lat[c] = NULL

(* The program consists of calls, and a copy is a new configuration. *)
LEMMA ProgFacts ==
  ASSUME job \in Jobs
  PROVE  /\ Prog \in Seq(CallType) /\ Len(Prog) \in Nat /\ DOMAIN Prog = 1..Len(Prog)
         /\ \A k \in 1..Len(Prog) : Prog[k] \in CallType
         /\ \A k \in 1..Len(Prog) : Prog[k].fn \in Rotations => MMAX = LMAX /\ MRES = 1
         /\ \A k \in 1..Len(Prog) : Prog[k].fn = Copying =>
              Prog[k].base # Prog[k].cfg /\ \A n \in 1..(k - 1) : Prog[n].cfg # Prog[k].cfg
<1>1. Prog \in Seq(CallType)
  BY GridFreeAssumption DEF Prog, CallType
<1>2. Len(Prog) \in Nat /\ DOMAIN Prog = 1..Len(Prog) /\ \A k \in 1..Len(Prog) : Prog[k] \in CallType
  BY <1>1
<1>3. \A k \in DOMAIN Prog : Prog[k].fn \in Rotations => MMAX = LMAX /\ MRES = 1
  BY GridFreeAssumption DEF Prog, MMAX, LMAX, MRES
<1>4. \A k \in DOMAIN Prog : Prog[k].fn = Copying => NewCopy(Prog, k)
  BY GridFreeAssumption DEF Prog, Copying
<1> QED BY <1>1, <1>2, <1>3, <1>4 DEF NewCopy

(* The call being made is the last one begun. *)
LEMMA CallFacts ==
  ASSUME ProgOK, pc # "idle"
  PROVE  /\ Made \in 1..Len(Prog) /\ call = Prog[Made] /\ call \in CallType /\ cfg \in Cfg
         /\ pc = "run" => Done = Made - 1
<1>1. job \in Jobs /\ Len(todo) \in Nat /\ Len(todo) <= Len(Prog)
  BY DEF ProgOK
<1>2. Len(Prog) \in Nat /\ \A k \in 1..Len(Prog) : Prog[k] \in CallType
  BY <1>1, ProgFacts
<1>3. Made \in Nat /\ Made <= Len(Prog)
  BY <1>1, <1>2 DEF Made
<1>4. Made # 0 /\ call = Prog[Made]
  BY DEF ProgOK
<1>5. Made \in 1..Len(Prog)
  BY <1>2, <1>3, <1>4
<1>6. call \in CallType
  BY <1>2, <1>4, <1>5
<1> QED BY <1>4, <1>5, <1>6 DEF CallType, cfg, Done

(* Taking the next call. *)
LEMMA StartProg ==
  ASSUME ProgOK, Start
  PROVE  ProgOK' /\ Prog' = Prog /\ Made' = Made + 1 /\ Done' = Done
<1>1. /\ pc = "idle" /\ todo # <<>> /\ call' = Head(todo) /\ todo' = Tail(todo) /\ pc' = "run"
      /\ job' = job
  BY DEF Start
<1>2. /\ job \in Jobs /\ todo \in Seq(CallType) /\ Len(todo) \in Nat /\ Len(todo) <= Len(Prog)
      /\ \A k \in 1..Len(todo) : todo[k] = Prog[Made + k]
  BY DEF ProgOK
<1>3. Prog' = Prog /\ Len(Prog) \in Nat
  BY <1>1, <1>2, ProgFacts DEF Prog
<1>4. /\ todo' \in Seq(CallType) /\ Len(todo') = Len(todo) - 1 /\ Len(todo) >= 1
      /\ call' = todo[1] /\ \A k \in 1..Len(todo') : todo'[k] = todo[k + 1]
  BY <1>1, <1>2
<1>5. Made' = Made + 1 /\ Made \in Nat
  BY <1>2, <1>3, <1>4 DEF Made
<1>6. call' = Prog[Made']
  <2>1. 1 \in 1..Len(todo)
    BY <1>2, <1>4
  <2> QED BY <1>2, <1>4, <1>5, <2>1
<1>7. \A k \in 1..Len(todo') : todo'[k] = Prog[Made' + k]
  <2> TAKE k \in 1..Len(todo')
  <2> DEFINE n == k + 1
  <2>1. n \in 1..Len(todo) /\ todo'[k] = todo[n]
    BY <1>2, <1>4
  <2>2. todo[n] = Prog[Made + n]
    BY <1>2, <2>1
  <2>3. Made + n = Made' + k
    BY <1>2, <1>4, <1>5
  <2> QED BY <2>1, <2>2, <2>3
<1>8. Made' # 0 /\ Len(todo') <= Len(Prog')
  BY <1>2, <1>3, <1>4, <1>5
<1>9. Done' = Done
  BY <1>1, <1>5 DEF Done
<1> QED BY <1>1, <1>2, <1>3, <1>4, <1>5, <1>6, <1>7, <1>8, <1>9 DEF ProgOK

(* Any other step stays with its call. *)
LEMMA SameProg ==
  ASSUME ProgOK, job' = job, todo' = todo, call' = call,
         pc # "idle" \/ pc' = pc,
         pc' \in {"idle", "run", "ring", "store"}, pc' \in {"ring", "store"} => call.fn \in Rotations
  PROVE  ProgOK' /\ Prog' = Prog /\ Made' = Made /\ Len(Prog) \in Nat
<1>1. Prog' = Prog /\ Made' = Made
  BY DEF Prog, Made
<1>2. Made = 0 => pc' = "idle"
  BY DEF ProgOK
<1>3. Len(Prog) \in Nat
  BY ProgFacts DEF ProgOK
<1> QED BY <1>1, <1>2, <1>3 DEF ProgOK

(* The parts of EvalLat. *)
LatB == IF ylm_lat[cfg] = NULL THEN cfg ELSE ylm_lat[cfg]
LatOld == IF ylm_lat[cfg] = NULL THEN Garbage ELSE heap[LatB]
LatBlock == IF call.x # ct_lat[cfg] THEN Overwrite(LatOld, Filled) ELSE LatOld
Again == call.nphi # nphi_lat[cfg]
DeadPlans == IF Again /\ ifft_lat[cfg] # NULL THEN {ifft_lat[cfg]} ELSE {}
LatPlan == IF Again THEN Len(plans) + 1 ELSE ifft_lat[cfg]
KeptPlans == [i \in DOMAIN plans |-> [plans[i] EXCEPT !.alive = @ /\ i \notin DeadPlans]]
NextPlans == IF Again THEN Append(KeptPlans, [n |-> call.nphi, alive |-> TRUE]) ELSE KeptPlans

(* EvalLat, with names for its parts. *)
LEMMA EvalLatIs ==
  ASSUME EvalLat
  PROVE  /\ pc = "run" /\ call.fn \in ToLat /\ pc' = "idle"
         /\ ylm_lat' = [ylm_lat EXCEPT ![cfg] = LatB] /\ heap' = [heap EXCEPT ![LatB] = LatBlock]
         /\ ct_lat' = [ct_lat EXCEPT ![cfg] = call.x] /\ plans' = NextPlans
         /\ nphi_lat' = [nphi_lat EXCEPT ![cfg] = call.nphi]
         /\ ifft_lat' = [ifft_lat EXCEPT ![cfg] = LatPlan]
         /\ res' = [terms |-> Counted(LatSums(LatBlock)), plan |-> NextPlans[LatPlan]]
         /\ job' = job /\ todo' = todo /\ call' = call /\ rot' = rot
BY DEF EvalLat, Is, Return, LatB, LatOld, LatBlock, Again, DeadPlans, LatPlan, KeptPlans, NextPlans

(* The table is as large as its last place. *)
LEMMA NLMType ==
  ASSUME job \in Jobs
  PROVE  NLM \in Nat \ {0}
<1>1. LMAX \in Nat /\ MMAX \in Nat /\ MRES \in Nat
  BY JobFacts
<1>2. MMAX \in 0..MMAX
  BY <1>1
<1>3. MMAX * MRES \in 0..LMAX
  BY <1>2, OrderFacts
<1>4. LMAX \in (MMAX * MRES)..LMAX
  BY <1>1, <1>3
<1> QED BY <1>2, <1>4, PlaceFacts

(* The block after a call for a latitude. *)
LEMMA BlockFacts ==
  ASSUME ProgOK, CacheOK, pc = "run"
  PROVE  /\ LatB \in Cfg /\ cfg \in Cfg /\ LatB # NULL
         /\ DOMAIN LatOld = 0..(2 * NLM - 1) /\ DOMAIN LatBlock = 0..(2 * NLM - 1)
         /\ call.x # ct_lat[cfg] => Holds(LatBlock, call)
<1>1. cfg \in Cfg /\ call \in CallType /\ job \in Jobs
  BY CallFacts DEF ProgOK
<1>2. LatB \in Cfg /\ NULL \notin Cfg
  BY <1>1, GridFreeAssumption DEF CacheOK, LatB
<1>3. DOMAIN LatOld = 0..(2 * NLM - 1)
  <2>1. CASE ylm_lat[cfg] = NULL
    BY <2>1 DEF LatOld, Garbage
  <2>2. CASE ylm_lat[cfg] # NULL
    <3>1. LatB = ylm_lat[cfg] /\ LatOld = heap[LatB]
      BY <2>2 DEF LatB, LatOld
    <3> QED BY <1>1, <1>2, <3>1 DEF CacheOK
  <2> QED BY <2>1, <2>2
<1>4. Holds(Overwrite(LatOld, Filled), call) /\ DOMAIN Overwrite(LatOld, Filled) = 0..(2 * NLM - 1)
  BY <1>1, <1>3, FillHolds
<1> QED BY <1>1, <1>2, <1>3, <1>4 DEF LatBlock

(* The plans after a call for a latitude. *)
LEMMA PlanFacts ==
  ASSUME ProgOK, CacheOK, pc = "run"
  PROVE  /\ NextPlans \in Seq(Plan) /\ DOMAIN plans \subseteq DOMAIN NextPlans
         /\ LatPlan \in DOMAIN NextPlans /\ LatPlan \in Nat /\ LatPlan # NULL
         /\ Again => /\ NextPlans[LatPlan] = [n |-> call.nphi, alive |-> TRUE]
                     /\ LatPlan \notin DOMAIN plans
         /\ ~Again => LatPlan = ifft_lat[cfg]
         /\ \A i \in DOMAIN plans : i \notin DeadPlans => NextPlans[i] = plans[i]
<1>1. cfg \in Cfg /\ call \in CallType /\ call.nphi \in Nat \ {0}
  BY CallFacts DEF CallType
<1>2. plans \in Seq(Plan) /\ Len(plans) \in Nat /\ DOMAIN plans = 1..Len(plans)
  BY DEF CacheOK
<1>3. \A i \in DOMAIN plans : plans[i] \in Plan
  BY <1>2
<1>4. ASSUME NEW i \in DOMAIN plans
      PROVE  /\ [plans[i] EXCEPT !.alive = @ /\ i \notin DeadPlans] \in Plan
             /\ i \notin DeadPlans => [plans[i] EXCEPT !.alive = @ /\ i \notin DeadPlans] = plans[i]
  <2> DEFINE b == i \notin DeadPlans
             p == plans[i]
  <2>1. p \in Plan /\ b \in BOOLEAN
    BY <1>3
  <2> HIDE DEF p, b
  <2>2. [p EXCEPT !.alive = @ /\ b] \in Plan
    BY <2>1 DEF Plan
  <2>3. b => [p EXCEPT !.alive = @ /\ b] = p
    BY <2>1 DEF Plan
  <2> QED BY <2>2, <2>3 DEF p, b
<1>5. KeptPlans \in [1..Len(plans) -> Plan]
  BY <1>2, <1>4 DEF KeptPlans
<1>6. KeptPlans \in Seq(Plan) /\ Len(KeptPlans) = Len(plans)
  BY <1>2, <1>5
<1>7. \A i \in DOMAIN plans : i \notin DeadPlans => KeptPlans[i] = plans[i]
  BY <1>4 DEF KeptPlans
<1>8. [n |-> call.nphi, alive |-> TRUE] \in Plan
  BY <1>1 DEF Plan
<1>9. NULL \notin Nat
  BY GridFreeAssumption
<1> HIDE DEF KeptPlans
<1>10. CASE Again
  <2>1. NextPlans = Append(KeptPlans, [n |-> call.nphi, alive |-> TRUE]) /\ LatPlan = Len(plans) + 1
    BY <1>10 DEF NextPlans, LatPlan
  <2>2. NextPlans \in Seq(Plan) /\ Len(NextPlans) = Len(plans) + 1 /\ DOMAIN NextPlans = 1..(Len(plans) + 1)
    BY <1>2, <1>6, <1>8, <2>1
  <2>3. NextPlans[LatPlan] = [n |-> call.nphi, alive |-> TRUE]
    BY <1>2, <1>6, <2>1
  <2>4. \A i \in DOMAIN plans : NextPlans[i] = KeptPlans[i]
    BY <1>2, <1>6, <2>1
  <2> QED BY <1>2, <1>7, <1>9, <1>10, <2>1, <2>2, <2>3, <2>4
<1>11. CASE ~Again
  <2>1. NextPlans = KeptPlans /\ LatPlan = ifft_lat[cfg]
    BY <1>11 DEF NextPlans, LatPlan
  <2>2. nphi_lat[cfg] # 0
    BY <1>1, <1>11 DEF Again
  <2>3. ifft_lat[cfg] # NULL /\ ifft_lat[cfg] \in DOMAIN plans
    BY <1>1, <2>2 DEF CacheOK
  <2>4. DOMAIN NextPlans = 1..Len(plans)
    BY <1>5, <2>1
  <2> QED BY <1>2, <1>6, <1>7, <1>11, <2>1, <2>3, <2>4
<1> QED BY <1>10, <1>11

(* After a call for a latitude, its configuration has everything, and blocks are where they were. *)
LEMMA EvalLatCache ==
  ASSUME ProgOK, CacheOK, EvalLat
  PROVE  CacheOK'
<1>1. /\ pc = "run" /\ call.fn \in ToLat /\ pc' = "idle"
      /\ ylm_lat' = [ylm_lat EXCEPT ![cfg] = LatB] /\ heap' = [heap EXCEPT ![LatB] = LatBlock]
      /\ ct_lat' = [ct_lat EXCEPT ![cfg] = call.x] /\ plans' = NextPlans
      /\ nphi_lat' = [nphi_lat EXCEPT ![cfg] = call.nphi]
      /\ ifft_lat' = [ifft_lat EXCEPT ![cfg] = LatPlan]
      /\ job' = job /\ todo' = todo /\ call' = call
  BY EvalLatIs
<1>2. /\ Made \in 1..Len(Prog) /\ call = Prog[Made] /\ call \in CallType /\ cfg \in Cfg /\ Done = Made - 1
      /\ call.x \in Lat /\ call.nphi \in Nat \ {0}
  BY <1>1, CallFacts DEF CallType
<1>3. /\ LatB \in Cfg /\ LatB # NULL /\ DOMAIN LatBlock = 0..(2 * NLM - 1)
  BY <1>1, BlockFacts
<1>4. /\ NextPlans \in Seq(Plan) /\ DOMAIN plans \subseteq DOMAIN NextPlans
      /\ LatPlan \in DOMAIN NextPlans /\ LatPlan # NULL
  BY <1>1, PlanFacts
<1>5. Prog' = Prog /\ Made' = Made /\ Done' = Made /\ NLM' = NLM
  <2>1. Prog' = Prog /\ Made' = Made
    BY <1>1 DEF Prog, Made
  <2>2. NLM' = NLM
    BY <1>1 DEF NLM, LiM, LMAX, MMAX, MRES
  <2> QED BY <1>1, <2>1, <2>2 DEF Done
<1>6. NULL \notin Cfg /\ NULL \notin Lat
  BY GridFreeAssumption
<1>7. /\ ylm_lat \in [Cfg -> Cfg \cup {NULL}] /\ ct_lat \in [Cfg -> Lat \cup {NULL}]
      /\ nphi_lat \in [Cfg -> Nat] /\ ifft_lat \in [Cfg -> (DOMAIN plans) \cup {NULL}]
      /\ DOMAIN heap = Cfg
  BY DEF CacheOK
<1>8. /\ ylm_lat' \in [Cfg -> Cfg \cup {NULL}] /\ ct_lat' \in [Cfg -> Lat \cup {NULL}]
      /\ nphi_lat' \in [Cfg -> Nat] /\ ifft_lat' \in [Cfg -> (DOMAIN plans') \cup {NULL}]
      /\ DOMAIN heap' = Cfg /\ plans' \in Seq(Plan)
  <2>1. ylm_lat' \in [Cfg -> Cfg \cup {NULL}] /\ ct_lat' \in [Cfg -> Lat \cup {NULL}]
    BY <1>1, <1>2, <1>3, <1>7
  <2>2. nphi_lat' \in [Cfg -> Nat]
    BY <1>1, <1>2, <1>7
  <2>3. ifft_lat' \in [Cfg -> (DOMAIN NextPlans) \cup {NULL}]
    BY <1>1, <1>2, <1>4, <1>7
  <2> QED BY <1>1, <1>4, <1>7, <2>1, <2>2, <2>3
<1>9. \A c \in Cfg : c # cfg =>
        ylm_lat'[c] = ylm_lat[c] /\ ct_lat'[c] = ct_lat[c] /\ nphi_lat'[c] = nphi_lat[c] /\ ifft_lat'[c] = ifft_lat[c]
  BY <1>1, <1>7
<1>10. ylm_lat'[cfg] = LatB /\ ct_lat'[cfg] = call.x /\ nphi_lat'[cfg] = call.nphi /\ ifft_lat'[cfg] = LatPlan
  BY <1>1, <1>2, <1>7
<1>11. (LatB = cfg /\ ylm_lat[cfg] = NULL) \/ (LatB = ylm_lat[cfg] /\ ylm_lat[cfg] # NULL)
  BY DEF LatB
<1>12. ASSUME NEW c \in Cfg
       PROVE  (\E d \in Cfg : ylm_lat'[d] = c) <=> c = LatB \/ (\E d \in Cfg : ylm_lat[d] = c)
  <2>1. CASE c = LatB
    BY <1>2, <1>10, <2>1
  <2>2. CASE c # LatB
    <3>1. \A d \in Cfg : ylm_lat'[d] = c <=> ylm_lat[d] = c
      BY <1>6, <1>9, <1>10, <1>11, <2>2
    <3> QED BY <2>2, <3>1
  <2> QED BY <2>1, <2>2
<1>13. \A c \in Cfg : DOMAIN heap'[c] = IF \E d \in Cfg : ylm_lat'[d] = c THEN 0..(2 * NLM' - 1) ELSE {}
  <2> SUFFICES ASSUME NEW c \in Cfg
               PROVE  DOMAIN heap'[c] = IF \E d \in Cfg : ylm_lat'[d] = c THEN 0..(2 * NLM - 1) ELSE {}
    BY <1>5
  <2>1. CASE c = LatB
    BY <1>1, <1>3, <1>7, <1>12, <2>1
  <2>2. CASE c # LatB
    <3>1. heap'[c] = heap[c]
      BY <1>1, <1>7, <2>2
    <3>2. DOMAIN heap[c] = IF \E d \in Cfg : ylm_lat[d] = c THEN 0..(2 * NLM - 1) ELSE {}
      BY DEF CacheOK
    <3> QED BY <1>12, <2>2, <3>1, <3>2
  <2> QED BY <2>1, <2>2
<1>14. \A c \in Cfg : /\ ylm_lat'[c] = NULL <=> ct_lat'[c] = NULL
                      /\ ylm_lat'[c] = NULL <=> nphi_lat'[c] = 0
                      /\ ylm_lat'[c] = NULL <=> ifft_lat'[c] = NULL
  <2> SUFFICES ASSUME NEW c \in Cfg
               PROVE  /\ ylm_lat'[c] = NULL <=> ct_lat'[c] = NULL
                      /\ ylm_lat'[c] = NULL <=> nphi_lat'[c] = 0
                      /\ ylm_lat'[c] = NULL <=> ifft_lat'[c] = NULL
    OBVIOUS
  <2>1. CASE c = cfg
    BY <1>2, <1>3, <1>4, <1>6, <1>10, <2>1
  <2>2. CASE c # cfg
    BY <1>9, <2>2 DEF CacheOK
  <2> QED BY <2>1, <2>2
<1>15. \A c \in Cfg : ylm_lat'[c] = NULL => \A d \in Cfg : ylm_lat'[d] # c
  <2> SUFFICES ASSUME NEW c \in Cfg, ylm_lat'[c] = NULL, NEW d \in Cfg PROVE ylm_lat'[d] # c
    OBVIOUS
  <2>1. c # cfg /\ ylm_lat[c] = NULL
    BY <1>3, <1>9, <1>10
  <2>2. \A e \in Cfg : ylm_lat[e] # c
    BY <2>1 DEF CacheOK
  <2>3. c # LatB
    BY <1>2, <1>11, <2>1, <2>2
  <2> QED BY <1>12, <2>2, <2>3
<1>16. \A c \in Cfg : (\A k \in 1..Made : Prog[k].cfg # c) => ylm_lat'[c] = NULL
  <2> SUFFICES ASSUME NEW c \in Cfg, \A k \in 1..Made : Prog[k].cfg # c PROVE ylm_lat'[c] = NULL
    OBVIOUS
  <2>1. Made \in Nat /\ Made \in 1..Made /\ \A k \in 1..Done : k \in 1..Made
    BY <1>2, ProgFacts DEF ProgOK
  <2>2. c # cfg
    BY <1>2, <2>1 DEF cfg
  <2>3. ylm_lat[c] = NULL
    BY <2>1 DEF CacheOK
  <2> QED BY <1>9, <2>2, <2>3
<1> QED BY <1>5, <1>8, <1>13, <1>14, <1>15, <1>16 DEF CacheOK

(* A copy gets everything its base has, and a place nobody points to. *)
LEMMA CopyCache ==
  ASSUME ProgOK, CacheOK, CreateWithGrid
  PROVE  /\ CacheOK'
         /\ ylm_lat[cfg] = NULL /\ call.base \in Cfg /\ call.base # cfg /\ Copies /\ Done = Made - 1 /\ Done' = Made
         /\ Prog' = Prog /\ Made' = Made /\ Made \in 1..Len(Prog) /\ call = Prog[Made]
<1>1. /\ pc = "run" /\ call.fn = Copying /\ pc' = "idle"
      /\ ylm_lat' = [ylm_lat EXCEPT ![cfg] = ylm_lat[call.base]]
      /\ ct_lat' = [ct_lat EXCEPT ![cfg] = ct_lat[call.base]]
      /\ nphi_lat' = [nphi_lat EXCEPT ![cfg] = nphi_lat[call.base]]
      /\ ifft_lat' = [ifft_lat EXCEPT ![cfg] = ifft_lat[call.base]]
      /\ heap' = heap /\ plans' = plans
      /\ job' = job /\ todo' = todo /\ call' = call
  BY DEF CreateWithGrid, Is, Return, Copying
<1>2. /\ Made \in 1..Len(Prog) /\ call = Prog[Made] /\ call \in CallType /\ cfg \in Cfg /\ Done = Made - 1
      /\ call.base \in Cfg
  BY <1>1, CallFacts DEF CallType
<1>3. job \in Jobs /\ Len(Prog) \in Nat /\ DOMAIN Prog = 1..Len(Prog)
  BY ProgFacts DEF ProgOK
<1>4. Prog' = Prog /\ Made' = Made /\ Done' = Made /\ NLM' = NLM
  <2>1. Prog' = Prog /\ Made' = Made
    BY <1>1 DEF Prog, Made
  <2>2. NLM' = NLM
    BY <1>1 DEF NLM, LiM, LMAX, MMAX, MRES
  <2> QED BY <1>1, <2>1, <2>2 DEF Done
<1>5. call.base # cfg /\ \A n \in 1..Done : Prog[n].cfg # cfg
  BY <1>1, <1>2, <1>3, ProgFacts DEF cfg
<1>6. ylm_lat[cfg] = NULL
  BY <1>2, <1>5 DEF CacheOK
<1>7. Copies
  BY <1>1, <1>2, <1>3 DEF Copies
<1> DEFINE b == call.base
<1>8. /\ ylm_lat \in [Cfg -> Cfg \cup {NULL}] /\ ct_lat \in [Cfg -> Lat \cup {NULL}]
      /\ nphi_lat \in [Cfg -> Nat] /\ ifft_lat \in [Cfg -> (DOMAIN plans) \cup {NULL}]
      /\ DOMAIN heap = Cfg /\ plans \in Seq(Plan)
  BY DEF CacheOK
<1>9. NULL \notin Cfg
  BY GridFreeAssumption
<1> HIDE DEF b
<1>10. /\ ylm_lat' = [ylm_lat EXCEPT ![cfg] = ylm_lat[b]]
       /\ ct_lat' = [ct_lat EXCEPT ![cfg] = ct_lat[b]]
       /\ nphi_lat' = [nphi_lat EXCEPT ![cfg] = nphi_lat[b]]
       /\ ifft_lat' = [ifft_lat EXCEPT ![cfg] = ifft_lat[b]]
       /\ b \in Cfg /\ b # cfg
  BY <1>1, <1>2, <1>5 DEF b
<1>11. /\ ylm_lat' \in [Cfg -> Cfg \cup {NULL}] /\ ct_lat' \in [Cfg -> Lat \cup {NULL}]
       /\ nphi_lat' \in [Cfg -> Nat] /\ ifft_lat' \in [Cfg -> (DOMAIN plans') \cup {NULL}]
       /\ DOMAIN heap' = Cfg /\ plans' \in Seq(Plan)
  BY <1>1, <1>2, <1>8, <1>10
<1>12. \A c \in Cfg : c # cfg =>
         ylm_lat'[c] = ylm_lat[c] /\ ct_lat'[c] = ct_lat[c] /\ nphi_lat'[c] = nphi_lat[c] /\ ifft_lat'[c] = ifft_lat[c]
  BY <1>8, <1>10
<1>13. ylm_lat'[cfg] = ylm_lat[b] /\ ct_lat'[cfg] = ct_lat[b] /\ nphi_lat'[cfg] = nphi_lat[b] /\ ifft_lat'[cfg] = ifft_lat[b]
  BY <1>2, <1>8, <1>10
<1>14. ASSUME NEW c \in Cfg
       PROVE  (\E d \in Cfg : ylm_lat'[d] = c) <=> (\E d \in Cfg : ylm_lat[d] = c)
  <2>1. ASSUME NEW d \in Cfg, ylm_lat'[d] = c PROVE \E e \in Cfg : ylm_lat[e] = c
    BY <1>10, <1>12, <1>13, <2>1
  <2>2. ASSUME NEW d \in Cfg, ylm_lat[d] = c PROVE ylm_lat'[d] = c
    BY <1>6, <1>9, <1>12, <2>2
  <2> QED BY <2>1, <2>2
<1>15. \A c \in Cfg : DOMAIN heap'[c] = IF \E d \in Cfg : ylm_lat'[d] = c THEN 0..(2 * NLM' - 1) ELSE {}
  BY <1>1, <1>4, <1>14 DEF CacheOK
<1>16. \A c \in Cfg : /\ ylm_lat[c] = NULL <=> ct_lat[c] = NULL
                      /\ ylm_lat[c] = NULL <=> nphi_lat[c] = 0
                      /\ ylm_lat[c] = NULL <=> ifft_lat[c] = NULL
  BY DEF CacheOK
<1>17. \A c \in Cfg : /\ ylm_lat'[c] = NULL <=> ct_lat'[c] = NULL
                      /\ ylm_lat'[c] = NULL <=> nphi_lat'[c] = 0
                      /\ ylm_lat'[c] = NULL <=> ifft_lat'[c] = NULL
  BY <1>10, <1>12, <1>13, <1>16
<1>18. \A c \in Cfg : ylm_lat'[c] = NULL => \A d \in Cfg : ylm_lat'[d] # c
  <2> SUFFICES ASSUME NEW c \in Cfg, ylm_lat'[c] = NULL PROVE ~(\E d \in Cfg : ylm_lat[d] = c)
    BY <1>14
  <2>1. ylm_lat[c] = NULL
    BY <1>6, <1>12
  <2> QED BY <2>1 DEF CacheOK
<1>19. \A c \in Cfg : (\A k \in 1..Made : Prog[k].cfg # c) => ylm_lat'[c] = NULL
  <2> SUFFICES ASSUME NEW c \in Cfg, \A k \in 1..Made : Prog[k].cfg # c PROVE ylm_lat'[c] = NULL
    OBVIOUS
  <2>1. Made \in 1..Made /\ \A k \in 1..Done : k \in 1..Made
    BY <1>2, <1>3
  <2>2. c # cfg
    BY <1>2, <2>1 DEF cfg
  <2>3. ylm_lat[c] = NULL
    BY <2>1 DEF CacheOK
  <2> QED BY <1>12, <2>2, <2>3
<1>20. CacheOK'
  BY <1>4, <1>11, <1>15, <1>17, <1>18, <1>19 DEF CacheOK
<1> QED BY <1>2, <1>4, <1>5, <1>6, <1>7, <1>20

(* Steps which leave the caches alone. *)
LEMMA SameCache ==
  ASSUME CacheOK, job' = job, Prog' = Prog, Done' \in Int, Done \in Int, Done <= Done', UNCHANGED lat
  PROVE  CacheOK'
<1>1. NLM' = NLM
  BY DEF NLM, LiM, LMAX, MMAX, MRES
<1>2. /\ ylm_lat' = ylm_lat /\ ct_lat' = ct_lat /\ nphi_lat' = nphi_lat /\ ifft_lat' = ifft_lat
      /\ heap' = heap /\ plans' = plans
  BY DEF lat
<1>3. \A c \in Cfg : (\A k \in 1..Done' : Prog'[k].cfg # c) => ylm_lat'[c] = NULL
  <2> SUFFICES ASSUME NEW c \in Cfg, \A k \in 1..Done' : Prog'[k].cfg # c PROVE ylm_lat'[c] = NULL
    OBVIOUS
  <2>1. \A k \in 1..Done : k \in 1..Done'
    OBVIOUS
  <2>2. ylm_lat[c] = NULL
    BY <2>1 DEF CacheOK
  <2> QED BY <1>2, <2>2
<1> QED BY <1>1, <1>2, <1>3 DEF CacheOK

(* Nothing is left behind before the first call. *)
LEMMA InitCache ==
  ASSUME Init
  PROVE  ProgOK /\ CacheOK
<1>1. /\ job \in Jobs /\ todo = job.prog /\ call = NULL /\ pc = "idle"
      /\ ylm_lat = [c \in Cfg |-> NULL] /\ ct_lat = [c \in Cfg |-> NULL]
      /\ nphi_lat = [c \in Cfg |-> 0] /\ ifft_lat = [c \in Cfg |-> NULL]
      /\ heap = [c \in Cfg |-> <<>>] /\ plans = <<>>
  BY DEF Init
<1>2. todo = Prog /\ Prog \in Seq(CallType) /\ Len(Prog) \in Nat
  BY <1>1, ProgFacts DEF Prog
<1>3. Made = 0
  BY <1>2 DEF Made
<1>4. ProgOK
  BY <1>1, <1>2, <1>3 DEF ProgOK
<1>5. NULL \notin Cfg
  BY GridFreeAssumption
<1>6. /\ ylm_lat \in [Cfg -> Cfg \cup {NULL}] /\ ct_lat \in [Cfg -> Lat \cup {NULL}]
      /\ nphi_lat \in [Cfg -> Nat] /\ ifft_lat \in [Cfg -> (DOMAIN plans) \cup {NULL}]
      /\ DOMAIN heap = Cfg /\ plans \in Seq(Plan)
  BY <1>1
<1>7. \A c \in Cfg : DOMAIN heap[c] = {} /\ ylm_lat[c] = NULL /\ ct_lat[c] = NULL /\ nphi_lat[c] = 0 /\ ifft_lat[c] = NULL
  <2> SUFFICES ASSUME NEW c \in Cfg
               PROVE  DOMAIN heap[c] = {} /\ ylm_lat[c] = NULL /\ ct_lat[c] = NULL /\ nphi_lat[c] = 0 /\ ifft_lat[c] = NULL
    OBVIOUS
  <2>1. heap[c] = <<>>
    BY <1>1
  <2>2. DOMAIN heap[c] = {}
    BY <2>1
  <2>3. ylm_lat[c] = NULL /\ ct_lat[c] = NULL
    BY <1>1
  <2>4. nphi_lat[c] = 0 /\ ifft_lat[c] = NULL
    BY <1>1
  <2> QED BY <2>2, <2>3, <2>4
<1>8. CacheOK
  BY <1>5, <1>6, <1>7 DEF CacheOK
<1> QED BY <1>4, <1>8
-----------------------------------------------------------------------------
(* Careful programs: what is left behind is what the next call needs.      *)

CarefulJobs == \A j \in Jobs : Careful(j.prog)

(* The block of c was filled by the i-th call, for the latitude c is at. *)
KeptAt(c, i) ==
  /\ Prog[i].fn \in ToLat /\ Prog[i].x = ct_lat[c]
  /\ \E b, p : b = heap[ylm_lat[c]] /\ p = Prog[i] /\ Holds(b, p)
  /\ ~Copies => /\ Prog[i].cfg = c
                /\ \A k \in i..Done : Prog[k].fn \in ToLat /\ Prog[k].cfg = c => Prog[k].x = ct_lat[c]
KeptOK == \A c \in Cfg : ct_lat[c] # NULL => \E i \in 1..Done : KeptAt(c, i)

(* The plan of a configuration exists. *)
PlansOK ==
  \A c \in Cfg : ifft_lat[c] # NULL =>
    /\ plans[ifft_lat[c]] = [n |-> nphi_lat[c], alive |-> TRUE]
    /\ Copies => \E i \in 1..Done : Prog[i].fn \in ToLat /\ Prog[i].nphi = nphi_lat[c]

(* Without copies nothing is shared. *)
ApartOK ==
  ~Copies => /\ \A c \in Cfg : ylm_lat[c] \in {c, NULL}
             /\ \A c \in Cfg, d \in Cfg : c # d /\ ifft_lat[c] = ifft_lat[d] => ifft_lat[c] = NULL

KeepOK == KeptOK /\ PlansOK /\ ApartOK

(* What a careful program promises about two of its calls. *)
LEMMA CarefulFacts ==
  ASSUME CarefulJobs, job \in Jobs,
         NEW k \in 1..Len(Prog), NEW n \in 1..Len(Prog), k < n, Prog[k].fn \in ToLat, Prog[n].fn \in ToLat
  PROVE  /\ Copies => Prog[n].x = Prog[k].x /\ Prog[n].nphi = Prog[k].nphi /\ Within(Prog[n], Prog[k])
         /\ (~Copies /\ Prog[n].cfg = Prog[k].cfg
              /\ \A i \in k..n : Prog[i].fn \in ToLat /\ Prog[i].cfg = Prog[k].cfg => Prog[i].x = Prog[k].x)
            => Within(Prog[n], Prog[k])
<1>1. Careful(Prog) /\ DOMAIN Prog = 1..Len(Prog)
  BY ProgFacts DEF CarefulJobs, Prog
<1>2. k \in DOMAIN Prog /\ n \in DOMAIN Prog
  BY <1>1
<1> HIDE DEF Prog
<1>3. Copies => Prog[n].x = Prog[k].x /\ Prog[n].nphi = Prog[k].nphi /\ Within(Prog[n], Prog[k])
  BY <1>1, <1>2 DEF Careful, Copies, Copying
<1>4. ASSUME ~Copies, Prog[n].cfg = Prog[k].cfg,
             \A i \in k..n : Prog[i].fn \in ToLat /\ Prog[i].cfg = Prog[k].cfg => Prog[i].x = Prog[k].x
      PROVE  Within(Prog[n], Prog[k])
  BY <1>1, <1>2, <1>4 DEF Careful, Copies, Copying
<1> QED BY <1>3, <1>4

(* What a call needs depends on the job, which stays. *)
LEMMA HoldsSame ==
  ASSUME job' = job, NEW b, NEW p
  PROVE  Holds(b, p)' <=> Holds(b, p)
BY DEF Holds, LiM, NLM, LtrOf, MtrOf, LMAX, MMAX, MRES, Val, Stored, FirstDegree, Kind

(* The field a call stands for, too. *)
LEMMA FieldSame ==
  ASSUME job' = job, call' = call
  PROVE  FieldTerms' = FieldTerms
BY DEF FieldTerms, LMAX, MMAX, MRES, FirstDegree

(* With careful calls, a call at the latitude of its configuration is within the one which
   filled the block; where configurations are copied, a used one is never filled again. *)
LEMMA CallWithin ==
  ASSUME CarefulJobs, ProgOK, CacheOK, KeepOK, pc = "run", call.fn \in ToLat, ct_lat[cfg] # NULL
  PROVE  /\ call.x = ct_lat[cfg] => Holds(LatBlock, call)
         /\ Copies => call.x = ct_lat[cfg] /\ call.nphi = nphi_lat[cfg]
<1>1. /\ Made \in 1..Len(Prog) /\ call = Prog[Made] /\ call \in CallType /\ cfg \in Cfg /\ Done = Made - 1
  BY CallFacts
<1>2. job \in Jobs /\ Len(Prog) \in Nat /\ \A k \in 1..Len(Prog) : Prog[k] \in CallType
  BY ProgFacts DEF ProgOK
<1>3. PICK i \in 1..Done : KeptAt(cfg, i)
  BY <1>1 DEF KeepOK, KeptOK
<1>4. i \in 1..Len(Prog) /\ i < Made /\ Prog[i].fn \in ToLat /\ Prog[i].x = ct_lat[cfg]
  BY <1>1, <1>2, <1>3 DEF KeptAt
<1>5. PICK b, p : b = heap[ylm_lat[cfg]] /\ p = Prog[i] /\ Holds(b, p)
  BY <1>3 DEF KeptAt
<1>6. Copies => call.x = Prog[i].x /\ call.nphi = Prog[i].nphi /\ Within(call, Prog[i])
  BY <1>1, <1>2, <1>4, CarefulFacts
<1>7. ASSUME call.x = ct_lat[cfg] PROVE Holds(LatBlock, call)
  <2>1. Within(call, Prog[i])
    <3>1. CASE Copies
      BY <1>6, <3>1
    <3>2. CASE ~Copies
      <4>1. Prog[i].cfg = cfg /\ \A k \in i..Done : Prog[k].fn \in ToLat /\ Prog[k].cfg = cfg => Prog[k].x = ct_lat[cfg]
        BY <1>3, <3>2 DEF KeptAt
      <4>2. \A k \in i..Made : Prog[k].fn \in ToLat /\ Prog[k].cfg = Prog[i].cfg => Prog[k].x = Prog[i].x
        <5> SUFFICES ASSUME NEW k \in i..Made, Prog[k].fn \in ToLat, Prog[k].cfg = Prog[i].cfg
                     PROVE  Prog[k].x = Prog[i].x
          OBVIOUS
        <5>1. CASE k = Made
          BY <1>1, <1>4, <1>7, <5>1
        <5>2. CASE k # Made
          <6>1. k \in i..Done
            BY <1>1, <1>4, <5>2
          <6> QED BY <1>4, <4>1, <6>1
        <5> QED BY <5>1, <5>2
      <4>3. Prog[Made].cfg = Prog[i].cfg
        BY <1>1, <4>1 DEF cfg
      <4> QED BY <1>1, <1>2, <1>4, <3>2, <4>2, <4>3, CarefulFacts
    <3> QED BY <3>1, <3>2
  <2>2. LatBlock = b
    <3>1. ylm_lat[cfg] # NULL
      BY <1>1 DEF CacheOK
    <3> QED BY <1>5, <1>7, <3>1 DEF LatBlock, LatOld, LatB
  <2>3. p \in CallType /\ p.x = call.x /\ Within(call, p)
    BY <1>2, <1>4, <1>5, <1>7, <2>1
  <2>4. Holds(b, call)
    BY <1>1, <1>2, <1>5, <2>3, HoldsWithin
  <2> QED BY <2>2, <2>4
<1>8. Copies => call.nphi = nphi_lat[cfg]
  <2> SUFFICES ASSUME Copies PROVE call.nphi = nphi_lat[cfg]
    OBVIOUS
  <2>1. ifft_lat[cfg] # NULL
    BY <1>1 DEF CacheOK
  <2>2. PICK j \in 1..Done : Prog[j].fn \in ToLat /\ Prog[j].nphi = nphi_lat[cfg]
    BY <1>1, <2>1 DEF KeepOK, PlansOK
  <2>3. j \in 1..Len(Prog) /\ j < Made
    BY <1>1, <1>2
  <2>4. Prog[Made].nphi = Prog[j].nphi
    BY <1>1, <1>2, <2>2, <2>3, CarefulFacts
  <2> QED BY <1>1, <2>2, <2>4
<1> QED BY <1>4, <1>6, <1>7, <1>8

(* A call for a latitude has the block it needs. *)
LEMMA BlockHolds ==
  ASSUME CarefulJobs, ProgOK, CacheOK, KeepOK, pc = "run", call.fn \in ToLat
  PROVE  Holds(LatBlock, call)
<1>1. CASE call.x # ct_lat[cfg]
  BY <1>1, BlockFacts
<1>2. CASE call.x = ct_lat[cfg]
  <2>1. call.x # NULL
    BY CallFacts, GridFreeAssumption DEF CallType
  <2> QED BY <1>2, <2>1, CallWithin
<1> QED BY <1>1, <1>2

(* It spoils no block of another configuration. *)
LEMMA OthersKept ==
  ASSUME CarefulJobs, ProgOK, CacheOK, KeepOK, EvalLat, NEW c \in Cfg, c # cfg, ct_lat[c] # NULL
  PROVE  heap'[ylm_lat'[c]] = heap[ylm_lat[c]] /\ ylm_lat'[c] = ylm_lat[c] /\ ct_lat'[c] = ct_lat[c]
<1>1. /\ pc = "run" /\ call.fn \in ToLat /\ heap' = [heap EXCEPT ![LatB] = LatBlock]
      /\ ylm_lat' = [ylm_lat EXCEPT ![cfg] = LatB] /\ ct_lat' = [ct_lat EXCEPT ![cfg] = call.x]
  BY EvalLatIs
<1>2. cfg \in Cfg /\ LatB \in Cfg
  BY <1>1, BlockFacts
<1>3. /\ ylm_lat \in [Cfg -> Cfg \cup {NULL}] /\ ct_lat \in [Cfg -> Lat \cup {NULL}] /\ DOMAIN heap = Cfg
      /\ ylm_lat[c] # NULL /\ (ylm_lat[cfg] = NULL <=> ct_lat[cfg] = NULL)
  BY <1>2 DEF CacheOK
<1>4. ylm_lat'[c] = ylm_lat[c] /\ ct_lat'[c] = ct_lat[c] /\ ylm_lat[c] \in Cfg
  BY <1>1, <1>3
<1>5. CASE LatB # ylm_lat[c]
  BY <1>1, <1>3, <1>4, <1>5
<1>6. CASE LatB = ylm_lat[c]
  <2>1. Copies
    <3> SUFFICES ASSUME ~Copies PROVE FALSE
      OBVIOUS
    <3>1. ylm_lat[c] = c
      BY <1>3 DEF KeepOK, ApartOK
    <3>2. LatB = cfg
      BY <1>2 DEF KeepOK, ApartOK, LatB
    <3> QED BY <1>6, <3>1, <3>2
  <2>2. ylm_lat[cfg] # NULL
    <3> SUFFICES ASSUME ylm_lat[cfg] = NULL PROVE FALSE
      OBVIOUS
    <3>1. LatB = cfg /\ \A d \in Cfg : ylm_lat[d] # cfg
      BY <1>2 DEF LatB, CacheOK
    <3> QED BY <1>6, <3>1
  <2>3. call.x = ct_lat[cfg]
    BY <1>1, <1>3, <2>1, <2>2, CallWithin
  <2>4. LatBlock = heap[LatB]
    BY <2>2, <2>3 DEF LatBlock, LatOld
  <2> QED BY <1>1, <1>3, <1>4, <1>6, <2>4
<1> QED BY <1>4, <1>5, <1>6

(* What a call for a latitude leaves behind. *)
LEMMA EvalLatKeeps ==
  ASSUME CarefulJobs, ProgOK, CacheOK, KeepOK, EvalLat
  PROVE  KeepOK'
<1>1. /\ pc = "run" /\ call.fn \in ToLat /\ pc' = "idle"
      /\ ylm_lat' = [ylm_lat EXCEPT ![cfg] = LatB] /\ heap' = [heap EXCEPT ![LatB] = LatBlock]
      /\ ct_lat' = [ct_lat EXCEPT ![cfg] = call.x] /\ plans' = NextPlans
      /\ nphi_lat' = [nphi_lat EXCEPT ![cfg] = call.nphi]
      /\ ifft_lat' = [ifft_lat EXCEPT ![cfg] = LatPlan]
      /\ job' = job /\ todo' = todo /\ call' = call
  BY EvalLatIs
<1>2. /\ Made \in 1..Len(Prog) /\ call = Prog[Made] /\ call \in CallType /\ cfg \in Cfg /\ Done = Made - 1
      /\ call.x \in Lat /\ call.nphi \in Nat \ {0}
  BY <1>1, CallFacts DEF CallType
<1>3. job \in Jobs /\ Len(Prog) \in Nat
  BY ProgFacts DEF ProgOK
<1>4. Prog' = Prog /\ Made' = Made /\ Done' = Made /\ (Copies' <=> Copies)
  <2>1. Prog' = Prog /\ Made' = Made
    BY <1>1 DEF Prog, Made
  <2> QED BY <1>1, <2>1 DEF Done, Copies
<1>5. /\ ylm_lat \in [Cfg -> Cfg \cup {NULL}] /\ ct_lat \in [Cfg -> Lat \cup {NULL}]
      /\ nphi_lat \in [Cfg -> Nat] /\ ifft_lat \in [Cfg -> (DOMAIN plans) \cup {NULL}]
      /\ DOMAIN heap = Cfg
      /\ \A c \in Cfg : /\ ylm_lat[c] = NULL <=> ct_lat[c] = NULL
                        /\ ylm_lat[c] = NULL <=> nphi_lat[c] = 0
                        /\ ylm_lat[c] = NULL <=> ifft_lat[c] = NULL
  BY DEF CacheOK
<1>6. NULL \notin Cfg /\ NULL \notin Lat
  BY GridFreeAssumption
<1>7. LatB \in Cfg
  BY <1>1, BlockFacts
<1>8. /\ ylm_lat'[cfg] = LatB /\ ct_lat'[cfg] = call.x /\ nphi_lat'[cfg] = call.nphi /\ ifft_lat'[cfg] = LatPlan
      /\ heap'[LatB] = LatBlock
  BY <1>1, <1>2, <1>5, <1>7
<1>9. \A c \in Cfg : c # cfg =>
        /\ ylm_lat'[c] = ylm_lat[c] /\ ct_lat'[c] = ct_lat[c]
        /\ nphi_lat'[c] = nphi_lat[c] /\ ifft_lat'[c] = ifft_lat[c]
  BY <1>1, <1>5
<1>10. Made \in 1..Made /\ \A i \in 1..Done : i \in 1..Made
  BY <1>2, <1>3
\* A block which is kept, with one more call done.
<1>11. ASSUME NEW c \in Cfg, ct_lat[c] # NULL, heap'[ylm_lat'[c]] = heap[ylm_lat[c]], ct_lat'[c] = ct_lat[c],
              c = cfg => call.x = ct_lat[c]
       PROVE  \E i \in 1..Made : KeptAt(c, i)'
  <2>1. PICK i \in 1..Done : KeptAt(c, i)
    BY <1>11 DEF KeepOK, KeptOK
  <2>2. \E b, p : b = heap'[ylm_lat'[c]] /\ p = Prog'[i] /\ Holds(b, p)'
    <3>1. PICK b, p : b = heap[ylm_lat[c]] /\ p = Prog[i] /\ Holds(b, p)
      BY <2>1 DEF KeptAt
    <3>2. Holds(b, p)'
      BY <1>1, <3>1, HoldsSame
    <3> QED BY <1>4, <1>11, <3>1, <3>2
  <2>3. ASSUME ~Copies
        PROVE  /\ Prog[i].cfg = c
               /\ \A k \in i..Made : Prog[k].fn \in ToLat /\ Prog[k].cfg = c => Prog[k].x = ct_lat[c]
    <3>1. Prog[i].cfg = c /\ \A k \in i..Done : Prog[k].fn \in ToLat /\ Prog[k].cfg = c => Prog[k].x = ct_lat[c]
      BY <2>1, <2>3 DEF KeptAt
    <3>2. ASSUME NEW k \in i..Made, Prog[k].fn \in ToLat, Prog[k].cfg = c PROVE Prog[k].x = ct_lat[c]
      <4>1. CASE k = Made
        BY <1>2, <1>11, <3>2, <4>1 DEF cfg
      <4>2. CASE k # Made
        <5>1. k \in i..Done
          BY <1>2, <2>1, <4>2
        <5> QED BY <3>1, <3>2, <5>1
      <4> QED BY <4>1, <4>2
    <3> QED BY <3>1, <3>2
  <2>4. Prog[i].fn \in ToLat /\ Prog[i].x = ct_lat[c]
    BY <2>1 DEF KeptAt
  <2>5. KeptAt(c, i)'
    BY <1>4, <1>11, <2>2, <2>3, <2>4 DEF KeptAt
  <2> QED BY <1>10, <2>5
<1>12. KeptOK'
  <2> SUFFICES ASSUME NEW c \in Cfg, ct_lat'[c] # NULL PROVE \E i \in 1..Made : KeptAt(c, i)'
    BY <1>4 DEF KeptOK
  <2>1. CASE c # cfg
    <3>1. ct_lat[c] # NULL
      BY <1>9, <2>1
    <3> QED BY <1>11, <2>1, <3>1, OthersKept
  <2>2. CASE c = cfg /\ call.x = ct_lat[cfg]
    <3>1. ct_lat[c] # NULL /\ ylm_lat[c] # NULL
      BY <1>2, <1>5, <1>6, <2>2
    <3>2. LatBlock = heap[LatB] /\ LatB = ylm_lat[cfg]
      BY <2>2, <3>1 DEF LatBlock, LatOld, LatB
    <3> QED BY <1>8, <1>11, <2>2, <3>1, <3>2
  <2>3. CASE c = cfg /\ call.x # ct_lat[cfg]
    <3>1. Holds(LatBlock, call)
      BY <1>1, <2>3, BlockFacts
    <3>2. \E b, p : b = heap'[ylm_lat'[c]] /\ p = Prog'[Made] /\ Holds(b, p)'
      <4> DEFINE b == LatBlock
                 p == call
      <4>1. \A u, v : Holds(u, v)' <=> Holds(u, v)
        BY <1>1, HoldsSame
      <4>2. b = heap'[ylm_lat'[c]] /\ p = Prog'[Made] /\ Holds(b, p)
        BY <1>2, <1>4, <1>8, <2>3, <3>1
      <4> HIDE DEF b, p
      <4>3. PICK u, v : u = b /\ v = p
        OBVIOUS
      <4>4. u = heap'[ylm_lat'[c]] /\ v = Prog'[Made] /\ Holds(u, v)
        BY <4>2, <4>3
      <4>5. Holds(u, v)'
        BY <4>1, <4>4
      <4> QED BY <4>4, <4>5
    <3>3. Prog[Made].fn \in ToLat /\ Prog[Made].x = ct_lat'[c] /\ Prog[Made].cfg = c
      BY <1>1, <1>2, <1>8, <2>3 DEF cfg
    <3>4. \A k \in Made..Made : k = Made
      BY <1>2, <1>3
    <3>5. ~Copies' => \A k \in Made..Made : Prog[k].fn \in ToLat /\ Prog[k].cfg = c => Prog[k].x = ct_lat'[c]
      BY <3>3, <3>4
    <3>6. PICK j \in 1..Made : j = Made
      BY <1>10
    <3>7. KeptAt(c, j)'
      BY <1>4, <3>2, <3>3, <3>5, <3>6 DEF KeptAt
    <3> QED BY <3>6, <3>7
  <2> QED BY <2>1, <2>2, <2>3
<1>13. /\ DOMAIN plans \subseteq DOMAIN NextPlans /\ LatPlan # NULL
       /\ Again => /\ NextPlans[LatPlan] = [n |-> call.nphi, alive |-> TRUE]
                   /\ LatPlan \notin DOMAIN plans
       /\ ~Again => LatPlan = ifft_lat[cfg]
       /\ \A i \in DOMAIN plans : i \notin DeadPlans => NextPlans[i] = plans[i]
  BY <1>1, PlanFacts
<1>14. PlansOK'
  <2> SUFFICES ASSUME NEW c \in Cfg, ifft_lat'[c] # NULL
               PROVE  /\ plans'[ifft_lat'[c]] = [n |-> nphi_lat'[c], alive |-> TRUE]
                      /\ Copies => \E i \in 1..Made : Prog[i].fn \in ToLat /\ Prog[i].nphi = nphi_lat'[c]
    BY <1>4 DEF PlansOK
  <2>1. CASE c = cfg
    <3>1. \E i \in 1..Made : Prog[i].fn \in ToLat /\ Prog[i].nphi = nphi_lat'[c]
      BY <1>1, <1>2, <1>8, <1>10, <2>1
    <3>2. CASE Again
      BY <1>1, <1>8, <1>13, <2>1, <3>1, <3>2
    <3>3. CASE ~Again
      <4>1. call.nphi = nphi_lat[cfg] /\ DeadPlans = {} /\ LatPlan = ifft_lat[cfg]
        BY <1>13, <3>3 DEF Again, DeadPlans
      <4>2. ifft_lat[cfg] # NULL /\ ifft_lat[cfg] \in DOMAIN plans
        BY <1>2, <1>5, <1>13, <4>1
      <4>3. plans[ifft_lat[cfg]] = [n |-> nphi_lat[cfg], alive |-> TRUE]
        BY <1>2, <4>2 DEF KeepOK, PlansOK
      <4> QED BY <1>1, <1>8, <1>13, <2>1, <3>1, <4>1, <4>2, <4>3
    <3> QED BY <3>2, <3>3
  <2>2. CASE c # cfg
    <3>1. ifft_lat[c] # NULL /\ ifft_lat[c] \in DOMAIN plans /\ nphi_lat'[c] = nphi_lat[c] /\ ifft_lat'[c] = ifft_lat[c]
      BY <1>5, <1>9, <2>2
    <3>2. /\ plans[ifft_lat[c]] = [n |-> nphi_lat[c], alive |-> TRUE]
          /\ Copies => \E i \in 1..Done : Prog[i].fn \in ToLat /\ Prog[i].nphi = nphi_lat[c]
      BY <3>1 DEF KeepOK, PlansOK
    <3>3. ifft_lat[c] \notin DeadPlans
      <4> SUFFICES ASSUME Again, ifft_lat[cfg] # NULL, ifft_lat[c] = ifft_lat[cfg] PROVE FALSE
        BY DEF DeadPlans
      <4>1. CASE Copies
        <5>1. ct_lat[cfg] # NULL
          BY <1>2, <1>5
        <5>2. call.nphi = nphi_lat[cfg]
          BY <1>1, <4>1, <5>1, CallWithin
        <5> QED BY <5>2 DEF Again
      <4>2. CASE ~Copies
        BY <1>2, <2>2, <4>2 DEF KeepOK, ApartOK
      <4> QED BY <4>1, <4>2
    <3>4. plans'[ifft_lat'[c]] = [n |-> nphi_lat'[c], alive |-> TRUE]
      BY <1>1, <1>13, <3>1, <3>2, <3>3
    <3>5. Copies => \E i \in 1..Made : Prog[i].fn \in ToLat /\ Prog[i].nphi = nphi_lat'[c]
      BY <1>10, <3>1, <3>2
    <3> QED BY <3>4, <3>5
  <2> QED BY <2>1, <2>2
<1>15. ApartOK'
  <2> SUFFICES ASSUME ~Copies
               PROVE  /\ \A c \in Cfg : ylm_lat'[c] \in {c, NULL}
                      /\ \A c \in Cfg, d \in Cfg : c # d /\ ifft_lat'[c] = ifft_lat'[d] => ifft_lat'[c] = NULL
    BY <1>4 DEF ApartOK
  <2>1. /\ \A c \in Cfg : ylm_lat[c] \in {c, NULL}
        /\ \A c \in Cfg, d \in Cfg : c # d /\ ifft_lat[c] = ifft_lat[d] => ifft_lat[c] = NULL
    BY DEF KeepOK, ApartOK
  <2>2. LatB = cfg
    BY <1>2, <2>1 DEF LatB
  <2>3. \A c \in Cfg : ylm_lat'[c] \in {c, NULL}
    BY <1>8, <1>9, <2>1, <2>2
  <2>4. \A d \in Cfg : d # cfg => ifft_lat[d] # LatPlan
    <3> SUFFICES ASSUME NEW d \in Cfg, d # cfg, ifft_lat[d] = LatPlan PROVE FALSE
      OBVIOUS
    <3>1. ifft_lat[d] # NULL /\ ifft_lat[d] \in DOMAIN plans
      BY <1>5, <1>13
    <3> QED BY <1>2, <1>13, <2>1, <3>1
  <2>5. ASSUME NEW c \in Cfg, NEW d \in Cfg, c # d, ifft_lat'[c] = ifft_lat'[d] PROVE ifft_lat'[c] = NULL
    <3>1. CASE c = cfg
      BY <1>8, <1>9, <2>4, <2>5, <3>1
    <3>2. CASE d = cfg
      BY <1>8, <1>9, <2>4, <2>5, <3>2
    <3>3. CASE c # cfg /\ d # cfg
      BY <1>9, <2>1, <2>5, <3>3
    <3> QED BY <3>1, <3>2, <3>3
  <2> QED BY <2>3, <2>5
<1> QED BY <1>12, <1>14, <1>15 DEF KeepOK

(* A call which is kept remains so, if nothing changes and only other calls are made. *)
LEMMA SameKept ==
  ASSUME KeepOK, UNCHANGED lat, job' = job, Prog' = Prog, Done \in Int,
         Done' = Done \/ (Done' = Done + 1 /\ Prog[Done'].fn \notin ToLat)
  PROVE  KeepOK'
<1>1. /\ ylm_lat' = ylm_lat /\ ct_lat' = ct_lat /\ nphi_lat' = nphi_lat /\ ifft_lat' = ifft_lat
      /\ heap' = heap /\ plans' = plans
  BY DEF lat
<1>2. Copies' <=> Copies
  BY DEF Copies
<1>3. \A i \in 1..Done : i \in 1..Done'
  OBVIOUS
<1>4. ASSUME NEW c \in Cfg, NEW i \in 1..Done, KeptAt(c, i) PROVE KeptAt(c, i)'
  <2>1. \E b, p : b = heap'[ylm_lat'[c]] /\ p = Prog'[i] /\ Holds(b, p)'
    <3>1. PICK b, p : b = heap[ylm_lat[c]] /\ p = Prog[i] /\ Holds(b, p)
      BY <1>4 DEF KeptAt
    <3>2. Holds(b, p)'
      BY <3>1, HoldsSame
    <3> QED BY <1>1, <3>1, <3>2
  <2>2. ASSUME ~Copies
        PROVE  /\ Prog[i].cfg = c
               /\ \A k \in i..Done' : Prog[k].fn \in ToLat /\ Prog[k].cfg = c => Prog[k].x = ct_lat[c]
    <3>1. Prog[i].cfg = c /\ \A k \in i..Done : Prog[k].fn \in ToLat /\ Prog[k].cfg = c => Prog[k].x = ct_lat[c]
      BY <1>4, <2>2 DEF KeptAt
    <3>2. \A k \in i..Done' : k \in i..Done \/ Prog[k].fn \notin ToLat
      OBVIOUS
    <3> QED BY <3>1, <3>2
  <2>3. Prog[i].fn \in ToLat /\ Prog[i].x = ct_lat[c]
    BY <1>4 DEF KeptAt
  <2> QED BY <1>1, <1>2, <2>1, <2>2, <2>3 DEF KeptAt
<1>5. KeptOK'
  <2> SUFFICES ASSUME NEW c \in Cfg, ct_lat'[c] # NULL PROVE \E i \in 1..Done' : KeptAt(c, i)'
    BY DEF KeptOK
  <2>1. PICK i \in 1..Done : KeptAt(c, i)
    BY <1>1 DEF KeepOK, KeptOK
  <2>2. KeptAt(c, i)'
    BY <1>4, <2>1
  <2> QED BY <1>3, <2>2
<1>6. PlansOK'
  <2> SUFFICES ASSUME NEW c \in Cfg, ifft_lat'[c] # NULL
               PROVE  /\ plans'[ifft_lat'[c]] = [n |-> nphi_lat'[c], alive |-> TRUE]
                      /\ Copies => \E i \in 1..Done' : Prog[i].fn \in ToLat /\ Prog[i].nphi = nphi_lat'[c]
    BY <1>2 DEF PlansOK
  <2>1. /\ plans[ifft_lat[c]] = [n |-> nphi_lat[c], alive |-> TRUE]
        /\ Copies => \E i \in 1..Done : Prog[i].fn \in ToLat /\ Prog[i].nphi = nphi_lat[c]
    BY <1>1 DEF KeepOK, PlansOK
  <2> QED BY <1>1, <1>3, <2>1
<1>7. ApartOK'
  BY <1>1, <1>2 DEF KeepOK, ApartOK
<1> QED BY <1>5, <1>6, <1>7 DEF KeepOK

(* A copy has the block and the plan of its base. *)
LEMMA CopyKeeps ==
  ASSUME ProgOK, CacheOK, KeepOK, CreateWithGrid
  PROVE  KeepOK'
<1>1. /\ ylm_lat' = [ylm_lat EXCEPT ![cfg] = ylm_lat[call.base]]
      /\ ct_lat' = [ct_lat EXCEPT ![cfg] = ct_lat[call.base]]
      /\ nphi_lat' = [nphi_lat EXCEPT ![cfg] = nphi_lat[call.base]]
      /\ ifft_lat' = [ifft_lat EXCEPT ![cfg] = ifft_lat[call.base]]
      /\ heap' = heap /\ plans' = plans /\ job' = job /\ pc = "run"
  BY DEF CreateWithGrid, Is, Return
<1>2. /\ call.base \in Cfg /\ Copies /\ Prog' = Prog
      /\ Done = Made - 1 /\ Done' = Made /\ Made \in 1..Len(Prog)
  BY CopyCache
<1>3. Copies'
  BY <1>2 DEF Copies
<1>4. cfg \in Cfg /\ Len(Prog) \in Nat
  BY <1>1, CallFacts, ProgFacts DEF ProgOK
<1>5. \A i \in 1..Done : i \in 1..Done'
  BY <1>2, <1>4
<1>6. ylm_lat \in [Cfg -> Cfg \cup {NULL}] /\ ct_lat \in [Cfg -> Lat \cup {NULL}]
      /\ nphi_lat \in [Cfg -> Nat] /\ ifft_lat \in [Cfg -> (DOMAIN plans) \cup {NULL}]
  BY DEF CacheOK
<1>7. ASSUME NEW c \in Cfg
      PROVE  \E d \in Cfg : /\ ylm_lat'[c] = ylm_lat[d] /\ ct_lat'[c] = ct_lat[d]
                            /\ nphi_lat'[c] = nphi_lat[d] /\ ifft_lat'[c] = ifft_lat[d]
  <2> DEFINE d == IF c = cfg THEN call.base ELSE c
  <2>1. /\ d \in Cfg /\ ylm_lat'[c] = ylm_lat[d] /\ ct_lat'[c] = ct_lat[d]
        /\ nphi_lat'[c] = nphi_lat[d] /\ ifft_lat'[c] = ifft_lat[d]
    BY <1>1, <1>2, <1>4, <1>6
  <2> QED BY <2>1
<1>8. KeptOK'
  <2> SUFFICES ASSUME NEW c \in Cfg, ct_lat'[c] # NULL PROVE \E i \in 1..Done' : KeptAt(c, i)'
    BY DEF KeptOK
  <2>1. PICK d \in Cfg : ylm_lat'[c] = ylm_lat[d] /\ ct_lat'[c] = ct_lat[d]
    BY <1>7
  <2>2. PICK i \in 1..Done : KeptAt(d, i)
    BY <2>1 DEF KeepOK, KeptOK
  <2>3. \E b, p : b = heap'[ylm_lat'[c]] /\ p = Prog'[i] /\ Holds(b, p)'
    <3>1. PICK b, p : b = heap[ylm_lat[d]] /\ p = Prog[i] /\ Holds(b, p)
      BY <2>2 DEF KeptAt
    <3>2. Holds(b, p)'
      BY <1>1, <3>1, HoldsSame
    <3> QED BY <1>1, <1>2, <2>1, <3>1, <3>2
  <2>4. Prog[i].fn \in ToLat /\ Prog[i].x = ct_lat'[c]
    BY <2>1, <2>2 DEF KeptAt
  <2>5. KeptAt(c, i)'
    BY <1>2, <1>3, <2>3, <2>4 DEF KeptAt
  <2> QED BY <1>5, <2>5
<1>9. PlansOK'
  <2> SUFFICES ASSUME NEW c \in Cfg, ifft_lat'[c] # NULL
               PROVE  /\ plans'[ifft_lat'[c]] = [n |-> nphi_lat'[c], alive |-> TRUE]
                      /\ \E i \in 1..Done' : Prog[i].fn \in ToLat /\ Prog[i].nphi = nphi_lat'[c]
    BY <1>2 DEF PlansOK
  <2>1. PICK d \in Cfg : nphi_lat'[c] = nphi_lat[d] /\ ifft_lat'[c] = ifft_lat[d]
    BY <1>7
  <2>2. /\ plans[ifft_lat[d]] = [n |-> nphi_lat[d], alive |-> TRUE]
        /\ \E i \in 1..Done : Prog[i].fn \in ToLat /\ Prog[i].nphi = nphi_lat[d]
    BY <1>2, <2>1 DEF KeepOK, PlansOK
  <2> QED BY <1>1, <1>5, <2>1, <2>2
<1>10. ApartOK'
  BY <1>3 DEF ApartOK
<1> QED BY <1>8, <1>9, <1>10 DEF KeepOK

(* Nothing is kept before the first call. *)
LEMMA InitKeeps ==
  ASSUME Init
  PROVE  KeepOK
<1>1. \A c \in Cfg : ct_lat[c] = NULL /\ ifft_lat[c] = NULL /\ ylm_lat[c] = NULL
  BY DEF Init
<1>2. KeptOK
  BY <1>1 DEF KeptOK
<1>3. PlansOK
  BY <1>1 DEF PlansOK
<1>4. ApartOK
  BY <1>1 DEF ApartOK
<1> QED BY <1>2, <1>3, <1>4 DEF KeepOK
-----------------------------------------------------------------------------
(* Every step.                                                             *)

\* The steps which leave the Legendre functions and the plans as they are.
Quiet ==
  EvalPoint \/ Operate \/ RotBegin \/ RotRing \/ RotFft \/ RotStore \/ RotEnd \/ Zrotate \/ UNCHANGED vars

(* What each of them does besides its work. *)
LEMMA QuietSteps ==
  /\ EvalPoint => pc = "run" /\ call.fn \in ToPoint /\ pc' = "idle"
  /\ Operate => pc = "run" /\ call.fn \in Operators /\ pc' = "idle"
  /\ Zrotate => pc = "run" /\ call.fn \in {"SH_Zrotate"} /\ pc' = "idle"
  /\ RotBegin => pc = "run" /\ call.fn \in Rotations /\ pc' = "ring"
  /\ RotRing => pc = "ring" /\ pc' = pc
  /\ RotFft => pc = "ring" /\ pc' = "store"
  /\ RotStore => pc = "store" /\ pc' = pc
  /\ RotEnd => pc = "store" /\ pc' \in {"idle", "ring"}
  /\ Quiet => UNCHANGED lat /\ job' = job /\ call' = call /\ todo' = todo
<1> DEFINE Still == UNCHANGED lat /\ job' = job /\ call' = call /\ todo' = todo
<1>1. EvalPoint => pc = "run" /\ call.fn \in ToPoint /\ pc' = "idle" /\ Still
  BY DEF EvalPoint, Is, Return
<1>2. Operate => pc = "run" /\ call.fn \in Operators /\ pc' = "idle" /\ Still
  BY DEF Operate, Is, Return
<1>3. Zrotate => pc = "run" /\ call.fn \in {"SH_Zrotate"} /\ pc' = "idle" /\ Still
  BY DEF Zrotate, Is, Return
<1>4. RotBegin => pc = "run" /\ call.fn \in Rotations /\ pc' = "ring" /\ Still
  BY DEF RotBegin, Is
<1>5. RotRing => pc = "ring" /\ pc' = pc /\ Still
  BY DEF RotRing
<1>6. RotFft => pc = "ring" /\ pc' = "store" /\ Still
  BY DEF RotFft
<1>7. RotStore => pc = "store" /\ pc' = pc /\ Still
  BY DEF RotStore
<1>8. RotEnd => pc = "store" /\ pc' \in {"idle", "ring"} /\ Still
  BY DEF RotEnd, Return
<1>9. UNCHANGED vars => Still
  BY DEF vars, lat
<1> HIDE DEF Still
<1>10. Quiet => Still
  BY <1>1, <1>2, <1>3, <1>4, <1>5, <1>6, <1>7, <1>8, <1>9 DEF Quiet
<1> QED BY <1>1, <1>2, <1>3, <1>4, <1>5, <1>6, <1>7, <1>8, <1>10 DEF Still

(* They stay with their call, which is none for a latitude. *)
LEMMA QuietStep ==
  ASSUME ProgOK, Quiet
  PROVE  /\ ProgOK' /\ UNCHANGED lat /\ job' = job /\ call' = call /\ Prog' = Prog /\ Done \in Int
         /\ Done' = Done \/ (Done' = Done + 1 /\ Prog[Done'].fn \notin ToLat)
<1>1. UNCHANGED lat /\ job' = job /\ call' = call /\ todo' = todo
  BY QuietSteps
<1>2. \/ pc = "run" /\ call.fn \in ToPoint \cup Operators \cup {"SH_Zrotate"} /\ pc' = "idle"
      \/ pc = "run" /\ call.fn \in Rotations /\ pc' = "ring"
      \/ pc \in {"ring", "store"} /\ pc' \in {"idle", "ring", "store"}
      \/ pc' = pc
  <2>1. UNCHANGED vars => pc' = pc
    BY DEF vars
  <2> QED BY <2>1, QuietSteps DEF Quiet
<1>3. pc \in {"idle", "run", "ring", "store"} /\ (pc \in {"ring", "store"} => call.fn \in Rotations)
  BY DEF ProgOK
<1>4. /\ pc # "idle" \/ pc' = pc
      /\ pc' \in {"idle", "run", "ring", "store"} /\ (pc' \in {"ring", "store"} => call.fn \in Rotations)
  BY <1>2, <1>3
<1>5. ProgOK' /\ Prog' = Prog /\ Made' = Made /\ Len(Prog) \in Nat
  BY <1>1, <1>4, SameProg
<1>6. Made \in Int
  BY <1>5 DEF ProgOK, Made
<1>7. CASE pc = "run" /\ pc' # "run"
  <2>1. Done' = Made /\ Done = Made - 1 /\ call = Prog[Made]
    BY <1>5, <1>7, CallFacts DEF Done
  <2>2. call.fn \notin ToLat
    BY <1>2, <1>7 DEF ToPoint, Operators, Rotations, ToLat
  <2> QED BY <1>1, <1>5, <1>6, <2>1, <2>2
<1>8. CASE ~(pc = "run" /\ pc' # "run")
  <2>1. Done' = Done
    BY <1>2, <1>3, <1>5, <1>8 DEF Done
  <2> QED BY <1>1, <1>5, <1>6, <2>1 DEF Done
<1> QED BY <1>7, <1>8

(* The steps of the program. *)
LEMMA Steps ==
  ASSUME [Next]_vars
  PROVE  Start \/ EvalLat \/ CreateWithGrid \/ Quiet
BY DEF Next, Quiet, End

(* Where the program is and what its calls leave behind. *)
LEMMA BaseStep ==
  ASSUME ProgOK, CacheOK, [Next]_vars
  PROVE  ProgOK' /\ CacheOK'
<1>1. CASE Start
  <2>1. ProgOK' /\ Prog' = Prog /\ Made' = Made + 1 /\ Done' = Done
    BY <1>1, StartProg
  <2>2. UNCHANGED lat /\ job' = job /\ pc = "idle"
    BY <1>1 DEF Start
  <2>3. Done \in Int
    <3>1. Len(Prog) \in Nat
      BY ProgFacts DEF ProgOK
    <3> QED BY <2>2, <3>1 DEF Done, Made, ProgOK
  <2> QED BY <2>1, <2>2, <2>3, SameCache
<1>2. CASE EvalLat
  <2>1. pc = "run" /\ pc' = "idle" /\ job' = job /\ todo' = todo /\ call' = call
    BY <1>2, EvalLatIs
  <2> QED BY <1>2, <2>1, SameProg, EvalLatCache
<1>3. CASE CreateWithGrid
  <2>1. pc = "run" /\ pc' = "idle" /\ job' = job /\ todo' = todo /\ call' = call
    BY <1>3 DEF CreateWithGrid, Is, Return
  <2> QED BY <1>3, <2>1, SameProg, CopyCache
<1>4. CASE Quiet
  <2>1. ProgOK' /\ UNCHANGED lat /\ job' = job /\ Prog' = Prog /\ Done \in Int /\ (Done' = Done \/ Done' = Done + 1)
    BY <1>4, QuietStep
  <2> QED BY <2>1, SameCache
<1> QED BY <1>1, <1>2, <1>3, <1>4, Steps

(* What careful programs leave behind. *)
LEMMA KeepStep ==
  ASSUME CarefulJobs, ProgOK, CacheOK, KeepOK, [Next]_vars
  PROVE  KeepOK'
<1>1. CASE Start
  <2>1. Prog' = Prog /\ Done' = Done
    BY <1>1, StartProg
  <2>2. UNCHANGED lat /\ job' = job /\ pc = "idle"
    BY <1>1 DEF Start
  <2>3. Done \in Int
    <3>1. Len(Prog) \in Nat
      BY ProgFacts DEF ProgOK
    <3> QED BY <2>2, <3>1 DEF Done, Made, ProgOK
  <2> QED BY <2>1, <2>2, <2>3, SameKept
<1>2. CASE EvalLat
  BY <1>2, EvalLatKeeps
<1>3. CASE CreateWithGrid
  BY <1>3, CopyKeeps
<1>4. CASE Quiet
  BY <1>4, QuietStep, SameKept
<1> QED BY <1>1, <1>2, <1>3, <1>4, Steps

(* A field is what it should be when its call returns, and stays so until the next one. *)
LEMMA LocalStep ==
  ASSUME CarefulJobs, ProgOK, CacheOK, KeepOK, LocalRight, [Next]_vars
  PROVE  LocalRight'
<1>1. CASE Start
  BY <1>1 DEF Start, LocalRight, Ended
<1>2. CASE EvalLat
  <2>1. /\ pc = "run" /\ call.fn \in ToLat /\ call' = call /\ job' = job
        /\ res' = [terms |-> Counted(LatSums(LatBlock)), plan |-> NextPlans[LatPlan]]
    BY <1>2, EvalLatIs
  <2>2. call \in CallType /\ job \in Jobs /\ cfg \in Cfg
    BY <2>1, CallFacts DEF ProgOK
  <2>3. Holds(LatBlock, call)
    BY <2>1, BlockHolds
  <2>4. Counted(LatSums(LatBlock)) = FieldTerms
    BY <2>1, <2>2, <2>3, LatRight
  <2>5. NextPlans[LatPlan] = [n |-> call.nphi, alive |-> TRUE]
    <3>1. CASE Again
      BY <2>1, <3>1, PlanFacts
    <3>2. CASE ~Again
      <4>1. call.nphi = nphi_lat[cfg] /\ LatPlan = ifft_lat[cfg] /\ LatPlan # NULL /\ DeadPlans = {}
        BY <2>1, <3>2, PlanFacts DEF Again, DeadPlans
      <4>2. ifft_lat[cfg] \in DOMAIN plans
        BY <2>2, <4>1 DEF CacheOK
      <4>3. NextPlans[LatPlan] = plans[LatPlan]
        BY <2>1, <4>1, <4>2, PlanFacts
      <4>4. plans[LatPlan] = [n |-> nphi_lat[cfg], alive |-> TRUE]
        BY <2>2, <4>1 DEF KeepOK, PlansOK
      <4> QED BY <4>1, <4>3, <4>4
    <3> QED BY <3>1, <3>2
  <2>6. FieldTerms' = FieldTerms
    BY <2>1, FieldSame
  <2>7. call.fn \notin ToPoint
    BY <2>1 DEF ToLat, ToPoint
  <2> QED BY <2>1, <2>4, <2>5, <2>6, <2>7 DEF LocalRight, Ended
<1>3. CASE CreateWithGrid
  <2>1. call' = call /\ call.fn = "shtns_create_with_grid"
    BY <1>3 DEF CreateWithGrid, Is, Return
  <2> QED BY <2>1 DEF LocalRight, Ended, ToLat, ToPoint
<1>4. CASE EvalPoint
  <2>1. pc = "run" /\ call.fn \in ToPoint /\ call' = call /\ job' = job /\ res' = [terms |-> Counted(PointSums)]
    BY <1>4 DEF EvalPoint, Is, Return
  <2>2. call \in CallType /\ job \in Jobs
    BY <2>1, CallFacts DEF ProgOK
  <2>3. Counted(PointSums) = FieldTerms
    BY <2>1, <2>2, PointRight
  <2>4. FieldTerms' = FieldTerms
    BY <2>1, FieldSame
  <2>5. call.fn \notin ToLat
    BY <2>1 DEF ToLat, ToPoint
  <2> QED BY <2>1, <2>3, <2>4, <2>5 DEF LocalRight, Ended
<1>5. CASE UNCHANGED vars
  <2>1. call' = call /\ job' = job /\ res' = res /\ pc' = pc
    BY <1>5 DEF vars
  <2>2. FieldTerms' = FieldTerms
    BY <2>1, FieldSame
  <2> QED BY <2>1, <2>2 DEF LocalRight, Ended
<1>6. CASE Operate \/ Zrotate \/ RotBegin \/ RotRing \/ RotFft \/ RotStore \/ RotEnd
  <2>1. call' = call
    BY <1>6, QuietSteps DEF Quiet
  <2>2. pc \in {"ring", "store"} => call.fn \in Rotations
    BY DEF ProgOK
  <2>3. call.fn \in Operators \cup Rotations \cup {"SH_Zrotate"}
    BY <1>6, <2>2, QuietSteps
  <2> QED BY <2>1, <2>3 DEF LocalRight, Ended, Operators, Rotations, ToLat, ToPoint
<1> QED BY <1>1, <1>2, <1>3, <1>4, <1>5, <1>6, Steps DEF Quiet

(* So is a product. *)
LEMMA OperatorsStep ==
  ASSUME ProgOK, OperatorsRight, [Next]_vars
  PROVE  OperatorsRight'
<1>0. OperatorsRight <=> (Ended(Operators) => res.r = Expected)
  BY DEF OperatorsRight, Expected
<1>1. CASE Start
  BY <1>1 DEF Start, OperatorsRight, Ended
<1>2. CASE Operate
  <2>1. pc = "run" /\ call' = call /\ job' = job /\ call.fn \in Operators /\ res' = [r |-> SH_mul_mx(Matrix)]
    BY <1>2 DEF Operate, Is, Return, Matrix
  <2>2. job \in Jobs
    BY DEF ProgOK
  <2>3. res'.r = Expected
    BY <2>1, <2>2, OperateRight
  <2>4. Expected' = Expected
    BY <2>1 DEF Expected, NLM, Coef, LiM, LMAX, MMAX, MRES
  <2>5. OperatorsRight' <=> (Ended(Operators)' => res'.r = Expected')
    BY DEF OperatorsRight, Expected
  <2> QED BY <2>3, <2>4, <2>5
<1>3. CASE UNCHANGED vars
  <2>1. call' = call /\ job' = job /\ res' = res /\ pc' = pc
    BY <1>3 DEF vars
  <2>2. Expected' = Expected
    BY <2>1 DEF Expected, NLM, Coef, LiM, LMAX, MMAX, MRES
  <2>3. OperatorsRight' <=> (Ended(Operators)' => res'.r = Expected')
    BY DEF OperatorsRight, Expected
  <2> QED BY <1>0, <2>1, <2>2, <2>3 DEF Ended
<1>4. CASE EvalLat \/ CreateWithGrid \/ EvalPoint \/ Zrotate
  <2>1. call' = call /\ call.fn \in ToLat \cup ToPoint \cup {"SH_Zrotate", "shtns_create_with_grid"}
    <3>1. EvalLat => call' = call /\ call.fn \in ToLat
      BY EvalLatIs
    <3>2. CreateWithGrid => call' = call /\ call.fn \in {"shtns_create_with_grid"}
      BY DEF CreateWithGrid, Is, Return
    <3> QED BY <1>4, <3>1, <3>2, QuietSteps DEF Quiet
  <2> QED BY <2>1 DEF OperatorsRight, Ended, Operators, ToLat, ToPoint
<1>5. CASE RotBegin \/ RotRing \/ RotFft \/ RotStore \/ RotEnd
  <2>1. call' = call
    BY <1>5, QuietSteps DEF Quiet
  <2>2. call.fn \in Rotations
    <3>1. pc \in {"ring", "store"} => call.fn \in Rotations
      BY DEF ProgOK
    <3> QED BY <1>5, <3>1, QuietSteps
  <2> QED BY <2>1, <2>2 DEF OperatorsRight, Ended, Operators, Rotations
<1> QED BY <1>1, <1>2, <1>3, <1>4, <1>5, Steps DEF Quiet
-----------------------------------------------------------------------------
(* Rotations stay within the ring of points and within their result.       *)

RingEnd == (2 * ntheta + 2) * LMAX - 1
OrderStart(m) == IF m = 0 THEN 1 ELSE IF m <= LMAX THEN LiM(m, m) ELSE NLM
RotFields == {"n", "k", "Q", "qv", "q0", "faint", "m", "lm", "R"}

(* The latitudes are taken by whole blocks; the coefficients are counted from where an order starts. *)
RotShape(r, p) ==
  /\ DOMAIN r = RotFields
  /\ r.k \in Nat /\ r.k % NWAY = 0
  /\ DOMAIN r.q0 = 0..RingEnd
  /\ r.m \in 0..(LMAX + 1) /\ r.lm = OrderStart(r.m) /\ (p = "ring" => r.m = 0)
  /\ DOMAIN r.R \subseteq 0..(NLM - 1)
RotOK ==
  /\ rot # NULL => pc \in {"ring", "store"}
  /\ pc \in {"ring", "store"} => RotShape(rot, pc)

(* A product divided by one of its factors. *)
LEMMA MulDiv ==
  ASSUME NEW a \in Nat, NEW b \in Nat \ {0}
  PROVE  (a * b) \div b = a
<1> DEFINE c == a * b
           n == c \div b
<1>1. c \in Nat
  OBVIOUS
<1> HIDE DEF c
<1>2. n \in Nat /\ \A k \in Nat : k <= n <=> k * b <= c
  BY <1>1, Quotient
<1> HIDE DEF n
<1>3. a <= n
  BY <1>2 DEF c
<1>4. n * b <= a * b
  BY <1>2 DEF c
<1>5. n <= a
  <2> SUFFICES ASSUME n >= a + 1 PROVE FALSE
    BY <1>2
  <2> DEFINE d == n - (a + 1)
  <2>1. d \in Nat /\ n = a + 1 + d
    BY <1>2
  <2> HIDE DEF d
  <2>2. n * b = a * b + b + d * b /\ d * b \in Nat /\ a * b \in Nat
    BY <2>1
  <2> QED BY <1>4, <2>2
<1>6. n = a
  BY <1>2, <1>3, <1>5
<1> QED BY <1>6 DEF n, c

(* The quarter of the circle consists of whole blocks of latitudes. *)
LEMMA QuarterFacts ==
  ASSUME job \in Jobs
  PROVE  /\ nk \in Nat /\ ntheta \in Nat /\ ntheta = 2 * (nk * VSIZE2)
         /\ \A k \in Nat : k % NWAY = 0 /\ k < nk => k + NWAY <= nk
<1>1. LMAX \in Nat /\ NWAY \in Nat \ {0} /\ VSIZE2 \in Nat \ {0}
  BY JobFacts
<1> DEFINE D == 2 * VSIZE2 * NWAY
           e == LMAX + 2 * VSIZE2 * NWAY
           q == e \div D
           w == 2 * VSIZE2
           a == q * NWAY
<1>2. D \in Nat \ {0} /\ e \in Nat /\ w \in Nat \ {0}
  <2>1. VSIZE2 * NWAY \in Nat \ {0}
    BY <1>1
  <2> QED BY <1>1, <2>1
<1>3. ntheta = q * 2 * VSIZE2 * NWAY
  BY DEF ntheta
<1>4. nk = ntheta \div w
  BY DEF nk
<1> HIDE DEF D, e
<1>5. q \in Nat
  BY <1>2, Quotient
<1> HIDE DEF q
<1>6. a \in Nat /\ ntheta = a * w
  BY <1>1, <1>3, <1>5
<1> HIDE DEF w
<1>7. nk = a
  <2> HIDE DEF a
  <2> QED BY <1>2, <1>4, <1>6, MulDiv
<1>8. ntheta = 2 * (nk * VSIZE2) /\ ntheta \in Nat
  <2> HIDE DEF a
  <2> QED BY <1>1, <1>6, <1>7 DEF w
<1>9. ASSUME NEW k \in Nat, k % NWAY = 0, k < nk PROVE k + NWAY <= nk
  <2> DEFINE s == k \div NWAY
  <2>1. s \in Nat /\ k = NWAY * s
    BY <1>1, <1>9
  <2> HIDE DEF s
  <2>2. s < q
    <3> SUFFICES ASSUME s >= q PROVE FALSE
      BY <1>5, <2>1
    <3> DEFINE d == s - q
    <3>1. d \in Nat /\ s = q + d
      BY <1>5, <2>1
    <3> HIDE DEF d
    <3>2. k = q * NWAY + NWAY * d /\ NWAY * d \in Nat
      BY <1>1, <1>5, <2>1, <3>1
    <3> QED BY <1>6, <1>7, <1>9, <3>2
  <2> DEFINE d == q - (s + 1)
  <2>3. d \in Nat /\ q = s + 1 + d
    BY <1>5, <2>1, <2>2
  <2> HIDE DEF d
  <2>4. nk = k + NWAY + d * NWAY /\ d * NWAY \in Nat
    BY <1>1, <1>7, <2>1, <2>3
  <2> QED BY <1>1, <2>4
<1> QED BY <1>6, <1>7, <1>8, <1>9

(* The latitudes of a block are in the quarter, and their four points on the circle. *)
LEMMA PositionFacts ==
  ASSUME job \in Jobs, NEW k \in Nat, k % NWAY = 0, k < nk,
         NEW j \in 0..(NWAY - 1), NEW i \in 0..(VSIZE2 - 1), NEW p \in Points
  PROVE  /\ (k + j) * VSIZE2 + i \in 0..(nk * VSIZE2 - 1)
         /\ Position(p, (k + j) * VSIZE2 + i) \in 0..(2 * ntheta - 1)
<1>1. NWAY \in Nat \ {0} /\ VSIZE2 \in Nat \ {0}
  BY JobFacts
<1>2. nk \in Nat /\ ntheta \in Nat /\ ntheta = 2 * (nk * VSIZE2) /\ k + NWAY <= nk
  BY QuarterFacts
<1> DEFINE v == k + j
           d == nk - (v + 1)
           x == v * VSIZE2 + i
           h == nk * VSIZE2
<1>3. v \in Nat /\ d \in Nat /\ nk = v + 1 + d
  BY <1>1, <1>2
<1> HIDE DEF v, d
<1>4. v * VSIZE2 \in Nat /\ d * VSIZE2 \in Nat /\ h = v * VSIZE2 + VSIZE2 + d * VSIZE2
  BY <1>1, <1>3
<1>5. x \in Int /\ 0 <= x /\ x <= h - 1 /\ h \in Nat
  BY <1>1, <1>4
<1> HIDE DEF x, h
<1>6. ntheta = 2 * h
  BY <1>2 DEF h
<1>7. Position(p, x) \in 0..(2 * ntheta - 1)
  <2>1. \/ Position(p, x) = x
        \/ Position(p, x) = ntheta + x
        \/ Position(p, x) = 2 * ntheta - 1 - x
        \/ Position(p, x) = ntheta - 1 - x
    <3>1. "north" # "south" /\ "north" # "south, beyond" /\ "north" # "north, beyond"
          /\ "south" # "south, beyond" /\ "south" # "north, beyond" /\ "south, beyond" # "north, beyond"
      OBVIOUS
    <3> QED BY <3>1 DEF Position, Points
  <2> QED BY <1>2, <1>5, <1>6, <2>1
<1> QED BY <1>5, <1>7 DEF x, h, v

(* Each degree has its place there. *)
LEMMA RingPlace ==
  ASSUME job \in Jobs, NEW o \in 0..(2 * ntheta - 1), NEW l \in 1..LMAX
  PROVE  o * LMAX + l - 1 \in 0..RingEnd
<1>1. LMAX \in Nat /\ ntheta \in Nat
  BY JobFacts, QuarterFacts
<1> DEFINE d == 2 * ntheta - (o + 1)
<1>2. d \in Nat /\ 2 * ntheta = o + 1 + d /\ o \in Nat
  BY <1>1
<1>3. RingEnd = (2 * ntheta) * LMAX + 2 * LMAX - 1
  BY <1>1 DEF RingEnd
<1> HIDE DEF d
<1>4. (2 * ntheta) * LMAX = o * LMAX + LMAX + d * LMAX /\ d * LMAX \in Nat /\ o * LMAX \in Nat
  BY <1>1, <1>2
<1> QED BY <1>1, <1>3, <1>4

(* The rotation after a block of latitudes. *)
NextRing(qv, f) ==
  [rot EXCEPT !.k = rot.k + NWAY, !.qv = qv, !.q0 = Overwrite(rot.q0, RingOf(qv)),
              !.faint = Append(rot.faint, f)]

(* RotRing, by these names. *)
LEMMA RotRingIs ==
  ASSUME RotRing
  PROVE  /\ pc = "ring" /\ pc' = "ring" /\ rot.k < nk /\ job' = job
         /\ \E weak \in 2..(LMAX + 1), x \in 1..MaxSkip : rot' = NextRing(Summed(weak, x), <<weak, x>>)
BY DEF RotRing, NextRing

(* A block of latitudes is written within the ring. *)
LEMMA RingWithin ==
  ASSUME job \in Jobs, rot.k \in Nat, rot.k % NWAY = 0, rot.k < nk, DOMAIN rot.q0 = 0..RingEnd, NEW qv
  PROVE  DOMAIN Overwrite(rot.q0, RingOf(qv)) = 0..RingEnd
<1>1. ASSUME NEW z \in RingOf(qv) PROVE z[1] \in 0..RingEnd
  <2>1. PICK l \in 1..LMAX : \E p \in Points, j \in 0..(NWAY - 1), i \in 0..(VSIZE2 - 1) :
               z = <<Position(p, (rot.k + j) * VSIZE2 + i) * LMAX + l - 1, PointSum(qv, p, l, j, i)>>
    BY <1>1 DEF RingOf
  <2>2. PICK p \in Points, j \in 0..(NWAY - 1), i \in 0..(VSIZE2 - 1) :
               z = <<Position(p, (rot.k + j) * VSIZE2 + i) * LMAX + l - 1, PointSum(qv, p, l, j, i)>>
    BY <2>1
  <2> DEFINE o == Position(p, (rot.k + j) * VSIZE2 + i)
  <2>3. o \in 0..(2 * ntheta - 1)
    <3> DEFINE k == rot.k
    <3>1. k \in Nat /\ k % NWAY = 0 /\ k < nk /\ o = Position(p, (k + j) * VSIZE2 + i)
      OBVIOUS
    <3> HIDE DEF k, o
    <3> QED BY <3>1, PositionFacts
  <2>4. z[1] = o * LMAX + l - 1
    BY <2>2
  <2> HIDE DEF o
  <2> QED BY <2>3, <2>4, RingPlace
<1> DEFINE A == DOMAIN rot.q0
           B == {z[1] : z \in RingOf(qv)}
<1>2. DOMAIN Overwrite(rot.q0, RingOf(qv)) = A \cup B
  BY DEF Overwrite
<1>3. \A o \in B : o \in 0..RingEnd
  BY <1>1
<1> QED BY <1>2, <1>3

(* A multiple. *)
LEMMA Multiple ==
  ASSUME NEW q \in Int, NEW a \in Int, NEW b \in Nat, b > 0, a = b * q
  PROVE  a % b = 0
OBVIOUS

(* The next multiple. *)
LEMMA NextMultiple ==
  ASSUME NEW a \in Nat, NEW b \in Nat \ {0}, a % b = 0
  PROVE  a + b \in Nat /\ (a + b) % b = 0
<1> DEFINE q == (a \div b) + 1
           c == a + b
<1>1. q \in Nat /\ c \in Nat /\ c = b * q
  <2> DEFINE n == a \div b
  <2>1. n \in Nat /\ a = b * n
    OBVIOUS
  <2> HIDE DEF n
  <2>2. b * (n + 1) = b * n + b
    BY <2>1
  <2> QED BY <2>1, <2>2 DEF n
<1> HIDE DEF q, c
<1>2. c % b = 0
  BY <1>1, Multiple
<1> QED BY <1>1, <1>2 DEF c

(* The shape depends on the job, which stays. *)
LEMMA ShapeSame ==
  ASSUME job' = job, NEW r, NEW p
  PROVE  RotShape(r, p)' <=> RotShape(r, p)
BY DEF RotShape, NWAY, RingEnd, ntheta, VSIZE2, LMAX, OrderStart, LiM, NLM, MMAX, MRES

(* Each order ends where the next one starts. *)
LEMMA OrderEnd ==
  ASSUME job \in Jobs, MMAX = LMAX, MRES = 1, NEW m \in 0..LMAX
  PROVE  LET from == IF m = 0 THEN 1 ELSE m
         IN  /\ OrderStart(m + 1) = OrderStart(m) + LMAX - from + 1
             /\ \A l \in from..LMAX : /\ OrderStart(m) + l - from = LiM(l, m)
                                      /\ LiM(l, m) \in 0..(NLM - 1)
<1> DEFINE from == IF m = 0 THEN 1 ELSE m
           s == OrderStart(m)
<1>1. LMAX \in Nat /\ LMAX >= 2
  BY JobFacts
<1>2. \A i \in 0..MMAX : \A l \in i..LMAX :
        LiM(l, i) \in 0..(NLM - 1) /\ LiM(l, i) = Base(i) + l /\ Base(i) \in Int
  <2> TAKE i \in 0..MMAX
  <2>1. i * MRES = i
    BY <1>1
  <2> QED BY <2>1, PlaceFacts
<1>3. Base(0) = 0 /\ \A i \in Nat : Base(i + 1) = Base(i) + LMAX + 1 - (i + 1)
  BY <1>1, BaseNext
<1>4. from \in m..LMAX /\ from \in Nat
  BY <1>1
<1>5. s = Base(m) + from
  <2>1. CASE m = 0
    BY <1>3, <2>1 DEF OrderStart
  <2>2. CASE m # 0
    <3>1. m \in m..LMAX
      BY <1>1
    <3> QED BY <1>2, <2>2, <3>1 DEF OrderStart
  <2> QED BY <2>1, <2>2
<1>6. Base(m) \in Int
  BY <1>2, <1>4
<1>7. OrderStart(m + 1) = Base(m) + LMAX + 1
  <2>1. CASE m < LMAX
    <3> DEFINE n == m + 1
    <3>1. n \in 1..LMAX /\ n \in 0..MMAX /\ n \in n..LMAX /\ m \in Nat
      BY <1>1, <2>1
    <3>2. Base(n) = Base(m) + LMAX + 1 - n
      BY <1>3, <3>1
    <3> HIDE DEF n
    <3>3. OrderStart(n) = LiM(n, n)
      BY <3>1 DEF OrderStart
    <3>4. LiM(n, n) = Base(n) + n
      BY <1>2, <3>1
    <3>5. OrderStart(n) = Base(m) + LMAX + 1
      BY <1>1, <1>6, <3>1, <3>2, <3>3, <3>4
    <3> QED BY <3>5 DEF n
  <2>2. CASE m = LMAX
    <3>1. OrderStart(m + 1) = NLM
      BY <1>1, <2>2 DEF OrderStart
    <3>2. NLM = LiM(LMAX, MMAX) + 1
      BY DEF NLM
    <3>3. LMAX \in 0..MMAX /\ LMAX \in LMAX..LMAX
      BY <1>1
    <3>4. LiM(LMAX, LMAX) = Base(LMAX) + LMAX
      BY <1>2, <3>3
    <3> QED BY <1>1, <1>6, <2>2, <3>1, <3>2, <3>4
  <2> QED BY <1>1, <2>1, <2>2
<1> HIDE DEF from, s
<1>8. OrderStart(m + 1) = s + LMAX - from + 1
  BY <1>1, <1>4, <1>5, <1>6, <1>7
<1>9. \A l \in from..LMAX : s + l - from = LiM(l, m) /\ LiM(l, m) \in 0..(NLM - 1)
  <2> TAKE l \in from..LMAX
  <2>1. l \in m..LMAX /\ l \in Int
    BY <1>1, <1>4
  <2>2. LiM(l, m) = Base(m) + l /\ LiM(l, m) \in 0..(NLM - 1)
    BY <1>2, <2>1
  <2> QED BY <1>4, <1>5, <1>6, <2>1, <2>2
<1> QED BY <1>8, <1>9 DEF from, s

(* Degrees taken in pairs are within the range. *)
LEMMA PairedWithin ==
  ASSUME NEW l \in Int, NEW top \in Int
  PROVE  Paired(l, top) \subseteq l..top
BY DEF Paired

(* The first degree of an order, its functions and its signs, and what is stored for it. *)
From == IF rot.m = 0 THEN 1 ELSE rot.m
Equ == legendre_sphPlm_deriv_array_equ(LMAX, rot.m)
Sgn(l) ==
  IF rot.m = 0 THEN (IF (l - From) % 2 = 0 THEN -1 ELSE 1) ELSE (IF (l - From) % 2 = 0 THEN 1 ELSE -1)
OrderOf ==
  {<<rot.lm + l - From, <<rot.q0[rot.m * LMAX + l - 1], Equ[l], Sgn(l)>>>> : l \in Paired(From, LMAX)}

(* RotStore, by these names. *)
LEMMA RotStoreIs ==
  ASSUME RotStore
  PROVE  /\ pc = "store" /\ pc' = "store" /\ rot.m <= LMAX /\ job' = job /\ call' = call
         /\ rot' = [rot EXCEPT !.R = Overwrite(rot.R, OrderOf), !.m = rot.m + 1, !.lm = rot.lm + LMAX - From + 1]
BY DEF RotStore, OrderOf, Sgn, Equ, From

(* One step of a rotation. *)
LEMMA RotShapes ==
  ASSUME ProgOK, RotOK, RotBegin \/ RotRing \/ RotFft \/ RotStore \/ RotEnd
  PROVE  pc' \in {"ring", "store"} => RotShape(rot', pc')
<1>1. /\ job \in Jobs /\ LMAX \in Nat /\ LMAX >= 2 /\ NWAY \in Nat \ {0} /\ NLM \in Nat \ {0}
      /\ nk \in Nat
  BY JobFacts, NLMType, QuarterFacts DEF ProgOK
<1>2. 0 % NWAY = 0
  BY <1>1
<1>3. OrderStart(0) = 1 /\ 0 \in 0..(LMAX + 1)
  BY <1>1 DEF OrderStart
<1>4. CASE RotBegin
  <2> DEFINE q0 == [o \in 0..((2 * ntheta + 2) * LMAX - 1) |-> Wrong]
             Q == Rotated([o \in 0..(NLM - 1) |-> Coef(o)])
             qv == [b \in {0, 1} \X (0..(2 * NWAY * LMAX - 1)) |-> {Wrong}]
             e == <<>>
  <2>1. pc' = "ring" /\ rot' = [n |-> 1, k |-> 0, Q |-> Q, qv |-> qv, q0 |-> q0, faint |-> e,
                                m |-> 0, lm |-> 1, R |-> e]
    BY <1>4 DEF RotBegin
  <2>2. DOMAIN q0 = 0..RingEnd /\ DOMAIN e \subseteq 0..(NLM - 1)
    BY DEF RingEnd
  <2> HIDE DEF q0, Q, qv, e
  <2>3. /\ DOMAIN rot' = RotFields
        /\ rot'.k = 0 /\ rot'.q0 = q0 /\ rot'.m = 0 /\ rot'.lm = 1 /\ rot'.R = e
    BY <2>1 DEF RotFields
  <2> QED BY <1>2, <1>3, <2>2, <2>3 DEF RotShape
<1>5. CASE RotRing
  <2>1. pc = "ring" /\ pc' = "ring" /\ rot.k < nk
    BY <1>5, RotRingIs
  <2>2. PICK qv, f : rot' = NextRing(qv, f)
    BY <1>5, RotRingIs
  <2>3. RotShape(rot, pc)
    BY <2>1 DEF RotOK
  <2>4. DOMAIN Overwrite(rot.q0, RingOf(qv)) = 0..RingEnd
    BY <1>1, <2>1, <2>3, RingWithin DEF RotShape
  <2> DEFINE q0 == Overwrite(rot.q0, RingOf(qv))
             g == Append(rot.faint, f)
             k == rot.k + NWAY
  <2>5. rot' = [rot EXCEPT !.k = k, !.qv = qv, !.q0 = q0, !.faint = g]
    BY <2>2 DEF NextRing
  <2>6. DOMAIN q0 = 0..RingEnd
    BY <2>4
  <2>7. k \in Nat /\ k % NWAY = 0
    <3> DEFINE n == rot.k
    <3>1. n \in Nat /\ n % NWAY = 0
      BY <2>3 DEF RotShape
    <3> HIDE DEF n
    <3>2. n + NWAY \in Nat /\ (n + NWAY) % NWAY = 0
      BY <1>1, <3>1, NextMultiple
    <3> QED BY <3>2 DEF n
  <2> HIDE DEF q0, g, k
  <2>8. DOMAIN rot = RotFields
    BY <2>3 DEF RotShape
  <2>9. /\ DOMAIN rot' = RotFields
        /\ rot'.k = k /\ rot'.q0 = q0 /\ rot'.m = rot.m /\ rot'.lm = rot.lm /\ rot'.R = rot.R
    BY <2>5, <2>8 DEF RotFields
  <2> QED BY <2>1, <2>3, <2>6, <2>7, <2>9 DEF RotShape
<1>6. CASE RotFft
  <2> DEFINE q0 == [o \in DOMAIN rot.q0 |-> <<o \div LMAX, (o % LMAX) + 1>>]
             R == [o \in {0} |-> rot.Q[0]]
  <2>1. pc = "ring" /\ pc' = "store" /\ rot' = [rot EXCEPT !.q0 = q0, !.R = R]
    BY <1>6 DEF RotFft
  <2>2. RotShape(rot, pc)
    BY <2>1 DEF RotOK
  <2>3. DOMAIN q0 = DOMAIN rot.q0 /\ DOMAIN R \subseteq 0..(NLM - 1)
    BY <1>1
  <2> HIDE DEF q0, R
  <2>4. DOMAIN rot = RotFields
    BY <2>2 DEF RotShape
  <2>5. /\ DOMAIN rot' = RotFields
        /\ rot'.k = rot.k /\ rot'.q0 = q0 /\ rot'.m = rot.m /\ rot'.lm = rot.lm /\ rot'.R = R
    BY <2>1, <2>4 DEF RotFields
  <2> QED BY <2>1, <2>2, <2>3, <2>5 DEF RotShape
<1>7. CASE RotStore
  <2> DEFINE R == Overwrite(rot.R, OrderOf)
             m == rot.m
             n == m + 1
             lm == rot.lm + LMAX - From + 1
  <2>1. pc = "store" /\ pc' = "store" /\ m <= LMAX /\ rot' = [rot EXCEPT !.R = R, !.m = n, !.lm = lm]
    BY <1>7, RotStoreIs
  <2>2. RotShape(rot, pc)
    BY <2>1 DEF RotOK
  <2>3. m \in 0..LMAX /\ rot.lm = OrderStart(m)
    BY <1>1, <2>1, <2>2 DEF RotShape
  <2>4. MMAX = LMAX /\ MRES = 1
    <3>1. call.fn \in Rotations /\ Made \in 1..Len(Prog) /\ call = Prog[Made]
      BY <2>1, CallFacts DEF ProgOK
    <3> QED BY <1>1, <3>1, ProgFacts
  <2>5. From = IF m = 0 THEN 1 ELSE m
    BY DEF From
  <2>6. /\ OrderStart(n) = rot.lm + LMAX - From + 1
        /\ \A l \in From..LMAX : rot.lm + l - From \in 0..(NLM - 1)
    <3> HIDE DEF m
    <3> QED BY <1>1, <2>3, <2>4, <2>5, OrderEnd
  <2>7. \A z \in OrderOf : z[1] \in 0..(NLM - 1)
    <3>1. From \in Int
      BY <2>3, <2>5
    <3>2. \A l \in Paired(From, LMAX) : l \in From..LMAX
      BY <1>1, <3>1, PairedWithin
    <3> QED BY <2>6, <3>2 DEF OrderOf
  <2>8. DOMAIN R = DOMAIN rot.R \cup {z[1] : z \in OrderOf}
    BY DEF Overwrite
  <2>9. DOMAIN rot.R \subseteq 0..(NLM - 1) /\ DOMAIN rot = RotFields
    BY <2>2 DEF RotShape
  <2>10. DOMAIN R \subseteq 0..(NLM - 1)
    BY <2>7, <2>8, <2>9
  <2>11. n \in 0..(LMAX + 1) /\ lm = OrderStart(n)
    BY <1>1, <2>3, <2>6
  <2> HIDE DEF R, n, lm
  <2>12. /\ DOMAIN rot' = RotFields
         /\ rot'.k = rot.k /\ rot'.q0 = rot.q0 /\ rot'.m = n /\ rot'.lm = lm /\ rot'.R = R
    BY <2>1, <2>9 DEF RotFields
  <2> QED BY <2>1, <2>2, <2>10, <2>11, <2>12 DEF RotShape
<1>8. CASE RotEnd
  <2> SUFFICES ASSUME pc' \in {"ring", "store"} PROVE RotShape(rot', pc')
    OBVIOUS
  <2> DEFINE Q == Rotated([o \in 0..(NLM - 1) |-> IF o \in DOMAIN rot.R THEN Coef(o) ELSE Wrong])
             qv == [b \in DOMAIN rot.qv |-> {Wrong}]
             q0 == [o \in DOMAIN rot.q0 |-> Wrong]
             e == <<>>
             n == rot.n + 1
  <2>1. /\ pc = "store" /\ pc' = "ring"
        /\ rot' = [rot EXCEPT !.n = n, !.k = 0, !.m = 0, !.lm = 1, !.faint = e, !.Q = Q, !.qv = qv, !.q0 = q0]
    BY <1>8 DEF RotEnd, Return
  <2>2. RotShape(rot, pc)
    BY <2>1 DEF RotOK
  <2>3. DOMAIN q0 = DOMAIN rot.q0
    OBVIOUS
  <2> HIDE DEF q0, Q, qv, e, n
  <2>4. DOMAIN rot = RotFields
    BY <2>2 DEF RotShape
  <2>5. /\ DOMAIN rot' = RotFields
        /\ rot'.k = 0 /\ rot'.q0 = q0 /\ rot'.m = 0 /\ rot'.lm = 1 /\ rot'.R = rot.R
    BY <2>1, <2>4 DEF RotFields
  <2> QED BY <1>2, <1>3, <2>2, <2>3, <2>5 DEF RotShape
<1> QED BY <1>4, <1>5, <1>6, <1>7, <1>8

(* Every step keeps the shape of a rotation. *)
LEMMA RotStep ==
  ASSUME ProgOK, RotOK, [Next]_vars
  PROVE  RotOK'
<1>1. CASE RotBegin \/ RotRing \/ RotFft \/ RotStore \/ RotEnd
  <2>1. job' = job
    BY <1>1, QuietSteps DEF Quiet
  <2>2. pc' \in {"ring", "store"} => RotShape(rot', pc')
    BY <1>1, RotShapes
  <2>3. PICK r, p : r = rot' /\ p = pc'
    OBVIOUS
  <2>4. RotShape(r, p)' <=> RotShape(r, p)
    BY <2>1, ShapeSame
  <2>5. rot' # NULL => pc' \in {"ring", "store"}
    <3>1. RotEnd => rot' = NULL \/ pc' = "ring"
      BY DEF RotEnd
    <3>2. ~RotEnd => pc' \in {"ring", "store"}
      BY <1>1, QuietSteps
    <3> QED BY <3>1, <3>2
  <2> QED BY <2>2, <2>3, <2>4, <2>5 DEF RotOK
<1>2. CASE Start
  <2>1. pc = "idle" /\ pc' = "run" /\ rot' = rot
    BY <1>2 DEF Start
  <2> QED BY <2>1 DEF RotOK
<1>3. CASE EvalLat \/ CreateWithGrid \/ EvalPoint \/ Operate \/ Zrotate
  <2>1. pc = "run" /\ pc' = "idle" /\ rot' = rot
    <3>1. EvalLat => pc = "run" /\ pc' = "idle" /\ rot' = rot
      BY EvalLatIs
    <3>2. CreateWithGrid => pc = "run" /\ pc' = "idle" /\ rot' = rot
      BY DEF CreateWithGrid, Is, Return
    <3>3. EvalPoint => rot' = rot
      BY DEF EvalPoint
    <3>4. Operate => rot' = rot
      BY DEF Operate
    <3>5. Zrotate => rot' = rot
      BY DEF Zrotate
    <3> QED BY <1>3, <3>1, <3>2, <3>3, <3>4, <3>5, QuietSteps
  <2> QED BY <2>1 DEF RotOK
<1>4. CASE UNCHANGED vars
  <2>1. job' = job /\ rot' = rot /\ pc' = pc
    BY <1>4 DEF vars
  <2>2. PICK r, p : r = rot /\ p = pc
    OBVIOUS
  <2>3. RotShape(r, p)' <=> RotShape(r, p)
    BY <2>1, ShapeSame
  <2> QED BY <2>1, <2>2, <2>3 DEF RotOK
<1> QED BY <1>1, <1>2, <1>3, <1>4, Steps DEF Quiet

(* The caches and the buffers have their types. *)
LEMMA TypesHold ==
  ASSUME ProgOK, CacheOK, RotOK
  PROVE  TypeOK
<1>1. \A c \in Cfg :
       /\ ylm_lat[c] \in Cfg \cup {NULL} /\ ct_lat[c] \in Lat \cup {NULL} /\ nphi_lat[c] \in Nat
       /\ ifft_lat[c] \in (DOMAIN plans) \cup {NULL}
       /\ DOMAIN heap[c] = IF \E d \in Cfg : ylm_lat[d] = c THEN 0..(2 * NLM - 1) ELSE {}
  BY DEF CacheOK
<1>2. rot # NULL => /\ DOMAIN rot.q0 = 0..((2 * ntheta + 2) * LMAX - 1)
                    /\ DOMAIN rot.R \subseteq 0..(NLM - 1)
  BY DEF RotOK, RotShape, RingEnd
<1>3. pc \in {"idle", "run", "ring", "store"}
  BY DEF ProgOK
<1> QED BY <1>1, <1>2, <1>3 DEF TypeOK

-----------------------------------------------------------------------------
(* Rotations: the sums for the points of the circle.                       *)

(* Of the points of a circle: beyond the poles or not, the latitude, and that of the quarter. *)
Beyond(p) == p >= ntheta
Theta(p) == IF Beyond(p) THEN 2 * ntheta - 1 - p ELSE p
South(p) == Theta(p) >= ntheta \div 2
Quarter(p) == IF South(p) THEN ntheta - 1 - Theta(p) ELSE Theta(p)
Minus(b) == IF b THEN -1 ELSE 1
Sign(p, l, m, ri) ==
  Minus(Beyond(p) /\ m % 2 = 1) * Minus(South(p) /\ (l - m) % 2 = 1)
    * (IF ri = "im" THEN Minus(~Beyond(p)) ELSE 1)

(* The orders and parts of degree l that count at a latitude. *)
Counts(w, m, l) == m < w[1] \/ l >= m + 2 * w[2]
PartsOf(w, l) == {n \in (0..l) \X {"re", "im"} : Counts(w, n[1], l) /\ ~(n[1] = 0 /\ n[2] = "im")}
Summand(l, m, v, ri) == <<<<l, m>>, v, <<l, m>>, ri>>
Entry(s, z, i, ri) == <<s, z, i, ri = "re">>
CircleOf(f, p, l) ==
  {Entry(Sign(p, l, k[1], k[2]), Summand(l, k[1], Quarter(p) \div VSIZE2, k[2]), Quarter(p) % VSIZE2, k[2]) :
     k \in PartsOf(f[((Quarter(p) \div VSIZE2) \div NWAY) + 1], l)}

(* The field at a point, with names for its parts. *)
LEMMA CircleIs ==
  \A p, l : Circle(p, l) = CircleOf(rot.faint, p, l)
BY DEF Circle, CircleOf, Entry, Sign, Summand, PartsOf, Counts, Quarter, South, Theta, Beyond, Minus

(* Degrees taken in pairs are all of them. *)
LEMMA PairedIs ==
  ASSUME NEW l \in Int, NEW top \in Int
  PROVE  Paired(l, top) = l..top
<1> DEFINE Two == {d \in l..(top - 1) : (d - l) % 2 = 0}
<1>1. Paired(l, top) = Two \cup {d + 1 : d \in Two} \cup (IF l <= top /\ (top - l) % 2 = 0 THEN {top} ELSE {})
  BY DEF Paired
<1>2. ASSUME NEW d \in l..top PROVE d \in Paired(l, top)
  <2>1. CASE (d - l) % 2 = 0 /\ d # top
    <3>1. d \in Two
      BY <2>1
    <3> QED BY <1>1, <3>1
  <2>2. CASE (d - l) % 2 = 0 /\ d = top
    BY <1>1, <2>2
  <2>3. CASE (d - l) % 2 # 0
    <3> DEFINE n == d - 1
    <3>1. n \in Two /\ d = n + 1
      BY <2>3
    <3> HIDE DEF n, Two
    <3> QED BY <1>1, <3>1
  <2> QED BY <2>1, <2>2, <2>3
<1> QED BY <1>2, PairedWithin

(* Two digits. *)
LEMMA Digits ==
  ASSUME NEW w \in Nat, NEW a \in Int, NEW b \in Int, NEW r \in 0..(w - 1), NEW s \in 0..(w - 1),
         a * w + r = b * w + s
  PROVE  a = b /\ r = s
<1>1. a <= b
  <2> SUFFICES ASSUME a > b PROVE FALSE
    OBVIOUS
  <2> DEFINE d == a - b - 1
  <2>1. d \in Nat /\ a = b + 1 + d
    OBVIOUS
  <2> HIDE DEF d
  <2>2. a * w = b * w + w + d * w /\ d * w \in Nat /\ b * w \in Int
    BY <2>1
  <2> QED BY <2>2
<1>2. b <= a
  <2> SUFFICES ASSUME b > a PROVE FALSE
    OBVIOUS
  <2> DEFINE d == b - a - 1
  <2>1. d \in Nat /\ b = a + 1 + d
    OBVIOUS
  <2> HIDE DEF d
  <2>2. b * w = a * w + w + d * w /\ d * w \in Nat /\ a * w \in Int
    BY <2>1
  <2> QED BY <2>2
<1>3. a = b
  BY <1>1, <1>2
<1> QED BY <1>3

(* A number of two digits, divided. *)
LEMMA DigitsDiv ==
  ASSUME NEW w \in Nat, NEW a \in Nat, NEW r \in 0..(w - 1), NEW n \in Int, n = a * w + r
  PROVE  n \div w = a /\ n % w = r /\ n \in Nat
<1>1. w > 0 /\ r \in Nat /\ a * w \in Nat /\ n \in Nat
  OBVIOUS
<1> DEFINE q == n \div w
           s == n % w
<1>2. q \in Nat /\ s \in 0..(w - 1) /\ n = q * w + s
  <2>1. q \in Nat /\ s \in 0..(w - 1)
    BY <1>1
  <2>2. n = w * q + s
    BY <1>1
  <2> QED BY <2>1, <2>2
<1> HIDE DEF q, s
<1>3. a = q /\ r = s
  BY <1>1, <1>2, Digits
<1> QED BY <1>1, <1>3 DEF q, s

(* A rotation reads the field as it was. *)
Reads == job \in Jobs /\ MMAX = LMAX /\ MRES = 1 /\ rot.Q = [o \in 0..(NLM - 1) |-> Coef(o)]

(* One product of a rotation: the degree and order of y are those of the coefficient. *)
LEMMA ProductIs ==
  ASSUME Reads,
         NEW m \in 0..LMAX, NEW d \in m..LMAX, NEW v, NEW ri, NEW o, o = LiM(0, m) + d
  PROVE  Product(d, m, v, o, ri) = Summand(d, m, v, ri)
<1>0. job \in Jobs /\ MMAX = LMAX /\ MRES = 1 /\ rot.Q = [i \in 0..(NLM - 1) |-> Coef(i)]
  BY DEF Reads
<1>1. m * MRES = m /\ m \in 0..MMAX /\ d \in (m * MRES)..LMAX
  BY <1>0, JobFacts
<1>2. Climbed(m, d)
  BY <1>0, <1>1, Climbs
<1>3. LiM(d, m) \in 0..(NLM - 1) /\ Coef(LiM(d, m)) = <<d, m>> /\ LiM(d, m) = Base(m) + d /\ Base(m) \in Int
  BY <1>0, <1>1, PlaceFacts, CoefIs
<1>4. o = LiM(d, m)
  <2>1. LiM(0, m) = Base(m) + 0
    BY LiMIs
  <2>2. d \in Int
    BY <1>0, JobFacts
  <2> QED BY <1>3, <2>1, <2>2
<1>5. o \in DOMAIN rot.Q /\ rot.Q[o] = <<d, m>>
  BY <1>0, <1>3, <1>4
<1> QED BY <1>2, <1>5 DEF Product, Summand

(* Where a degree, a vector of latitudes and a part have their place in a buffer. *)
Part(ri) == IF ri = "re" THEN 0 ELSE 1
Spot(d, j, ri) == (d - 1) * (2 * NWAY) + (2 * j + Part(ri))

(* A place determines its degree, vector and part. *)
LEMMA SpotFacts ==
  ASSUME job \in Jobs, NEW d \in 1..LMAX, NEW j \in 0..(NWAY - 1), NEW ri \in {"re", "im"}
  PROVE  /\ Spot(d, j, ri) \in 0..(2 * NWAY * LMAX - 1)
         /\ Spot(d, j, ri) \div (2 * NWAY) = d - 1
         /\ (Spot(d, j, ri) % (2 * NWAY)) \div 2 = j /\ Spot(d, j, ri) % 2 = Part(ri)
         /\ (d - 1) * 2 * NWAY + 2 * j + (IF ri = "re" THEN 0 ELSE 1) = Spot(d, j, ri)
<1>1. LMAX \in Nat /\ NWAY \in Nat \ {0}
  BY JobFacts
<1> DEFINE W == 2 * NWAY
           c == Part(ri)
           R == 2 * j + c
           A == d - 1
           S == Spot(d, j, ri)
<1>2. c \in {0, 1} /\ (c = 0 <=> ri = "re")
  BY DEF Part
<1>3. W \in Nat /\ A \in Nat /\ R \in 0..(W - 1) /\ R % 2 = c /\ R \div 2 = j
  <2> HIDE DEF c
  <2> QED BY <1>1, <1>2
<1>4. S = A * W + R
  BY DEF Spot
<1> HIDE DEF W, R, A, S
<1>0. S \in Int
  BY <1>3, <1>4
<1>5. S \div W = A /\ S % W = R /\ S \in Nat
  BY <1>0, <1>3, <1>4, DigitsDiv, SMTT(30)
<1>6. S \in 0..(2 * NWAY * LMAX - 1)
  <2> DEFINE q == LMAX - d
             t == NWAY * LMAX
  <2>1. q \in Nat /\ LMAX = A + 1 + q
    BY <1>1 DEF A
  <2> HIDE DEF q
  <2>2. LMAX * W = A * W + W + q * W /\ q * W \in Nat /\ A * W \in Nat
    BY <1>3, <2>1
  <2>3. LMAX * W = 2 * t /\ t \in Nat
    BY <1>1 DEF W
  <2>4. 2 * NWAY * LMAX = 2 * t
    BY <1>1
  <2> HIDE DEF t
  <2>5. S <= 2 * t - 1
    BY <1>3, <1>4, <2>2, <2>3
  <2> QED BY <1>5, <2>3, <2>4, <2>5
<1>7. S % 2 = c
  <2> DEFINE t == A * NWAY
  <2>1. t \in Nat /\ A * W = 2 * t
    BY <1>1, <1>3 DEF W
  <2> HIDE DEF t
  <2> QED BY <1>2, <1>3, <1>4, <2>1 DEF R
<1>8. (d - 1) * 2 * NWAY + 2 * j + (IF ri = "re" THEN 0 ELSE 1) = S
  <2>1. (d - 1) * 2 * NWAY = (d - 1) * (2 * NWAY) /\ (d - 1) * (2 * NWAY) \in Int
    BY <1>1
  <2> DEFINE u == (d - 1) * (2 * NWAY)
  <2>2. S = u + (2 * j + c)
    BY DEF Spot, S
  <2>3. (d - 1) * 2 * NWAY = u /\ u \in Int
    BY <2>1
  <2> HIDE DEF u
  <2>4. (IF ri = "re" THEN 0 ELSE 1) = c
    BY DEF Part
  <2> HIDE DEF c
  <2> QED BY <1>2, <2>2, <2>3, <2>4
<1> QED BY <1>3, <1>5, <1>6, <1>7, <1>8 DEF W, A, R, S

(* A place belongs to one degree, vector and part. *)
LEMMA SpotApart ==
  ASSUME job \in Jobs, NEW d \in 1..LMAX, NEW j \in 0..(NWAY - 1), NEW ri \in {"re", "im"},
         NEW n \in 1..LMAX, NEW i \in 0..(NWAY - 1), NEW rj \in {"re", "im"}, Spot(n, i, rj) = Spot(d, j, ri)
  PROVE  n = d /\ i = j /\ rj = ri
<1>1. n \in 1..LMAX /\ d \in 1..LMAX /\ LMAX \in Nat
  BY JobFacts
<1>2. n - 1 = d - 1
  BY <1>1, SpotFacts
<1>3. i = j
  <2>1. (Spot(n, i, rj) % (2 * NWAY)) \div 2 = i /\ (Spot(d, j, ri) % (2 * NWAY)) \div 2 = j
    BY SpotFacts
  <2> QED BY <2>1
<1>4. Part(rj) = Part(ri)
  <2>1. Spot(n, i, rj) % 2 = Part(rj) /\ Spot(d, j, ri) % 2 = Part(ri)
    BY SpotFacts
  <2> QED BY <2>1
<1> QED BY <1>1, <1>2, <1>3, <1>4 DEF Part

ZeroSummand(e, l, v, ri) == IF e = 0 /\ ri = "re" THEN {Summand(l, 0, v, "re")} ELSE {}
Gives(k, m, first, b, t) == \E z \in Added(k, m, first) : z[1] = b /\ t = z[2]
Contributes(m, e, l, first, v, ri, t) == m % 2 = e /\ l >= first /\ t = Summand(l, m, v, ri)

(* What order 0 gives to each element of the buffers. *)
LEMMA OrderZeroIs ==
  ASSUME Reads, NEW k \in Nat,
         NEW l \in 1..LMAX, NEW j \in 0..(NWAY - 1), NEW e \in {0, 1}, NEW ri \in {"re", "im"},
         NEW b, b = <<e, Spot(l, j, ri)>>, NEW v, v = k + j
  PROVE  /\ b \in DOMAIN OrderZero(k)
         /\ OrderZero(k)[b] = ZeroSummand(e, l, v, ri)
<1> DEFINE Cells == Paired(1, LMAX) \X (0..(NWAY - 1))
           At0(d, i) == (d - 1) * 2 * NWAY + 2 * i
           D == {<<f, At0(c[1], c[2]) + i>> : f \in {0, 1}, c \in Cells, i \in {0, 1}}
           w == 2 * NWAY
           s == Spot(l, j, ri)
<1>0. job \in Jobs
  BY DEF Reads
<1>1. LMAX \in Nat /\ NWAY \in Nat \ {0}
  BY <1>0, JobFacts
<1>2. OrderZero(k) = [z \in D |->
         IF z[1] = 0 /\ z[2] % 2 = 0
         THEN {Product((z[2] \div w) + 1, 0, k + ((z[2] % w) \div 2), (z[2] \div w) + 1, "re")}
         ELSE {}]
  BY DEF OrderZero
<1>3. b \in D
  <2> DEFINE c == <<l, j>>
             i == Part(ri)
  <2>1. c \in Cells
    BY <1>1, PairedIs
  <2>2. i \in {0, 1}
    BY DEF Part
  <2>3. s = At0(c[1], c[2]) + i
    BY <1>0, SpotFacts DEF Part
  <2>4. b = <<e, At0(c[1], c[2]) + i>>
    BY <2>3
  <2> HIDE DEF c, i, At0, Cells
  <2> QED BY <2>1, <2>2, <2>4
<1>4. s \div w = l - 1 /\ (s % w) \div 2 = j /\ s % 2 = Part(ri) /\ (Part(ri) = 0 <=> ri = "re")
  BY <1>0, SpotFacts DEF Part
<1> HIDE DEF s, w, D
<1>5. b[1] = e /\ b[2] = s
  BY DEF s
<1>6. OrderZero(k)[b] = IF e = 0 /\ Part(ri) = 0
                        THEN {Product((l - 1) + 1, 0, k + j, (l - 1) + 1, "re")}
                        ELSE {}
  <2>1. OrderZero(k)[b] = IF b[1] = 0 /\ b[2] % 2 = 0
          THEN {Product((b[2] \div w) + 1, 0, k + ((b[2] % w) \div 2), (b[2] \div w) + 1, "re")}
          ELSE {}
    BY <1>2, <1>3
  <2>2. b[2] \div w = l - 1 /\ (b[2] % w) \div 2 = j /\ b[2] % 2 = Part(ri)
    BY <1>4, <1>5
  <2> QED BY <1>5, <2>1, <2>2
<1>7. (l - 1) + 1 = l /\ l \in 0..LMAX /\ 0 \in 0..LMAX
  BY <1>1
<1>8. l = LiM(0, 0) + l
  <2>1. LiM(0, 0) = Base(0) + 0 /\ Base(0) = 0
    BY <1>0, LiMIs, BaseNext
  <2> QED BY <2>1
<1>9. Product(l, 0, k + j, l, "re") = Summand(l, 0, k + j, "re")
  BY <1>7, <1>8, ProductIs
<1> QED BY <1>2, <1>3, <1>4, <1>6, <1>7, <1>9 DEF ZeroSummand

(* What an order above 0 adds to it. *)
LEMMA AddedIs ==
  ASSUME Reads, NEW k \in Nat,
         NEW l \in 1..LMAX, NEW j \in 0..(NWAY - 1), NEW e \in {0, 1}, NEW ri \in {"re", "im"},
         NEW b, b = <<e, Spot(l, j, ri)>>, NEW m \in 1..LMAX, NEW first \in Int, first >= m, NEW t,
         NEW v, v = k + j
  PROVE  Gives(k, m, first, b, t) <=> Contributes(m, e, l, first, v, ri, t)
<1>0. job \in Jobs
  BY DEF Reads
<1>1. LMAX \in Nat /\ NWAY \in Nat \ {0}
  BY <1>0, JobFacts
<1>2. Paired(first, LMAX) = first..LMAX
  BY <1>1, PairedIs
<1> DEFINE El_(d, i, rj) == <<<<m % 2, Spot(d, i, rj)>>, Product(d, m, k + i, LiM(0, m) + d, rj)>>
<1>3. ASSUME NEW d \in 1..LMAX, NEW i \in 0..(NWAY - 1), NEW rj \in {"re", "im"}
      PROVE  <<<<m % 2, (d - 1) * 2 * NWAY + 2 * i + (IF rj = "re" THEN 0 ELSE 1)>>,
                 Product(d, m, k + i, LiM(0, m) + d, rj)>> = El_(d, i, rj)
  <2> DEFINE n == (d - 1) * 2 * NWAY + 2 * i + (IF rj = "re" THEN 0 ELSE 1)
             q == Spot(d, i, rj)
  <2>1. n = q
    BY <1>0, SpotFacts
  <2> HIDE DEF n, q
  <2>2. <<<<m % 2, n>>, Product(d, m, k + i, LiM(0, m) + d, rj)>>
          = <<<<m % 2, q>>, Product(d, m, k + i, LiM(0, m) + d, rj)>>
    BY <2>1
  <2> QED BY <2>2 DEF n, q
<1>4. \A d \in first..LMAX : d \in m..LMAX /\ d \in 1..LMAX
  BY <1>1
<1>5. m \in 0..LMAX
  BY <1>1
<1>6. ASSUME NEW z \in Added(k, m, first), z[1] = b, t = z[2]
      PROVE  m % 2 = e /\ l >= first /\ t = Summand(l, m, v, ri)
  <2>1. PICK d \in first..LMAX, i \in 0..(NWAY - 1), rj \in {"re", "im"} :
          z = <<<<m % 2, (d - 1) * 2 * NWAY + 2 * i + (IF rj = "re" THEN 0 ELSE 1)>>,
                 Product(d, m, k + i, LiM(0, m) + d, rj)>>
    BY <1>2, <1>6 DEF Added
  <2>2. z = El_(d, i, rj) /\ d \in 1..LMAX /\ d \in m..LMAX
    BY <1>3, <1>4, <2>1
  <2>3. m % 2 = e /\ Spot(d, i, rj) = Spot(l, j, ri) /\ t = Product(d, m, k + i, LiM(0, m) + d, rj)
    BY <1>6, <2>2
  <2>4. d = l /\ i = j /\ rj = ri
    BY <2>2, <2>3, <1>0, SpotApart
  <2>5. Product(d, m, k + i, LiM(0, m) + d, rj) = Summand(d, m, k + i, rj)
    BY <1>5, <2>2, ProductIs
  <2> QED BY <1>1, <2>3, <2>4, <2>5
<1>7. ASSUME m % 2 = e, l >= first, t = Summand(l, m, v, ri)
      PROVE  \E z \in Added(k, m, first) : z[1] = b /\ t = z[2]
  <2>1. l \in first..LMAX /\ l \in m..LMAX
    BY <1>1, <1>7
  <2>2. Product(l, m, k + j, LiM(0, m) + l, ri) = t
    BY <1>5, <1>7, <2>1, ProductIs
  <2> DEFINE z == <<<<m % 2, (l - 1) * 2 * NWAY + 2 * j + (IF ri = "re" THEN 0 ELSE 1)>>,
                     Product(l, m, k + j, LiM(0, m) + l, ri)>>
  <2>3. z \in Added(k, m, first)
    BY <1>2, <2>1 DEF Added
  <2>4. z = El_(l, j, ri)
    BY <1>3
  <2>5. z[1] = b /\ t = z[2]
    BY <1>7, <2>2, <2>4
  <2> HIDE DEF z
  <2> QED BY <2>3, <2>5
<1> QED BY <1>6, <1>7 DEF Gives, Contributes


(* Its buffers have a place for everything. *)
RotData ==
  /\ Reads /\ rot.k \in Nat
  /\ DOMAIN rot.qv = {0, 1} \X (0..(2 * NWAY * LMAX - 1))
Chosen(w, l, m, ri) == Counts(w, m, l) /\ ~(m = 0 /\ ri = "im")

(* A buffer has the products of the orders of its parity that count, and nothing of earlier latitudes. *)
LEMMA BufferIs ==
  ASSUME RotData, NEW weak \in 2..(LMAX + 1), NEW x \in 1..MaxSkip,
         NEW l \in 1..LMAX, NEW j \in 0..(NWAY - 1), NEW e \in {0, 1}, NEW ri \in {"re", "im"},
         NEW b, b = <<e, Spot(l, j, ri)>>, NEW t
  PROVE  t \in Summed(weak, x)[b]
           <=> \E m \in 0..l : m % 2 = e /\ Chosen(<<weak, x>>, l, m, ri) /\ t = Summand(l, m, rot.k + j, ri)
<1> DEFINE K == rot.k
           v == K + j
           w == <<weak, x>>
           First(m) == m + 2 * (IF m >= weak THEN x ELSE 0)
           new == UNION {Added(K, m, First(m)) : m \in 1..LMAX}
           T(m) == t = Summand(l, m, v, ri)
<1>1. /\ job \in Jobs /\ Reads /\ K \in Nat
      /\ DOMAIN rot.qv = {0, 1} \X (0..(2 * NWAY * LMAX - 1)) /\ LMAX \in Nat
  BY JobFacts DEF RotData, Reads
<1>2. b \in DOMAIN rot.qv
  <2>1. Spot(l, j, ri) \in 0..(2 * NWAY * LMAX - 1)
    BY <1>1, SpotFacts
  <2> QED BY <1>1, <2>1
<1>3. b \in DOMAIN OrderZero(K) /\ OrderZero(K)[b] = IF e = 0 /\ ri = "re" THEN {Summand(l, 0, v, "re")} ELSE {}
  <2>1. v = K + j /\ K \in Nat /\ Reads
    BY <1>1
  <2> HIDE DEF K, v
  <2>2. b \in DOMAIN OrderZero(K)
    BY <2>1, OrderZeroIs
  <2>3. OrderZero(K)[b] = ZeroSummand(e, l, v, ri)
    BY <2>1, OrderZeroIs
  <2> QED BY <2>2, <2>3 DEF ZeroSummand
<1>4. Summed(weak, x)[b] = OrderZero(K)[b] \cup {z[2] : z \in {y \in new : y[1] = b}}
  BY <1>2, <1>3 DEF Summed
<1>5. x \in Nat /\ x >= 1 /\ weak \in Nat /\ weak >= 2 /\ l \in Nat /\ w[1] = weak /\ w[2] = x
  BY <1>1, GridFreeAssumption
<1>6. ASSUME NEW m \in 1..LMAX PROVE First(m) \in Int /\ First(m) >= m /\ (l >= First(m) <=> l >= m /\ Counts(w, m, l))
  <2>1. m \in Nat
    BY <1>1
  <2>2. Counts(w, m, l) <=> m < weak \/ l >= m + 2 * x
    BY <1>5 DEF Counts
  <2> QED BY <1>5, <2>1, <2>2
<1> HIDE DEF First, w
<1>7. ASSUME NEW m \in 1..LMAX
      PROVE  (\E z \in Added(K, m, First(m)) : z[1] = b /\ t = z[2])
               <=> m % 2 = e /\ l >= First(m) /\ T(m)
  <2> DEFINE f == First(m)
  <2>1. f \in Int /\ f >= m
    BY <1>6
  <2>0. v = K + j /\ K \in Nat /\ Reads
    BY <1>1
  <2> HIDE DEF f, K, v
  <2>2. Gives(K, m, f, b, t) <=> Contributes(m, e, l, f, v, ri, t)
    BY <2>0, <2>1, AddedIs
  <2> QED BY <2>2 DEF f, Gives, Contributes
<1>8. t \in {z[2] : z \in {y \in new : y[1] = b}} <=> \E m \in 1..l : m % 2 = e /\ Counts(w, m, l) /\ T(m)
  <2>1. t \in {z[2] : z \in {y \in new : y[1] = b}}
          <=> \E m \in 1..LMAX : \E z \in Added(K, m, First(m)) : z[1] = b /\ t = z[2]
    OBVIOUS
  <2> HIDE DEF T, K, new
  <2>2. (\E m \in 1..LMAX : \E z \in Added(K, m, First(m)) : z[1] = b /\ t = z[2])
          <=> \E m \in 1..LMAX : m % 2 = e /\ l >= First(m) /\ T(m)
    BY <1>7
  <2>3. (\E m \in 1..LMAX : m % 2 = e /\ l >= First(m) /\ T(m))
          <=> \E m \in 1..l : m % 2 = e /\ Counts(w, m, l) /\ T(m)
    <3>1. ASSUME NEW m \in 1..LMAX, m % 2 = e, l >= First(m), T(m)
          PROVE  \E n \in 1..l : n % 2 = e /\ Counts(w, n, l) /\ T(n)
      <4>1. m \in 1..l /\ Counts(w, m, l)
        BY <1>1, <1>5, <1>6, <3>1
      <4> QED BY <3>1, <4>1
    <3>2. ASSUME NEW m \in 1..l, m % 2 = e, Counts(w, m, l), T(m)
          PROVE  \E n \in 1..LMAX : n % 2 = e /\ l >= First(n) /\ T(n)
      <4>1. m \in 1..LMAX /\ l >= m
        BY <1>1
      <4>2. l >= First(m)
        BY <1>6, <3>2, <4>1
      <4> QED BY <3>2, <4>1, <4>2
    <3> QED BY <3>1, <3>2
  <2> QED BY <2>1, <2>2, <2>3
<1>9. t \in OrderZero(K)[b] <=> e = 0 /\ ri # "im" /\ T(0)
  BY <1>3
<1>10. Counts(w, 0, l) /\ 0 % 2 = 0
  BY <1>5 DEF Counts
<1> HIDE DEF T, K, new
<1>11. (\E m \in 0..l : m % 2 = e /\ Chosen(w, l, m, ri) /\ T(m))
         <=> (e = 0 /\ ri # "im" /\ T(0)) \/ \E m \in 1..l : m % 2 = e /\ Counts(w, m, l) /\ T(m)
  <2>1. ASSUME NEW m \in 0..l, m % 2 = e, Chosen(w, l, m, ri), T(m)
        PROVE  (e = 0 /\ ri # "im" /\ T(0)) \/ \E n \in 1..l : n % 2 = e /\ Counts(w, n, l) /\ T(n)
    <3>1. CASE m = 0
      BY <1>10, <2>1, <3>1 DEF Chosen
    <3>2. CASE m # 0
      <4>1. m \in 1..l
        BY <1>5, <3>2
      <4> QED BY <2>1, <4>1 DEF Chosen
    <3> QED BY <3>1, <3>2
  <2>2. ASSUME e = 0, ri # "im", T(0) PROVE \E m \in 0..l : m % 2 = e /\ Chosen(w, l, m, ri) /\ T(m)
    <3>1. 0 \in 0..l
      BY <1>5
    <3> QED BY <1>10, <2>2, <3>1 DEF Chosen
  <2>3. ASSUME NEW m \in 1..l, m % 2 = e, Counts(w, m, l), T(m)
        PROVE  \E n \in 0..l : n % 2 = e /\ Chosen(w, l, n, ri) /\ T(n)
    <3>1. m \in 0..l /\ m # 0
      BY <1>5
    <3> QED BY <2>3, <3>1 DEF Chosen
  <2> QED BY <2>1, <2>2, <2>3
<1> QED BY <1>4, <1>8, <1>9, <1>11 DEF T, K, v, w

(* The places of a vector's lanes. *)
LEMMA LaneFacts ==
  ASSUME job \in Jobs, NEW l \in 1..LMAX, NEW j \in 0..(NWAY - 1), NEW ri \in {"re", "im"},
         NEW i \in 0..(VSIZE2 - 1), NEW o,
         o = (l - 1) * 2 * NWAY * VSIZE2 + (2 * j + (IF ri = "re" THEN 0 ELSE 1)) * VSIZE2 + i
  PROVE  o \div VSIZE2 = Spot(l, j, ri) /\ o % VSIZE2 = i
<1>1. LMAX \in Nat /\ NWAY \in Nat \ {0} /\ VSIZE2 \in Nat \ {0}
  BY JobFacts
<1> DEFINE A == (l - 1) * 2 * NWAY
           B == 2 * j + (IF ri = "re" THEN 0 ELSE 1)
           S == Spot(l, j, ri)
<1>2. S = A + B /\ S \in Nat
  <2>0. Spot(l, j, ri) \in 0..(2 * NWAY * LMAX - 1)
    BY SpotFacts
  <2>1. S = (l - 1) * 2 * NWAY + 2 * j + (IF ri = "re" THEN 0 ELSE 1)
    BY SpotFacts
  <2>2. A \in Int
    BY <1>1
  <2> HIDE DEF S
  <2>3. S = A + 2 * j + (IF ri = "re" THEN 0 ELSE 1)
    BY <2>1
  <2>4. S \in Nat
    BY <2>0 DEF S
  <2> HIDE DEF A
  <2> QED BY <2>2, <2>3, <2>4
<1>3. A \in Int /\ B \in Int
  BY <1>1
<1>4. o = A * VSIZE2 + B * VSIZE2 + i
  OBVIOUS
<1> HIDE DEF A, B, S
<1>5. o = S * VSIZE2 + i /\ o \in Int
  BY <1>1, <1>2, <1>3, <1>4
<1>6. o \div VSIZE2 = S /\ o % VSIZE2 = i
  BY <1>1, <1>2, <1>5, DigitsDiv
<1> QED BY <1>6 DEF S

PointTerm(p, w, l, v, i, t) ==
  \E m \in 0..l, ri \in {"re", "im"} :
    Chosen(w, l, m, ri) /\ t = Entry(Symmetric(p, l, m % 2, ri), Summand(l, m, v, ri), i, ri)

(* The sum for a point: its orders and parts, with the sign of the symmetry. *)
LEMMA PointSumIs ==
  ASSUME RotData, NEW weak \in 2..(LMAX + 1), NEW x \in 1..MaxSkip, NEW p \in Points,
         NEW l \in 1..LMAX, NEW j \in 0..(NWAY - 1), NEW i \in 0..(VSIZE2 - 1), NEW t,
         NEW v, v = rot.k + j, NEW w, w = <<weak, x>>
  PROVE  t \in PointSum(Summed(weak, x), p, l, j, i)
           <=> PointTerm(p, w, l, v, i, t)
<1> DEFINE qv == Summed(weak, x)
           O(ri) == (l - 1) * 2 * NWAY * VSIZE2 + (2 * j + (IF ri = "re" THEN 0 ELSE 1)) * VSIZE2 + i
<1>1. job \in Jobs
  BY DEF RotData, Reads
<1>2. ASSUME NEW ri \in {"re", "im"} PROVE O(ri) \div VSIZE2 = Spot(l, j, ri) /\ O(ri) % VSIZE2 = i
  BY <1>1, LaneFacts
<1>3. t \in PointSum(qv, p, l, j, i)
        <=> \E e \in {0, 1}, ri \in {"re", "im"} :
              \E z \in qv[<<e, O(ri) \div VSIZE2>>] : t = Entry(Symmetric(p, l, e, ri), z, O(ri) % VSIZE2, ri)
  <2>1. PointSum(qv, p, l, j, i)
          = UNION {{Entry(Symmetric(p, l, e, ri), z, O(ri) % VSIZE2, ri) : z \in qv[<<e, O(ri) \div VSIZE2>>]} :
                     e \in {0, 1}, ri \in {"re", "im"}}
    BY DEF PointSum, Entry
  <2> HIDE DEF O, qv
  <2> DEFINE X(e, ri) == {Entry(Symmetric(p, l, e, ri), z, O(ri) % VSIZE2, ri) : z \in qv[<<e, O(ri) \div VSIZE2>>]}
  <2>2. \A e, ri : t \in X(e, ri)
          <=> \E z \in qv[<<e, O(ri) \div VSIZE2>>] : t = Entry(Symmetric(p, l, e, ri), z, O(ri) % VSIZE2, ri)
    OBVIOUS
  <2>3. PointSum(qv, p, l, j, i) = UNION {X(e, ri) : e \in {0, 1}, ri \in {"re", "im"}}
    BY <2>1
  <2> HIDE DEF X
  <2>4. t \in PointSum(qv, p, l, j, i) <=> \E e \in {0, 1}, ri \in {"re", "im"} : t \in X(e, ri)
    BY <2>3
  <2> QED BY <2>2, <2>4
<1> HIDE DEF O, qv
<1>4. t \in PointSum(qv, p, l, j, i)
        <=> \E e \in {0, 1}, ri \in {"re", "im"} :
              \E z \in qv[<<e, Spot(l, j, ri)>>] : t = Entry(Symmetric(p, l, e, ri), z, i, ri)
  BY <1>2, <1>3
<1>5. ASSUME NEW e \in {0, 1}, NEW ri \in {"re", "im"}, NEW z
      PROVE  z \in qv[<<e, Spot(l, j, ri)>>]
               <=> \E m \in 0..l : m % 2 = e /\ Chosen(w, l, m, ri) /\ z = Summand(l, m, v, ri)
  <2> DEFINE b == <<e, Spot(l, j, ri)>>
  <2> HIDE DEF b
  <2>1. b = <<e, Spot(l, j, ri)>>
    BY DEF b
  <2>2. z \in Summed(weak, x)[b]
          <=> \E m \in 0..l : m % 2 = e /\ Chosen(<<weak, x>>, l, m, ri) /\ z = Summand(l, m, rot.k + j, ri)
    BY <2>1, BufferIs, SMTT(20)
  <2> QED BY <2>1, <2>2 DEF qv
<1>6. ASSUME t \in PointSum(qv, p, l, j, i)
      PROVE  \E m \in 0..l, ri \in {"re", "im"} :
               Chosen(w, l, m, ri) /\ t = Entry(Symmetric(p, l, m % 2, ri), Summand(l, m, v, ri), i, ri)
  <2>1. PICK e \in {0, 1}, ri \in {"re", "im"} :
          \E z \in qv[<<e, Spot(l, j, ri)>>] : t = Entry(Symmetric(p, l, e, ri), z, i, ri)
    BY <1>4, <1>6
  <2>2. PICK z \in qv[<<e, Spot(l, j, ri)>>] : t = Entry(Symmetric(p, l, e, ri), z, i, ri)
    BY <2>1
  <2>3. PICK m \in 0..l : m % 2 = e /\ Chosen(w, l, m, ri) /\ z = Summand(l, m, v, ri)
    BY <1>5, <2>2
  <2> QED BY <2>2, <2>3
<1>7. ASSUME NEW m \in 0..l, NEW ri \in {"re", "im"}, Chosen(w, l, m, ri),
             t = Entry(Symmetric(p, l, m % 2, ri), Summand(l, m, v, ri), i, ri)
      PROVE  t \in PointSum(qv, p, l, j, i)
  <2> DEFINE e == m % 2
             z == Summand(l, m, v, ri)
  <2>1. e \in {0, 1}
    BY <1>1, JobFacts
  <2>2. m % 2 = e
    OBVIOUS
  <2> HIDE DEF e
  <2>3. z \in qv[<<e, Spot(l, j, ri)>>]
    BY <1>5, <1>7, <2>1, <2>2
  <2>4. t = Entry(Symmetric(p, l, e, ri), z, i, ri)
    BY <1>7 DEF e
  <2> HIDE DEF z
  <2> QED BY <1>4, <2>1, <2>3, <2>4
<1> QED BY <1>6, <1>7 DEF qv, PointTerm
-----------------------------------------------------------------------------
(* Rotations: the points of the circle.                                    *)

(* Where a point is, and which latitude of the quarter it stands for. *)
LEMMA PointPlace ==
  ASSUME NEW h \in Nat, ntheta = 2 * h, NEW x \in 0..(h - 1), NEW P \in Points, NEW q, q = Position(P, x)
  PROVE  /\ q \in 0..(2 * ntheta - 1) /\ Quarter(q) = x
         /\ Beyond(q) <=> P = "north, beyond" \/ P = "south, beyond"
         /\ South(q) <=> P = "south" \/ P = "south, beyond"
<1>0. /\ "north" # "south" /\ "north" # "south, beyond" /\ "north" # "north, beyond"
      /\ "south" # "south, beyond" /\ "south" # "north, beyond" /\ "south, beyond" # "north, beyond"
  OBVIOUS
<1>1. ntheta \in Nat /\ ntheta \div 2 = h
  OBVIOUS
<1>2. CASE P = "north"
  <2>1. q = x
    BY <1>0, <1>2 DEF Position
  <2>2. ~Beyond(q) /\ Theta(q) = x
    BY <1>1, <2>1 DEF Beyond, Theta
  <2>3. ~South(q) /\ Quarter(q) = x
    BY <1>1, <2>2 DEF South, Quarter
  <2>4. q \in 0..(2 * ntheta - 1)
    BY <1>1, <2>1
  <2> QED BY <1>0, <1>2, <2>2, <2>3, <2>4
<1>3. CASE P = "south"
  <2>1. q = ntheta - 1 - x
    BY <1>0, <1>3 DEF Position
  <2>2. ~Beyond(q) /\ Theta(q) = ntheta - 1 - x
    BY <1>1, <2>1 DEF Beyond, Theta
  <2>3. South(q) /\ Quarter(q) = x
    BY <1>1, <2>2 DEF South, Quarter
  <2>4. q \in 0..(2 * ntheta - 1)
    BY <1>1, <2>1
  <2> QED BY <1>0, <1>3, <2>2, <2>3, <2>4
<1>4. CASE P = "south, beyond"
  <2>1. q = ntheta + x
    BY <1>0, <1>4 DEF Position
  <2>2. Beyond(q) /\ Theta(q) = ntheta - 1 - x
    BY <1>1, <2>1 DEF Beyond, Theta
  <2>3. South(q) /\ Quarter(q) = x
    BY <1>1, <2>2 DEF South, Quarter
  <2>4. q \in 0..(2 * ntheta - 1)
    BY <1>1, <2>1
  <2> QED BY <1>0, <1>4, <2>2, <2>3, <2>4
<1>5. CASE P = "north, beyond"
  <2>1. q = 2 * ntheta - 1 - x
    BY <1>0, <1>5 DEF Position
  <2>2. Beyond(q) /\ Theta(q) = x
    BY <1>1, <2>1 DEF Beyond, Theta
  <2>3. ~South(q) /\ Quarter(q) = x
    BY <1>1, <2>2 DEF South, Quarter
  <2>4. q \in 0..(2 * ntheta - 1)
    BY <1>1, <2>1
  <2> QED BY <1>0, <1>5, <2>2, <2>3, <2>4
<1> QED BY <1>2, <1>3, <1>4, <1>5 DEF Points

(* Every point is one of the four of its latitude. *)
LEMMA PointFound ==
  ASSUME NEW h \in Nat, ntheta = 2 * h, NEW q \in 0..(2 * ntheta - 1)
  PROVE  Quarter(q) \in 0..(h - 1) /\ \E P \in Points : q = Position(P, Quarter(q))
<1>0. /\ "north" # "south" /\ "north" # "south, beyond" /\ "north" # "north, beyond"
      /\ "south" # "south, beyond" /\ "south" # "north, beyond" /\ "south, beyond" # "north, beyond"
  OBVIOUS
<1>1. ntheta \in Nat /\ ntheta \div 2 = h
  OBVIOUS
<1> DEFINE x == Quarter(q)
<1>2. CASE ~Beyond(q) /\ ~South(q)
  <2>1. x = q /\ x \in 0..(h - 1)
    BY <1>1, <1>2 DEF Beyond, South, Theta, Quarter
  <2> HIDE DEF x
  <2>2. q = Position("north", x) /\ "north" \in Points
    BY <1>0, <2>1 DEF Position, Points
  <2> QED BY <2>1, <2>2 DEF x
<1>3. CASE ~Beyond(q) /\ South(q)
  <2>1. x = ntheta - 1 - q /\ x \in 0..(h - 1)
    BY <1>1, <1>3 DEF Beyond, South, Theta, Quarter
  <2> HIDE DEF x
  <2>2. q = ntheta - 1 - x
    BY <1>1, <2>1
  <2>3. q = Position("south", x) /\ "south" \in Points
    BY <1>0, <2>2 DEF Position, Points
  <2> QED BY <2>1, <2>3 DEF x
<1>4. CASE Beyond(q) /\ South(q)
  <2>1. q = ntheta + x /\ x \in 0..(h - 1)
    BY <1>1, <1>4 DEF Beyond, South, Theta, Quarter
  <2> HIDE DEF x
  <2>2. q = Position("south, beyond", x) /\ "south, beyond" \in Points
    BY <1>0, <2>1 DEF Position, Points
  <2> QED BY <2>1, <2>2 DEF x
<1>5. CASE Beyond(q) /\ ~South(q)
  <2>1. q = 2 * ntheta - 1 - x /\ x \in 0..(h - 1)
    BY <1>1, <1>5 DEF Beyond, South, Theta, Quarter
  <2> HIDE DEF x
  <2>2. q = Position("north, beyond", x) /\ "north, beyond" \in Points
    BY <1>0, <2>1 DEF Position, Points
  <2> QED BY <2>1, <2>2 DEF x
<1> QED BY <1>2, <1>3, <1>4, <1>5

OnQuarter(x) == \E h \in Nat : ntheta = 2 * h /\ x \in 0..(h - 1)
Parity(p, m) == p = m % 2

(* The signs of the four points, as the kernel has them. *)
LEMMA SignIs ==
  ASSUME NEW x, OnQuarter(x), NEW P \in Points, NEW q, q = Position(P, x),
         NEW l \in Nat, NEW m \in Nat, NEW ri, NEW p, Parity(p, m)
  PROVE  Sign(q, l, m, ri) = Symmetric(P, l, p, ri)
<1>0. /\ "north" # "south" /\ "north" # "south, beyond" /\ "north" # "north, beyond"
      /\ "south" # "south, beyond" /\ "south" # "north, beyond" /\ "south, beyond" # "north, beyond"
  OBVIOUS
<1> DEFINE B == Beyond(q)
           S == South(q)
           o == m % 2 = 1
           e == l % 2 = 1
           d == (l - m) % 2 = 1
           im == ri = "im"
<1>1. /\ B <=> P = "north, beyond" \/ P = "south, beyond"
      /\ S <=> P = "south" \/ P = "south, beyond"
  BY PointPlace DEF OnQuarter
<1>2. d <=> (e /\ ~o) \/ (~e /\ o)
  OBVIOUS
<1>3. Sign(q, l, m, ri) = Minus(B /\ o) * Minus(S /\ d) * (IF im THEN Minus(~B) ELSE 1)
  BY DEF Sign
<1>10. p = 1 <=> o
  BY DEF Parity
<1>4. /\ P = "north" => Symmetric(P, l, p, ri) = Minus(im)
      /\ P = "south, beyond" => Symmetric(P, l, p, ri) = Minus(e)
      /\ P = "north, beyond" => Symmetric(P, l, p, ri) = Minus(o)
      /\ P = "south" => Symmetric(P, l, p, ri) = Minus(o) * Minus(im) * Minus(e)
  BY <1>0, <1>10 DEF Symmetric, Minus
<1> HIDE DEF B, S, o, e, d, im
<1>9. Minus(FALSE) = 1 /\ Minus(TRUE) = -1 /\ (o => Minus(o) = -1) /\ (~o => Minus(o) = 1)
      /\ (e => Minus(e) = -1) /\ (~e => Minus(e) = 1) /\ (d => Minus(d) = -1) /\ (~d => Minus(d) = 1)
  BY DEF Minus
<1>5. CASE P = "north"
  <2>1. ~B /\ ~S
    BY <1>0, <1>1, <1>5
  <2> QED BY <1>3, <1>4, <1>5, <2>1 DEF Minus
<1>6. CASE P = "south, beyond"
  <2>1. B /\ S
    BY <1>1, <1>6
  <2>2. (IF im THEN Minus(~B) ELSE 1) = 1
    BY <2>1 DEF Minus
  <2>3. Minus(B /\ o) = Minus(o) /\ Minus(S /\ d) = Minus(d)
    BY <2>1 DEF Minus
  <2>4. Sign(q, l, m, ri) = Minus(o) * Minus(d) * 1
    BY <1>3, <2>2, <2>3
  <2>5. Minus(o) * Minus(d) * 1 = Minus(e)
    BY <1>2, <1>9
  <2> QED BY <1>4, <1>6, <2>4, <2>5
<1>7. CASE P = "north, beyond"
  <2>1. B /\ ~S
    BY <1>0, <1>1, <1>7
  <2>2. (IF im THEN Minus(~B) ELSE 1) = 1
    BY <2>1 DEF Minus
  <2>3. Minus(B /\ o) = Minus(o) /\ Minus(S /\ d) = 1
    BY <2>1 DEF Minus
  <2>4. Sign(q, l, m, ri) = Minus(o) * 1 * 1
    BY <1>3, <2>2, <2>3
  <2>5. Minus(o) * 1 * 1 = Minus(o)
    BY <1>9
  <2> QED BY <1>4, <1>7, <2>4, <2>5
<1>8. CASE P = "south"
  <2>1. ~B /\ S
    BY <1>0, <1>1, <1>8
  <2> QED BY <1>2, <1>3, <1>4, <1>8, <2>1 DEF Minus
<1> QED BY <1>5, <1>6, <1>7, <1>8 DEF Points

-----------------------------------------------------------------------------
(* Rotations: the ring of points.                                          *)

CircleTerm(q, w, l, v, i, t) ==
  \E m \in 0..l, ri \in {"re", "im"} :
    Chosen(w, l, m, ri) /\ t = Entry(Sign(q, l, m, ri), Summand(l, m, v, ri), i, ri)

LatitudeOf(x, v, i) == v = x \div VSIZE2 /\ i = x % VSIZE2
WeakAt(f, v) == f[(v \div NWAY) + 1]

(* The terms of the field at a point. *)
LEMMA CircleHas ==
  ASSUME NEW f, NEW q, NEW l, NEW t, NEW v, NEW i, LatitudeOf(Quarter(q), v, i),
         NEW w, w = WeakAt(f, v)
  PROVE  t \in CircleOf(f, q, l) <=> CircleTerm(q, w, l, v, i, t)
<1> DEFINE E(m, ri) == Entry(Sign(q, l, m, ri), Summand(l, m, v, ri), i, ri)
           N == {n \in (0..l) \X {"re", "im"} : Counts(w, n[1], l) /\ ~(n[1] = 0 /\ n[2] = "im")}
<1>1. CircleOf(f, q, l) = {E(n[1], n[2]) : n \in N}
  BY DEF CircleOf, PartsOf, LatitudeOf, WeakAt
<1> HIDE DEF E, N
<1>2. ASSUME t \in CircleOf(f, q, l) PROVE \E m \in 0..l, ri \in {"re", "im"} : Chosen(w, l, m, ri) /\ t = E(m, ri)
  <2>1. PICK n \in N : t = E(n[1], n[2])
    BY <1>1, <1>2
  <2>2. n[1] \in 0..l /\ n[2] \in {"re", "im"} /\ Chosen(w, l, n[1], n[2])
    BY DEF N, Chosen
  <2> QED BY <2>1, <2>2
<1>3. ASSUME NEW m \in 0..l, NEW ri \in {"re", "im"}, Chosen(w, l, m, ri), t = E(m, ri) PROVE t \in CircleOf(f, q, l)
  <2> DEFINE n == <<m, ri>>
  <2>1. n \in N /\ n[1] = m /\ n[2] = ri
    BY <1>3 DEF N, Chosen
  <2> HIDE DEF n
  <2>2. E(n[1], n[2]) \in {E(k[1], k[2]) : k \in N}
    BY <2>1
  <2> QED BY <1>1, <1>3, <2>1, <2>2
<1> QED BY <1>2, <1>3 DEF E, CircleTerm

(* Latitudes are numbered by vectors, and vectors by blocks. *)
LEMMA LatitudeIs ==
  ASSUME job \in Jobs, NEW k \in Nat, k % NWAY = 0, NEW j \in 0..(NWAY - 1), NEW i \in 0..(VSIZE2 - 1),
         NEW v, v = k + j, NEW x, x = v * VSIZE2 + i
  PROVE  x \div VSIZE2 = v /\ x % VSIZE2 = i /\ v \div NWAY = k \div NWAY /\ v \in Nat
<1>1. NWAY \in Nat \ {0} /\ VSIZE2 \in Nat \ {0}
  BY JobFacts
<1>2. v \in Nat
  BY <1>1
<1>3. x \in Int
  BY <1>1, <1>2
<1>4. x \div VSIZE2 = v /\ x % VSIZE2 = i
  BY <1>1, <1>2, <1>3, DigitsDiv
<1> DEFINE s == k \div NWAY
<1>5. s \in Nat /\ k = s * NWAY
  BY <1>1
<1> HIDE DEF s
<1>6. v = s * NWAY + j
  BY <1>5
<1>7. v \div NWAY = s
  BY <1>1, <1>2, <1>5, <1>6, DigitsDiv
<1> QED BY <1>2, <1>4, <1>7 DEF s

\* The blocks done so far, with what was negligible in each.
RingData ==
  /\ RotData /\ rot.k % NWAY = 0
  /\ rot.faint \in Seq((2..(LMAX + 1)) \X (1..MaxSkip)) /\ Len(rot.faint) = rot.k \div NWAY

LaneIs(y, j, i) == y = (rot.k + j) * VSIZE2 + i

FaintNext(g, weak, skip) == g = Append(rot.faint, <<weak, skip>>)

(* The kernel's sum for a point is the field there. *)
LEMMA RingEntry ==
  ASSUME RingData, rot.k < nk, NEW weak \in 2..(LMAX + 1), NEW skip \in 1..MaxSkip, NEW P \in Points,
         NEW l \in 1..LMAX, NEW j \in 0..(NWAY - 1), NEW i \in 0..(VSIZE2 - 1),
         NEW y, LaneIs(y, j, i), NEW q, q = Position(P, y), NEW g, FaintNext(g, weak, skip)
  PROVE  PointSum(Summed(weak, skip), P, l, j, i) = CircleOf(g, q, l) /\ q \in 0..(2 * ntheta - 1)
<1> DEFINE k == rot.k
           v == k + j
           x == v * VSIZE2 + i
           h == nk * VSIZE2
           w == <<weak, skip>>
<1>1. job \in Jobs /\ k \in Nat /\ k % NWAY = 0 /\ k < nk
  BY DEF RingData, RotData, Reads
<1>2. x \in 0..(h - 1) /\ h \in Nat /\ ntheta = 2 * h
  <2>1. x \in 0..(h - 1)
    <3>1. v = k + j
      OBVIOUS
    <3> HIDE DEF k
    <3> QED BY <1>1, PositionFacts
  <2>2. nk \in Nat /\ VSIZE2 \in Nat /\ ntheta = 2 * h
    BY <1>1, JobFacts, QuarterFacts
  <2> QED BY <2>1, <2>2
<1>3. x \div VSIZE2 = v /\ x % VSIZE2 = i /\ v \div NWAY = k \div NWAY
  <2>1. v = k + j /\ x = v * VSIZE2 + i
    OBVIOUS
  <2> HIDE DEF x, v, k
  <2> QED BY <1>1, <2>1, LatitudeIs
<1>4. q = Position(P, x) /\ x = y
  BY DEF LaneIs
<1>5. g[(k \div NWAY) + 1] = w
  BY DEF RingData, FaintNext
<1>6. v = rot.k + j
  OBVIOUS
<1> HIDE DEF x, v, k, h, w
<1>7. Quarter(q) = x /\ q \in 0..(2 * ntheta - 1)
  BY <1>2, <1>4, PointPlace
<1>8. LatitudeOf(Quarter(q), v, i) /\ w = WeakAt(g, v)
  BY <1>3, <1>5, <1>7 DEF LatitudeOf, WeakAt
<1>9. ASSUME NEW t
      PROVE  t \in PointSum(Summed(weak, skip), P, l, j, i) <=> t \in CircleOf(g, q, l)
  <2>1. t \in PointSum(Summed(weak, skip), P, l, j, i) <=> PointTerm(P, w, l, v, i, t)
    <3>1. w = <<weak, skip>> /\ RotData
      BY DEF w, RingData
    <3> QED BY <1>6, <3>1, PointSumIs
  <2>2. t \in CircleOf(g, q, l) <=> CircleTerm(q, w, l, v, i, t)
    BY <1>8, CircleHas
  <2>3. ASSUME NEW m \in 0..l, NEW ri \in {"re", "im"} PROVE Symmetric(P, l, m % 2, ri) = Sign(q, l, m, ri)
    <3>1. l \in Nat /\ m \in Nat
      BY <1>1, JobFacts
    <3>2. PICK odd : Parity(odd, m)
      BY DEF Parity
    <3>3. PICK a : OnQuarter(a) /\ q = Position(P, a)
      BY <1>2, <1>4 DEF OnQuarter
    <3>4. Sign(q, l, m, ri) = Symmetric(P, l, odd, ri)
      BY <3>1, <3>2, <3>3, SignIs
    <3> QED BY <3>2, <3>4 DEF Parity
  <2>4. PointTerm(P, w, l, v, i, t) <=> CircleTerm(q, w, l, v, i, t)
    BY <2>3 DEF PointTerm, CircleTerm
  <2> QED BY <2>1, <2>2, <2>4
<1> QED BY <1>7, <1>9

\* The points of the latitudes done so far.
RingRight(r) ==
  \A q \in 0..(2 * ntheta - 1), l \in 1..LMAX :
    Quarter(q) < r.k * VSIZE2 => r.q0[q * LMAX + l - 1] = CircleOf(r.faint, q, l)

RingPair(z, g) ==
  \E q \in 0..(2 * ntheta - 1), l \in 1..LMAX : z = <<q * LMAX + l - 1, CircleOf(g, q, l)>>

(* Quotient and remainder. *)
LEMMA Divided ==
  ASSUME NEW a \in Nat, NEW b \in Nat \ {0}
  PROVE  a \div b \in Nat /\ a % b \in 0..(b - 1) /\ a = (a \div b) * b + (a % b)
<1> DEFINE q == a \div b
<1>1. q \in Nat /\ a = b * q + (a % b) /\ a % b \in 0..(b - 1)
  OBVIOUS
<1> HIDE DEF q
<1>2. a = q * b + (a % b)
  BY <1>1
<1> QED BY <1>1, <1>2 DEF q

(* What a block of latitudes writes. *)
LEMMA RingWrites ==
  ASSUME RingData, rot.k < nk, NEW weak \in 2..(LMAX + 1), NEW skip \in 1..MaxSkip,
         NEW g, FaintNext(g, weak, skip), NEW z \in RingOf(Summed(weak, skip))
  PROVE  RingPair(z, g)
<1> DEFINE qv == Summed(weak, skip)
<1>1. PICK l \in 1..LMAX : \E P \in Points, j \in 0..(NWAY - 1), i \in 0..(VSIZE2 - 1) :
             z = <<Position(P, (rot.k + j) * VSIZE2 + i) * LMAX + l - 1, PointSum(qv, P, l, j, i)>>
  BY DEF RingOf
<1>2. PICK P \in Points, j \in 0..(NWAY - 1), i \in 0..(VSIZE2 - 1) :
             z = <<Position(P, (rot.k + j) * VSIZE2 + i) * LMAX + l - 1, PointSum(qv, P, l, j, i)>>
  BY <1>1
<1>3. PICK y, q : LaneIs(y, j, i) /\ q = Position(P, y)
  BY DEF LaneIs
<1>4. PointSum(Summed(weak, skip), P, l, j, i) = CircleOf(g, q, l) /\ q \in 0..(2 * ntheta - 1)
  BY <1>3, RingEntry
<1> QED BY <1>2, <1>3, <1>4 DEF RingPair, LaneIs

(* Which points it writes. *)
LEMMA RingCovers ==
  ASSUME RingData, rot.k < nk, NEW weak \in 2..(LMAX + 1), NEW skip \in 1..MaxSkip,
         NEW g, FaintNext(g, weak, skip),
         NEW q \in 0..(2 * ntheta - 1), NEW l \in 1..LMAX,
         rot.k * VSIZE2 <= Quarter(q), Quarter(q) < (rot.k + NWAY) * VSIZE2
  PROVE  <<q * LMAX + l - 1, CircleOf(g, q, l)>> \in RingOf(Summed(weak, skip))
<1> DEFINE K == rot.k
           H == nk * VSIZE2
           X == Quarter(q)
           v == X \div VSIZE2
           lane == X % VSIZE2
           vec == v - K
<1>1. job \in Jobs /\ K \in Nat /\ NWAY \in Nat \ {0} /\ VSIZE2 \in Nat \ {0}
  BY JobFacts DEF RingData, RotData, Reads
<1>2. H \in Nat /\ ntheta = 2 * H
  <2>1. nk \in Nat /\ ntheta = 2 * H
    BY <1>1, QuarterFacts
  <2> QED BY <1>1, <2>1
<1>3. X \in 0..(H - 1) /\ \E P \in Points : q = Position(P, X)
  BY <1>2, PointFound
<1>4. K * VSIZE2 <= X /\ X < (K + NWAY) * VSIZE2
  OBVIOUS
<1> HIDE DEF X, H, K
<1>5. v \in Nat /\ lane \in 0..(VSIZE2 - 1) /\ X = v * VSIZE2 + lane
  <2>1. X \in Nat
    BY <1>2, <1>3
  <2> HIDE DEF X
  <2> QED BY <1>1, <2>1, Divided
<1> HIDE DEF v, lane
<1>6. v >= K
  <2> SUFFICES ASSUME v < K PROVE FALSE
    BY <1>1, <1>5
  <2> DEFINE d == K - v - 1
  <2>1. d \in Nat /\ K = v + 1 + d
    BY <1>1, <1>5
  <2> HIDE DEF d
  <2>2. K * VSIZE2 = v * VSIZE2 + VSIZE2 + d * VSIZE2 /\ d * VSIZE2 \in Nat /\ v * VSIZE2 \in Nat
    BY <1>1, <1>5, <2>1
  <2> QED BY <1>1, <1>4, <1>5, <2>2
<1>7. v < K + NWAY
  <2> SUFFICES ASSUME v >= K + NWAY PROVE FALSE
    BY <1>1, <1>5
  <2> DEFINE d == v - (K + NWAY)
             e == K + NWAY
  <2>1. d \in Nat /\ v = e + d /\ e \in Nat
    BY <1>1, <1>5
  <2>2. X < e * VSIZE2
    BY <1>4
  <2> HIDE DEF d, e
  <2>3. v * VSIZE2 = e * VSIZE2 + d * VSIZE2 /\ d * VSIZE2 \in Nat /\ e * VSIZE2 \in Nat
    BY <1>1, <2>1
  <2> QED BY <1>1, <1>5, <2>2, <2>3
<1>8. vec \in 0..(NWAY - 1) /\ K + vec = v
  BY <1>1, <1>5, <1>6, <1>7
<1>9. PICK P \in Points : q = Position(P, X)
  BY <1>3
<1>10. X = (K + vec) * VSIZE2 + lane
  BY <1>5, <1>8
<1> HIDE DEF vec
<1>11. X = (rot.k + vec) * VSIZE2 + lane /\ LaneIs(X, vec, lane)
  BY <1>10 DEF K, LaneIs
<1>12. PointSum(Summed(weak, skip), P, l, vec, lane) = CircleOf(g, q, l)
  BY <1>5, <1>8, <1>9, <1>11, RingEntry
<1>13. <<Position(P, (rot.k + vec) * VSIZE2 + lane) * LMAX + l - 1, PointSum(Summed(weak, skip), P, l, vec, lane)>>
         \in RingOf(Summed(weak, skip))
  BY <1>5, <1>8 DEF RingOf
<1> QED BY <1>9, <1>11, <1>12, <1>13

(* A block of latitudes adds its points, and keeps the others. *)
LEMMA RingStep ==
  ASSUME RingData, rot.k < nk, RingRight(rot), DOMAIN rot.q0 = 0..RingEnd,
         NEW weak \in 2..(LMAX + 1), NEW skip \in 1..MaxSkip,
         NEW g, FaintNext(g, weak, skip),
         NEW q \in 0..(2 * ntheta - 1), NEW l \in 1..LMAX, Quarter(q) < (rot.k + NWAY) * VSIZE2
  PROVE  Overwrite(rot.q0, RingOf(Summed(weak, skip)))[q * LMAX + l - 1] = CircleOf(g, q, l)
<1> DEFINE ring == RingOf(Summed(weak, skip))
           O == q * LMAX + l - 1
           C == CircleOf(g, q, l)
<1>1. job \in Jobs /\ rot.k \in Nat /\ LMAX \in Nat /\ ntheta \in Nat
  BY JobFacts, QuarterFacts DEF RingData, RotData, Reads
<1>2. ASSUME NEW z \in ring, z[1] = O PROVE z[2] = C
  <2>1. PICK q2 \in 0..(2 * ntheta - 1), l2 \in 1..LMAX : z = <<q2 * LMAX + l2 - 1, CircleOf(g, q2, l2)>>
    <3>1. RingPair(z, g)
      BY RingWrites
    <3> QED BY <3>1 DEF RingPair
  <2>2. q2 * LMAX + l2 - 1 = q * LMAX + l - 1
    BY <1>2, <2>1
  <2> DEFINE r == l - 1
             r2 == l2 - 1
  <2>3. r \in 0..(LMAX - 1) /\ r2 \in 0..(LMAX - 1) /\ q \in Int /\ q2 \in Int /\ q * LMAX \in Int /\ q2 * LMAX \in Int
    BY <1>1
  <2>4. q2 * LMAX + r2 = q * LMAX + r
    BY <1>1, <2>2, <2>3
  <2> HIDE DEF r, r2
  <2>5. q2 = q /\ r2 = r
    BY <1>1, <2>3, <2>4, Digits
  <2>6. l2 = l
    BY <1>1, <2>5 DEF r, r2
  <2> QED BY <2>1, <2>5, <2>6
<1>3. CASE <<O, C>> \in ring
  <2> HIDE DEF ring, O, C
  <2>1. Overwrite(rot.q0, ring)[O] = C
    BY <1>2, <1>3, OverwriteAt
  <2> QED BY <2>1 DEF ring, O, C
<1>4. CASE <<O, C>> \notin ring
  <2>1. \A z \in ring : z[1] # O
    <3> SUFFICES ASSUME NEW z \in ring, z[1] = O PROVE FALSE
      OBVIOUS
    <3>1. z[2] = C
      BY <1>2
    <3>2. z = <<z[1], z[2]>>
      <4>1. PICK q2 \in 0..(2 * ntheta - 1), l2 \in 1..LMAX : z = <<q2 * LMAX + l2 - 1, CircleOf(g, q2, l2)>>
        <5>1. RingPair(z, g)
          BY RingWrites
        <5> QED BY <5>1 DEF RingPair
      <4> QED BY <4>1
    <3> HIDE DEF ring, O, C
    <3> QED BY <1>4, <3>1, <3>2
  <2>2. ~(rot.k * VSIZE2 <= Quarter(q))
    BY <1>4, RingCovers
  <2> DEFINE h == nk * VSIZE2
             X == Quarter(q)
             K == rot.k
             b == K * VSIZE2
             S == K \div NWAY
  <2>3. h \in Nat /\ ntheta = 2 * h /\ VSIZE2 \in Nat \ {0} /\ NWAY \in Nat \ {0} /\ K % NWAY = 0
    <3>1. VSIZE2 \in Nat \ {0} /\ NWAY \in Nat \ {0} /\ K % NWAY = 0
      BY <1>1, JobFacts DEF RingData
    <3>2. nk \in Nat /\ ntheta = 2 * h
      BY <1>1, QuarterFacts
    <3> QED BY <3>1, <3>2
  <2>4. X \in 0..(h - 1)
    BY <2>3, PointFound
  <2>5. b \in Nat
    <3>1. K \in Nat /\ VSIZE2 \in Nat
      BY <1>1, <2>3
    <3> HIDE DEF K
    <3> QED BY <3>1
  <2>6. ~(b <= X)
    BY <2>2
  <2>7. X < b
    <3> HIDE DEF X, b, h
    <3> QED BY <2>4, <2>5, <2>6
  <2>8. rot.q0[O] = CircleOf(rot.faint, q, l)
    BY <2>7 DEF RingRight
  <2>9. O \in DOMAIN rot.q0
    BY <1>1, RingPlace
  <2>10. ((X \div VSIZE2) \div NWAY) + 1 \in 1..S /\ S = Len(rot.faint)
    <3> DEFINE v == X \div VSIZE2
               u == v \div NWAY
    <3>1. S = Len(rot.faint)
      BY DEF RingData
    <3> HIDE DEF X, h
    <3>2. v \in Nat /\ v * VSIZE2 <= X
      <4>1. X \in Nat
        BY <2>3, <2>4
      <4>2. v \in Nat /\ X = VSIZE2 * v + (X % VSIZE2) /\ X % VSIZE2 >= 0 /\ X % VSIZE2 \in Int
        BY <2>3, <4>1
      <4> QED BY <2>3, <4>1, <4>2
    <3>3. K \in Nat /\ X < K * VSIZE2
      BY <1>1, <2>7
    <3> HIDE DEF v, K
    <3>4. v < K
      <4> SUFFICES ASSUME v >= K PROVE FALSE
        BY <3>2, <3>3
      <4> DEFINE d == v - K
      <4>1. d \in Nat /\ v = K + d
        BY <3>2, <3>3
      <4> HIDE DEF d
      <4>2. v * VSIZE2 = K * VSIZE2 + d * VSIZE2 /\ d * VSIZE2 \in Nat /\ K * VSIZE2 \in Nat
        BY <2>3, <3>3, <4>1
      <4> QED BY <2>3, <2>4, <3>2, <3>3, <4>2
    <3>5. u \in Nat /\ u * NWAY <= v
      BY <2>3, <3>2, Quotient
    <3>6. S \in Nat /\ K = S * NWAY
      BY <2>3, <3>3
    <3> HIDE DEF u, S
    <3>7. u < S
      <4> SUFFICES ASSUME u >= S PROVE FALSE
        BY <3>5, <3>6
      <4> DEFINE d == u - S
      <4>1. d \in Nat /\ u = S + d
        BY <3>5, <3>6
      <4> HIDE DEF d
      <4>2. u * NWAY = S * NWAY + d * NWAY /\ d * NWAY \in Nat /\ S * NWAY \in Nat
        BY <2>3, <3>6, <4>1
      <4>3. v \in Nat /\ K \in Nat
        BY <3>2, <3>3
      <4> QED BY <3>4, <3>5, <3>6, <4>2, <4>3
    <3>8. u + 1 \in 1..S
      BY <3>5, <3>6, <3>7
    <3> QED BY <3>1, <3>8 DEF u, v
  <2>11. CircleOf(g, q, l) = CircleOf(rot.faint, q, l)
    <3>1. g[((X \div VSIZE2) \div NWAY) + 1] = rot.faint[((X \div VSIZE2) \div NWAY) + 1]
      <4> DEFINE n == ((X \div VSIZE2) \div NWAY) + 1
      <4>1. n \in 1..Len(rot.faint)
        BY <2>10
      <4> HIDE DEF n
      <4>2. g[n] = rot.faint[n]
        BY <4>1 DEF RingData, FaintNext
      <4> QED BY <4>2 DEF n
    <3> QED BY <3>1 DEF CircleOf
  <2> HIDE DEF ring, O, X, h
  <2>12. Overwrite(rot.q0, ring)[O] = rot.q0[O]
    BY <2>1, <2>9 DEF Overwrite
  <2> QED BY <2>8, <2>11, <2>12 DEF ring, O
<1> QED BY <1>3, <1>4

-----------------------------------------------------------------------------
(* Rotations: what holds between the steps.                                *)

\* The result of a rotation, at each place.
RotationAt(o) ==
  LET l == Coef(o)[1]
      m == Coef(o)[2]
  IN  IF o = 0 THEN <<0, 0>>
      ELSE <<<<m, l>>, <<IF (l - m) % 2 = 0 THEN "Y" ELSE "dY", m, l, "equator">>, IF (l - m) % 2 = 0 THEN 1 ELSE -1>>
Alike == job \in Jobs /\ MMAX = LMAX /\ MRES = 1
QvPlaces == {0, 1} \X (0..(2 * NWAY * LMAX - 1))

\* While the circle is filled: the field as it was, and the points of the blocks done so far.
RingIs(r) ==
  /\ Alike
  /\ r.Q = [o \in 0..(NLM - 1) |-> Coef(o)] /\ DOMAIN r.qv = QvPlaces
  /\ r.k \in Nat /\ r.k % NWAY = 0
  /\ r.faint \in Seq((2..(LMAX + 1)) \X (1..MaxSkip)) /\ Len(r.faint) = r.k \div NWAY
  /\ RingRight(r)
\* While the result is stored: the transform, and the coefficients of the orders done so far.
StoreIs(r) ==
  /\ Alike
  /\ DOMAIN r.qv = QvPlaces
  /\ \A o \in 0..RingEnd : r.q0[o] = <<o \div LMAX, (o % LMAX) + 1>>
  /\ r.R = [o \in 0..(OrderStart(r.m) - 1) |-> RotationAt(o)]
Between(r, p) == (p = "ring" => RingIs(r)) /\ (p = "store" => StoreIs(r))

(* What holds depends on the job, which stays. *)
LEMMA BetweenSame ==
  ASSUME job' = job, NEW r, NEW p
  PROVE  Between(r, p)' <=> Between(r, p)
<1>1. /\ LMAX' = LMAX /\ MMAX' = MMAX /\ MRES' = MRES /\ NWAY' = NWAY /\ VSIZE2' = VSIZE2
  BY DEF LMAX, MMAX, MRES, NWAY, VSIZE2
<1>2. ntheta' = ntheta
  BY <1>1 DEF ntheta
<1>3. \A l, i : LiM(l, i)' = LiM(l, i)
  BY <1>1 DEF LiM
<1>4. NLM' = NLM /\ \A o : Coef(o)' = Coef(o)
  BY DEF NLM, Coef, LiM, LMAX, MMAX, MRES
<1>5. RingEnd' = RingEnd /\ \A m : OrderStart(m)' = OrderStart(m)
  BY <1>1, <1>2, <1>3, <1>4 DEF RingEnd, OrderStart
<1>6. \A o : RotationAt(o)' = RotationAt(o)
  BY <1>4 DEF RotationAt
<1>7. \A q : Quarter(q)' = Quarter(q) /\ Beyond(q)' = Beyond(q) /\ South(q)' = South(q)
  BY <1>2 DEF Quarter, South, Theta, Beyond
<1>8. \A q, l, m, ri : Sign(q, l, m, ri)' = Sign(q, l, m, ri)
  BY <1>7 DEF Sign
<1>9. \A f, q, l : CircleOf(f, q, l)' = CircleOf(f, q, l)
  BY <1>1, <1>7, <1>8 DEF CircleOf
<1>10. RingRight(r)' <=> RingRight(r)
  BY <1>1, <1>2, <1>7, <1>9 DEF RingRight
<1>11. Alike' <=> Alike
  BY <1>1 DEF Alike
<1>12. QvPlaces' = QvPlaces
  BY <1>1 DEF QvPlaces
<1>13. RingIs(r)' <=> RingIs(r)
  BY <1>1, <1>4, <1>10, <1>11, <1>12 DEF RingIs
<1>14. StoreIs(r)' <=> StoreIs(r)
  BY <1>1, <1>5, <1>6, <1>11, <1>12 DEF StoreIs
<1> QED BY <1>13, <1>14 DEF Between

(* What a rotation reads is the field as it is. *)
LEMMA RotatedIs ==
  ASSUME Alike, NEW source
  PROVE  Rotated(source) = [o \in 0..(NLM - 1) |-> source[o]]
<1>1. LMAX \in Nat /\ job \in Jobs
  BY JobFacts DEF Alike
<1>2. ASSUME NEW o \in 0..(NLM - 1)
      PROVE  (\E m \in 1..LMAX : o \in LiM(m, m)..LiM(LMAX, m)) \/ o <= LMAX
  <2>1. PICK i \in 0..MMAX : \E l \in (i * MRES)..LMAX : o = LiM(l, i)
    BY <1>1, PlaceFound
  <2>2. PICK l \in (i * MRES)..LMAX : o = LiM(l, i)
    BY <2>1
  <2>3. i * MRES = i /\ i \in 0..LMAX
    BY <1>1 DEF Alike
  <2>4. l \in i..LMAX /\ l \in Int /\ i \in Int
    BY <1>1, <2>2, <2>3
  <2>5. CASE i = 0
    <3>1. LiM(l, 0) = Base(0) + l /\ Base(0) = 0
      BY <1>1, LiMIs, BaseNext
    <3> QED BY <1>1, <2>2, <2>4, <2>5, <3>1
  <2>6. CASE i # 0
    <3>1. Base(i) \in Int /\ LiM(l, i) = Base(i) + l /\ LiM(i, i) = Base(i) + i /\ LiM(LMAX, i) = Base(i) + LMAX
      BY <1>1, <2>2, <2>3, BaseTwice, LiMIs
    <3>2. o \in LiM(i, i)..LiM(LMAX, i)
      BY <1>1, <2>2, <2>4, <3>1
    <3>3. i \in 1..LMAX
      BY <2>3, <2>6
    <3> QED BY <3>2, <3>3
  <2> QED BY <2>5, <2>6
<1> QED BY <1>2 DEF Rotated

(* The latitudes are more than the degrees. *)
LEMMA CircleLong ==
  ASSUME job \in Jobs
  PROVE  LMAX < ntheta
<1>1. LMAX \in Nat /\ NWAY \in Nat \ {0} /\ VSIZE2 \in Nat \ {0}
  BY JobFacts
<1> DEFINE D == 2 * VSIZE2 * NWAY
           e == LMAX + 2 * VSIZE2 * NWAY
           t == e \div D
<1>2. D \in Nat \ {0} /\ e \in Nat /\ e = LMAX + D
  <2>1. VSIZE2 * NWAY \in Nat \ {0}
    BY <1>1
  <2> QED BY <1>1, <2>1
<1>3. ntheta = t * 2 * VSIZE2 * NWAY
  BY DEF ntheta
<1>4. t * D = t * 2 * VSIZE2 * NWAY
  <2>1. t \in Nat
    <3> HIDE DEF D, e
    <3> QED BY <1>2, Divided
  <2> HIDE DEF t
  <2> QED BY <1>1, <2>1
<1> HIDE DEF D, e
<1>5. t \in Nat /\ e % D \in 0..(D - 1) /\ e = t * D + (e % D)
  BY <1>2, Divided
<1> HIDE DEF t
<1> QED BY <1>1, <1>2, <1>3, <1>4, <1>5

(* Nothing is done yet when a circle begins. *)
LEMMA RingBegins ==
  ASSUME Alike, NEW r, r.k = 0, r.faint = <<>>, DOMAIN r.qv = QvPlaces,
         r.Q = [o \in 0..(NLM - 1) |-> Coef(o)]
  PROVE  RingIs(r)
<1>1. NWAY \in Nat \ {0} /\ VSIZE2 \in Nat \ {0} /\ nk \in Nat /\ ntheta = 2 * (nk * VSIZE2)
  BY JobFacts, QuarterFacts DEF Alike
<1>2. 0 % NWAY = 0 /\ 0 \div NWAY = 0 /\ 0 * VSIZE2 = 0
  <2>1. 0 \div NWAY \in Nat /\ 0 % NWAY \in 0..(NWAY - 1) /\ 0 = (0 \div NWAY) * NWAY + (0 % NWAY)
    BY <1>1, Divided
  <2> DEFINE a == 0 \div NWAY
             b == 0 % NWAY
  <2>2. a \in Nat /\ b \in 0..(NWAY - 1) /\ 0 = a * NWAY + b
    BY <2>1
  <2> HIDE DEF a, b
  <2>3. 0 * NWAY + 0 = a * NWAY + b /\ 0 \in 0..(NWAY - 1) /\ 0 \in Int /\ a \in Int /\ NWAY \in Nat
    BY <1>1, <2>2
  <2>4. a = 0 /\ b = 0
    BY <2>2, <2>3, Digits
  <2> QED BY <1>1, <2>4 DEF a, b
<1>3. RingRight(r)
  <2> SUFFICES ASSUME NEW q \in 0..(2 * ntheta - 1), Quarter(q) < 0 * VSIZE2 PROVE FALSE
    BY DEF RingRight
  <2>1. PICK h \in Nat : ntheta = 2 * h
    BY <1>1
  <2>2. Quarter(q) \in 0..(h - 1)
    BY <2>1, PointFound
  <2> QED BY <1>2, <2>1, <2>2
<1>4. r.faint \in Seq((2..(LMAX + 1)) \X (1..MaxSkip)) /\ Len(r.faint) = 0
  OBVIOUS
<1> QED BY <1>2, <1>3, <1>4 DEF RingIs

(* What the lemmas about a block of latitudes need. *)
LEMMA RingKnown ==
  ASSUME RingIs(rot)
  PROVE  RingData /\ RingRight(rot)
BY DEF RingIs, Alike, QvPlaces, RingData, RotData, Reads

(* A block of latitudes. *)
LEMMA RingContinues ==
  ASSUME RingIs(rot), RotShape(rot, "ring"), rot.k < nk, NEW weak \in 2..(LMAX + 1), NEW skip \in 1..MaxSkip, NEW r,
         r = NextRing(Summed(weak, skip), <<weak, skip>>)
  PROVE  RingIs(r)
<1> DEFINE K == rot.k + NWAY
           Q0 == Overwrite(rot.q0, RingOf(Summed(weak, skip)))
           G == Append(rot.faint, <<weak, skip>>)
           B == Summed(weak, skip)
<1>1. /\ Alike /\ rot.k \in Nat /\ rot.k % NWAY = 0 /\ NWAY \in Nat \ {0} /\ DOMAIN rot.q0 = 0..RingEnd
      /\ DOMAIN rot = RotFields
  BY JobFacts DEF RingIs, Alike, RotShape
<1>2. DOMAIN B = DOMAIN rot.qv
  BY DEF Summed
<1>3. RingData /\ RingRight(rot)
  BY RingKnown
<1>4. FaintNext(G, weak, skip)
  BY DEF FaintNext
<1>5. ASSUME NEW q \in 0..(2 * ntheta - 1), NEW l \in 1..LMAX, Quarter(q) < K * VSIZE2
      PROVE  Q0[q * LMAX + l - 1] = CircleOf(G, q, l)
  <2> HIDE DEF G
  <2> QED BY <1>1, <1>3, <1>4, <1>5, RingStep
<1>6. K \in Nat /\ K % NWAY = 0 /\ K \div NWAY = (rot.k \div NWAY) + 1
  <2> DEFINE n == rot.k
             s == n \div NWAY
  <2>1. n \in Nat /\ n % NWAY = 0
    BY <1>1
  <2> HIDE DEF n
  <2>2. n + NWAY \in Nat /\ (n + NWAY) % NWAY = 0
    BY <1>1, <2>1, NextMultiple
  <2>3. s \in Nat /\ n = s * NWAY
    BY <1>1, <2>1
  <2> HIDE DEF s
  <2>4. n + NWAY = (s + 1) * NWAY + 0 /\ s + 1 \in Nat /\ 0 \in 0..(NWAY - 1) /\ NWAY \in Nat /\ n + NWAY \in Int
    BY <1>1, <2>2, <2>3
  <2>5. (n + NWAY) \div NWAY = s + 1
    <3> DEFINE sum == n + NWAY
               t == s + 1
    <3>1. sum = t * NWAY + 0 /\ t \in Nat /\ sum \in Int
      BY <2>4
    <3> HIDE DEF sum, t
    <3>2. sum \div NWAY = t
      BY <2>4, <3>1, DigitsDiv
    <3> QED BY <3>2 DEF sum, t
  <2> QED BY <2>2, <2>5 DEF n, s
<1>7. G \in Seq((2..(LMAX + 1)) \X (1..MaxSkip)) /\ Len(G) = (rot.k \div NWAY) + 1
  BY DEF RingIs
<1>8. r = [rot EXCEPT !.k = K, !.qv = B, !.q0 = Q0, !.faint = G]
  BY DEF NextRing
<1> HIDE DEF K, B, Q0, G
<1>9. r.k = K /\ r.qv = B /\ r.q0 = Q0 /\ r.faint = G /\ r.Q = rot.Q
  BY <1>1, <1>8 DEF RotFields
<1>10. RingRight(r)
  BY <1>5, <1>9 DEF RingRight
<1> QED BY <1>1, <1>2, <1>6, <1>7, <1>9, <1>10 DEF RingIs

(* When the quarter is done, all points are right. *)
LEMMA RingComplete ==
  ASSUME RingIs(rot), rot.k >= nk, NEW q \in 0..(2 * ntheta - 1), NEW l \in 1..LMAX
  PROVE  rot.q0[q * LMAX + l - 1] = Circle(q, l)
<1> DEFINE h == nk * VSIZE2
           K == rot.k
           X == Quarter(q)
<1>1. nk \in Nat /\ VSIZE2 \in Nat \ {0} /\ ntheta = 2 * h /\ K \in Nat /\ K >= nk
  BY JobFacts, QuarterFacts DEF RingIs, Alike
<1>2. h \in Nat
  BY <1>1
<1>3. X \in 0..(h - 1)
  BY <1>1, <1>2, PointFound
<1>4. X < K * VSIZE2
  <2> DEFINE d == K - nk
  <2>1. d \in Nat /\ K = nk + d
    BY <1>1
  <2> HIDE DEF d, X, K
  <2>2. K * VSIZE2 = nk * VSIZE2 + d * VSIZE2 /\ d * VSIZE2 \in Nat
    BY <1>1, <2>1
  <2> QED BY <1>2, <1>3, <2>2
<1>5. rot.q0[q * LMAX + l - 1] = CircleOf(rot.faint, q, l)
  BY <1>4 DEF RingIs, RingRight
<1> QED BY <1>5, CircleIs

-----------------------------------------------------------------------------
(* Rotations: the result.                                                  *)

(* The places of the orders, and what belongs there. *)
LEMMA ResultAt ==
  ASSUME Alike, NEW m \in 0..LMAX, NEW l \in m..LMAX, l # 0, NEW o, o = LiM(l, m)
  PROVE  RotationAt(o) =
           <<<<m, l>>, <<IF (l - m) % 2 = 0 THEN "Y" ELSE "dY", m, l, "equator">>, IF (l - m) % 2 = 0 THEN 1 ELSE -1>>
<1>1. job \in Jobs /\ LMAX \in Nat /\ m \in 0..MMAX /\ l \in (m * MRES)..LMAX /\ 0 \in 0..MMAX /\ 0 \in (0 * MRES)..LMAX
  BY JobFacts DEF Alike
<1>2. Coef(o) = <<l, m>>
  BY <1>1, CoefIs
<1>3. o # 0
  <2> SUFFICES ASSUME o = 0 PROVE FALSE
    OBVIOUS
  <2>1. LiM(0, 0) = 0
    BY <1>1, LiMIs, BaseNext
  <2>2. LiM(l, m) = LiM(0, 0)
    BY <2>1
  <2>3. l = 0
    BY <1>1, <2>2, PlaceApart
  <2> QED BY <2>3
<1> QED BY <1>2, <1>3 DEF RotationAt

(* After the transforms: the orders of each degree, and degree 0 as it was. *)
LEMMA StoreBegins ==
  ASSUME RingIs(rot), RotShape(rot, "ring"), NEW r,
         r = [rot EXCEPT !.q0 = [o \in DOMAIN rot.q0 |-> <<o \div LMAX, (o % LMAX) + 1>>], !.R = [o \in {0} |-> rot.Q[0]]]
  PROVE  StoreIs(r)
<1> DEFINE Q0 == [o \in DOMAIN rot.q0 |-> <<o \div LMAX, (o % LMAX) + 1>>]
           R0 == [o \in {0} |-> rot.Q[0]]
<1>1. Alike /\ rot.m = 0 /\ DOMAIN rot.q0 = 0..RingEnd /\ DOMAIN rot = RotFields /\ DOMAIN rot.qv = QvPlaces
  BY DEF RingIs, RotShape
<1>2. job \in Jobs /\ LMAX \in Nat /\ 0 \in 0..MMAX /\ 0 \in (0 * MRES)..LMAX
  BY <1>1, JobFacts DEF Alike
<1>3. Coef(0) = <<0, 0>> /\ 0 \in 0..(NLM - 1)
  <2>1. LiM(0, 0) = 0
    BY <1>2, LiMIs, BaseNext
  <2>2. Coef(LiM(0, 0)) = <<0, 0>> /\ LiM(0, 0) \in 0..(NLM - 1)
    BY <1>2, CoefIs, PlaceFacts
  <2> QED BY <2>1, <2>2
<1>4. rot.Q[0] = <<0, 0>>
  BY <1>3 DEF RingIs
<1>5. R0 = [o \in 0..(OrderStart(0) - 1) |-> RotationAt(o)]
  <2>1. OrderStart(0) = 1
    BY DEF OrderStart
  <2>2. RotationAt(0) = <<0, 0>>
    BY DEF RotationAt
  <2>3. 0..(1 - 1) = {0}
    OBVIOUS
  <2> QED BY <1>4, <2>1, <2>2, <2>3
<1>6. \A o \in 0..RingEnd : Q0[o] = <<o \div LMAX, (o % LMAX) + 1>>
  BY <1>1
<1> HIDE DEF Q0, R0
<1>7. r.q0 = Q0 /\ r.R = R0 /\ r.m = 0 /\ r.qv = rot.qv
  BY <1>1 DEF Q0, R0, RotFields
<1> QED BY <1>1, <1>5, <1>6, <1>7 DEF StoreIs

(* What is stored for a degree. *)
LEMMA StoredIs ==
  ASSUME StoreIs(rot), rot.m \in 0..LMAX, NEW l \in From..LMAX, NEW o, o = LiM(l, rot.m)
  PROVE  <<rot.q0[rot.m * LMAX + l - 1], Equ[l], Sgn(l)>> = RotationAt(o)
<1> DEFINE M == rot.m
<1>1. /\ Alike /\ job \in Jobs /\ LMAX \in Nat /\ LMAX >= 2 /\ M \in Nat /\ M \in 0..LMAX
      /\ l \in M..LMAX /\ l # 0 /\ l \in 1..LMAX /\ l \in Nat
  BY JobFacts DEF StoreIs, Alike, From
<1>2. rot.q0[M * LMAX + l - 1] = <<M, l>>
  <2> DEFINE n == M * LMAX + l - 1
             c == l - 1
  <2>1. M \in 0..(2 * ntheta - 1)
    <3>1. LMAX < ntheta /\ ntheta \in Nat
      BY <1>1, CircleLong, QuarterFacts
    <3> HIDE DEF M
    <3> QED BY <1>1, <3>1
  <2>2. n \in 0..RingEnd
    <3> HIDE DEF M
    <3> QED BY <1>1, <2>1, RingPlace
  <2>3. rot.q0[n] = <<n \div LMAX, (n % LMAX) + 1>>
    BY <2>2 DEF StoreIs
  <2>4. c \in 0..(LMAX - 1) /\ c + 1 = l
    BY <1>1
  <2> HIDE DEF M
  <2>5. M * LMAX \in Int
    BY <1>1
  <2>6. n = M * LMAX + c /\ n \in Int
    BY <1>1, <2>5
  <2> HIDE DEF n, c
  <2>7. n \div LMAX = M /\ n % LMAX = c
    BY <1>1, <2>4, <2>6, DigitsDiv, SMTT(30)
  <2>8. rot.q0[n] = <<M, l>>
    BY <2>3, <2>4, <2>7
  <2> QED BY <2>8 DEF n
<1>3. Equ[l] = <<IF (l - M) % 2 = 0 THEN "Y" ELSE "dY", M, l, "equator">>
  <2>1. Equ[l] = Value(IF (l - M) % 2 = 0 THEN "Y" ELSE "dY", M, l, "equator")
    BY <1>1 DEF Equ, legendre_sphPlm_deriv_array_equ
  <2>2. Climbed(M, l)
    <3> HIDE DEF M
    <3> QED BY <1>1, Climbs DEF Alike
  <2> QED BY <2>1, <2>2 DEF Value
<1>4. Sgn(l) = IF (l - M) % 2 = 0 THEN 1 ELSE -1
  <2>1. CASE M = 0
    <3>1. Sgn(l) = IF (l - 1) % 2 = 0 THEN -1 ELSE 1
      BY <2>1 DEF Sgn, From
    <3> HIDE DEF M
    <3> QED BY <1>1, <2>1, <3>1
  <2>2. CASE M # 0
    BY <2>2 DEF Sgn, From
  <2> QED BY <2>1, <2>2
<1>5. RotationAt(o) =
        <<<<M, l>>, <<IF (l - M) % 2 = 0 THEN "Y" ELSE "dY", M, l, "equator">>, IF (l - M) % 2 = 0 THEN 1 ELSE -1>>
  <2>1. o = LiM(l, M)
    OBVIOUS
  <2> HIDE DEF M
  <2> QED BY <1>1, <2>1, ResultAt
<1> QED BY <1>2, <1>3, <1>4, <1>5

(* An order of the result. *)
LEMMA StoreContinues ==
  ASSUME StoreIs(rot), RotShape(rot, "store"), rot.m <= LMAX, NEW r,
         r = [rot EXCEPT !.R = Overwrite(rot.R, OrderOf), !.m = rot.m + 1, !.lm = rot.lm + LMAX - From + 1]
  PROVE  StoreIs(r)
<1> DEFINE M == rot.m
           R0 == rot.R
           R1 == Overwrite(rot.R, OrderOf)
           a == OrderStart(M)
           b == OrderStart(M + 1)
           at(l) == rot.lm + l - From
<1>1. /\ Alike /\ job \in Jobs /\ LMAX \in Nat /\ M \in 0..LMAX /\ M \in Nat /\ rot.lm = a
      /\ DOMAIN rot = RotFields /\ NLM \in Nat
  BY JobFacts, NLMType DEF StoreIs, Alike, RotShape
<1>2. From \in Int /\ From \in 0..LMAX /\ From = (IF M = 0 THEN 1 ELSE M)
  BY <1>1, JobFacts DEF From
<1>3. /\ b = a + LMAX - From + 1
      /\ \A l \in From..LMAX : at(l) = LiM(l, M) /\ LiM(l, M) \in 0..(NLM - 1)
  <2> DEFINE c == rot.lm
  <2>1. c = a /\ MMAX = LMAX /\ MRES = 1
    BY <1>1 DEF Alike
  <2> HIDE DEF M, c
  <2>2. /\ b = a + LMAX - From + 1
        /\ \A l \in From..LMAX : a + l - From = LiM(l, M) /\ LiM(l, M) \in 0..(NLM - 1)
    BY <1>1, <1>2, <2>1, OrderEnd
  <2> HIDE DEF a, b
  <2>3. \A l \in From..LMAX : c + l - From = LiM(l, M)
    BY <2>1, <2>2
  <2> QED BY <2>2, <2>3 DEF c, M
<1>4. a \in Int
  <2>1. From \in From..LMAX
    BY <1>1, <1>2
  <2>2. at(From) = LiM(From, M) /\ LiM(From, M) \in 0..(NLM - 1)
    BY <1>3, <2>1
  <2>3. CASE M = 0
    BY <2>3 DEF OrderStart
  <2>4. CASE M # 0
    <3>1. From = M /\ a = LiM(M, M)
      BY <1>1, <1>2, <2>4 DEF OrderStart
    <3> QED BY <2>2, <3>1
  <2> QED BY <2>3, <2>4
<1>5. a >= 0
  <2>1. CASE M = 0
    BY <2>1 DEF OrderStart
  <2>2. CASE M # 0
    <3>1. From = M /\ a = LiM(M, M) /\ M \in From..LMAX
      BY <1>1, <1>2, <2>2 DEF OrderStart
    <3>2. LiM(M, M) \in 0..(NLM - 1)
      BY <1>3, <3>1
    <3> QED BY <3>1, <3>2
  <2> QED BY <2>1, <2>2
<1>6. Paired(From, LMAX) = From..LMAX
  BY <1>1, <1>2, PairedIs, SMTT(30)
<1> DEFINE val(l) == <<rot.q0[M * LMAX + l - 1], Equ[l], Sgn(l)>>
<1>7. OrderOf = {<<at(l), val(l)>> : l \in From..LMAX}
  BY <1>6 DEF OrderOf
<1>8. \A l \in From..LMAX : val(l) = RotationAt(at(l))
  <2> SUFFICES ASSUME NEW l \in From..LMAX PROVE val(l) = RotationAt(at(l))
    OBVIOUS
  <2>1. at(l) = LiM(l, rot.m)
    BY <1>3
  <2>2. rot.m \in 0..LMAX
    BY <1>1
  <2> HIDE DEF at
  <2> QED BY <2>1, <2>2, StoredIs
<1>9. rot.R = [o \in 0..(a - 1) |-> RotationAt(o)]
  BY DEF StoreIs
<1>10. \A l \in From..LMAX : at(l) \in a..(b - 1)
  <2> HIDE DEF a, b
  <2> QED BY <1>1, <1>2, <1>3, <1>4
<1>11. \A o \in a..(b - 1) : \E l \in From..LMAX : at(l) = o
  <2> SUFFICES ASSUME NEW o \in a..(b - 1) PROVE \E l \in From..LMAX : at(l) = o
    OBVIOUS
  <2> DEFINE l == From + (o - a)
  <2> HIDE DEF a, b
  <2>1. l \in From..LMAX /\ at(l) = o
    BY <1>1, <1>2, <1>3, <1>4
  <2> HIDE DEF l
  <2> QED BY <2>1
<1>12. a <= b
  <2> HIDE DEF a, b
  <2> QED BY <1>1, <1>2, <1>3, <1>4
<1> HIDE DEF a, b, at, val
<1>13. R1 = [o \in 0..(b - 1) |-> RotationAt(o)]
  <2> DEFINE D == (0..(a - 1)) \cup {z[1] : z \in OrderOf}
             F(o) == IF \E z \in OrderOf : z[1] = o THEN (CHOOSE z \in OrderOf : z[1] = o)[2] ELSE rot.R[o]
  <2>1. R1 = [o \in D |-> F(o)]
    BY <1>9 DEF Overwrite
  <2>2. b \in Int
    BY <1>1, <1>2, <1>3, <1>4
  <2>3. D = 0..(b - 1)
    <3>1. {z[1] : z \in OrderOf} = {at(l) : l \in From..LMAX}
      <4>1. ASSUME NEW z \in OrderOf PROVE z[1] \in {at(l) : l \in From..LMAX}
        BY <1>7
      <4>2. ASSUME NEW l \in From..LMAX PROVE at(l) \in {z[1] : z \in OrderOf}
        <5>1. <<at(l), val(l)>> \in OrderOf
          BY <1>7
        <5>2. <<at(l), val(l)>>[1] = at(l)
          OBVIOUS
        <5> QED BY <5>1, <5>2
      <4> QED BY <4>1, <4>2
    <3>2. \A o \in D : o \in 0..(b - 1)
      BY <1>4, <1>5, <1>10, <1>12, <2>2, <3>1
    <3>3. \A o \in 0..(b - 1) : o \in 0..(a - 1) \/ o \in a..(b - 1)
      BY <1>4, <2>2
    <3>4. \A o \in a..(b - 1) : o \in {at(l) : l \in From..LMAX}
      BY <1>11
    <3> QED BY <3>1, <3>2, <3>3, <3>4
  <2>4. ASSUME NEW o \in 0..(b - 1) PROVE F(o) = RotationAt(o)
    <3>1. CASE \E z \in OrderOf : z[1] = o
      <4> DEFINE z == CHOOSE y \in OrderOf : y[1] = o
      <4>1. z \in OrderOf /\ z[1] = o
        BY <3>1
      <4>2. F(o) = z[2]
        BY <3>1
      <4> HIDE DEF z
      <4>3. PICK l \in From..LMAX : z = <<at(l), val(l)>>
        BY <1>7, <4>1
      <4> QED BY <1>8, <4>1, <4>2, <4>3
    <3>2. CASE ~\E z \in OrderOf : z[1] = o
      <4>1. o \notin a..(b - 1)
        <5> SUFFICES ASSUME o \in a..(b - 1) PROVE FALSE
          OBVIOUS
        <5>1. PICK l \in From..LMAX : at(l) = o
          BY <1>11
        <5>2. <<at(l), val(l)>> \in OrderOf
          BY <1>7
        <5> QED BY <3>2, <5>1, <5>2
      <4>2. o \in 0..(a - 1)
        BY <1>4, <2>2, <4>1
      <4>3. F(o) = rot.R[o]
        BY <3>2
      <4> HIDE DEF F
      <4> QED BY <1>9, <4>2, <4>3
    <3> QED BY <3>1, <3>2
  <2> HIDE DEF F, D
  <2> QED BY <2>1, <2>3, <2>4
<1>14. r.R = R1 /\ r.m = M + 1 /\ r.q0 = rot.q0 /\ r.qv = rot.qv
  <2> DEFINE n == M + 1
             c == rot.lm + LMAX - From + 1
  <2>1. r = [rot EXCEPT !.R = R1, !.m = n, !.lm = c]
    OBVIOUS
  <2> HIDE DEF R1, n, c
  <2>2. r.R = R1 /\ r.m = n /\ r.q0 = rot.q0 /\ r.qv = rot.qv
    BY <1>1, <2>1 DEF RotFields
  <2> QED BY <2>2 DEF n
<1> HIDE DEF R1
<1>15. r.R = [o \in 0..(OrderStart(r.m) - 1) |-> RotationAt(o)]
  BY <1>13, <1>14 DEF b
<1>16. Alike /\ DOMAIN rot.qv = QvPlaces /\ \A o \in 0..RingEnd : rot.q0[o] = <<o \div LMAX, (o % LMAX) + 1>>
  BY DEF StoreIs
<1> QED BY <1>14, <1>15, <1>16 DEF StoreIs

(* All orders: all coefficients. *)
LEMMA StoreComplete ==
  ASSUME StoreIs(rot), RotShape(rot, "store"), rot.m > LMAX
  PROVE  rot.R = [o \in 0..(NLM - 1) |-> RotationAt(o)]
<1>1. LMAX \in Nat /\ rot.m \in 0..(LMAX + 1)
  BY JobFacts DEF StoreIs, Alike, RotShape
<1>2. OrderStart(rot.m) = NLM
  BY <1>1 DEF OrderStart
<1> QED BY <1>2 DEF StoreIs

(* The second kernel reads what the first one stored. *)
LEMMA RingAgain ==
  ASSUME StoreIs(rot), RotShape(rot, "store"), rot.m > LMAX, NEW r,
         r = [rot EXCEPT !.n = rot.n + 1, !.k = 0, !.m = 0, !.lm = 1, !.faint = <<>>,
                         !.Q = Rotated([o \in 0..(NLM - 1) |-> IF o \in DOMAIN rot.R THEN Coef(o) ELSE Wrong]),
                         !.qv = [b \in DOMAIN rot.qv |-> {Wrong}], !.q0 = [o \in DOMAIN rot.q0 |-> Wrong]]
  PROVE  RingIs(r)
<1> DEFINE S == [o \in 0..(NLM - 1) |-> IF o \in DOMAIN rot.R THEN Coef(o) ELSE Wrong]
           T == Rotated(S)
           B == [b \in DOMAIN rot.qv |-> {Wrong}]
           Z == [o \in DOMAIN rot.q0 |-> Wrong]
           e == <<>>
<1>1. Alike /\ DOMAIN rot.qv = QvPlaces /\ DOMAIN rot = RotFields
  BY DEF StoreIs, RotShape
<1>2. S = [o \in 0..(NLM - 1) |-> Coef(o)]
  BY StoreComplete
<1>3. T = [o \in 0..(NLM - 1) |-> Coef(o)]
  <2> HIDE DEF S
  <2>1. T = [o \in 0..(NLM - 1) |-> S[o]]
    BY <1>1, RotatedIs
  <2> QED BY <1>2, <2>1
<1>4. DOMAIN B = QvPlaces
  BY <1>1
<1>5. r = [rot EXCEPT !.n = rot.n + 1, !.k = 0, !.m = 0, !.lm = 1, !.faint = e, !.Q = T, !.qv = B, !.q0 = Z]
  OBVIOUS
<1> HIDE DEF T, B, Z, e
<1>6. r.k = 0 /\ r.faint = e /\ r.Q = T /\ r.qv = B
  BY <1>1, <1>5 DEF RotFields
<1> QED BY <1>1, <1>3, <1>4, <1>6, RingBegins DEF e

(* The rotation about z turns every order above 0, and leaves order 0. *)
LEMMA ZrotateIs ==
  ASSUME job \in Jobs, Zrotate
  PROVE  res' = [o \in 0..(NLM - 1) |-> <<Coef(o)[2] * MRES, Coef(o)>>]
<1> DEFINE turned == UNION {{LiM(l, im) : l \in (im * MRES)..LMAX} : im \in 1..MMAX}
           left == (IF call.same THEN 0..(NLM - 1) ELSE 0..LMAX) \ turned
           V(o) == <<IF o \in turned THEN Coef(o)[2] * MRES ELSE 0, Coef(o)>>
<1>1. res' = [o \in turned \cup left |-> V(o)]
  BY DEF Zrotate, Return
<1>2. LMAX \in Nat /\ MMAX \in Nat /\ MRES \in Nat /\ MMAX * MRES <= LMAX
  BY JobFacts
<1>3. \A o \in turned : o \in 0..(NLM - 1)
  <2> SUFFICES ASSUME NEW im \in 1..MMAX, NEW l \in (im * MRES)..LMAX PROVE LiM(l, im) \in 0..(NLM - 1)
    OBVIOUS
  <2>1. im \in 0..MMAX
    BY <1>2
  <2> QED BY <2>1, PlaceFacts
<1>4. ASSUME NEW o \in 0..(NLM - 1), o \notin turned
      PROVE  o \in 0..LMAX /\ Coef(o) = <<o, 0>>
  <2>1. PICK i \in 0..MMAX : \E l \in (i * MRES)..LMAX : o = LiM(l, i)
    BY PlaceFound
  <2>2. PICK l \in (i * MRES)..LMAX : o = LiM(l, i)
    BY <2>1
  <2>3. i = 0
    <3> SUFFICES ASSUME i # 0 PROVE FALSE
      OBVIOUS
    <3>1. i \in 1..MMAX
      BY <1>2
    <3>2. o \in turned
      BY <2>2, <3>1
    <3> QED BY <1>4, <3>2
  <2>4. LiM(l, 0) = l /\ l \in 0..LMAX
    <3>1. LiM(l, 0) = Base(0) + l /\ Base(0) = 0
      BY LiMIs, BaseNext
    <3> QED BY <1>2, <2>2, <2>3, <3>1
  <2>5. Coef(o) = <<l, 0>>
    BY <2>2, <2>3, CoefIs
  <2> QED BY <2>2, <2>3, <2>4, <2>5
<1>5. \A o \in 0..LMAX : o \in 0..(NLM - 1)
  <2> SUFFICES ASSUME NEW o \in 0..LMAX PROVE o \in 0..(NLM - 1)
    OBVIOUS
  <2>1. 0 \in 0..MMAX /\ o \in (0 * MRES)..LMAX
    BY <1>2
  <2>2. LiM(o, 0) \in 0..(NLM - 1) /\ LiM(o, 0) = Base(0) + o /\ Base(0) = 0
    BY <2>1, PlaceFacts, BaseNext
  <2> QED BY <1>2, <2>2
<1> HIDE DEF turned
<1>6. turned \cup left = 0..(NLM - 1)
  BY <1>3, <1>4, <1>5
<1>7. \A o \in 0..(NLM - 1) : V(o) = <<Coef(o)[2] * MRES, Coef(o)>>
  <2> SUFFICES ASSUME NEW o \in 0..(NLM - 1), o \notin turned PROVE 0 = Coef(o)[2] * MRES
    OBVIOUS
  <2>1. Coef(o)[2] = 0
    BY <1>4
  <2> QED BY <1>2, <2>1
<1> HIDE DEF left, V
<1> QED BY <1>1, <1>6, <1>7

-----------------------------------------------------------------------------
(* Rotations: every step, and the theorems.                                *)

(* The steps of a rotation. *)
LEMMA RotationSteps ==
  ASSUME ProgOK, RotOK, Between(rot, pc), RotBegin \/ RotRing \/ RotFft \/ RotStore \/ RotEnd
  PROVE  Between(rot', pc')
<1>1. job \in Jobs
  BY DEF ProgOK
<1>2. MMAX = LMAX /\ MRES = 1
  <2>1. pc \in {"ring", "store"} => call.fn \in Rotations
    BY DEF ProgOK
  <2>2. call.fn \in Rotations /\ pc # "idle"
    BY <2>1, QuietSteps
  <2>3. Made \in 1..Len(Prog) /\ call = Prog[Made]
    BY <2>2, CallFacts
  <2> QED BY <1>1, <2>2, <2>3, ProgFacts
<1>3. Alike
  BY <1>1, <1>2 DEF Alike
<1>4. "ring" # "store" /\ "ring" # "idle" /\ "store" # "idle"
  OBVIOUS
<1>5. CASE RotBegin
  <2> DEFINE S == [o \in 0..(NLM - 1) |-> Coef(o)]
             T == Rotated(S)
             B == [b \in {0, 1} \X (0..(2 * NWAY * LMAX - 1)) |-> {Wrong}]
             Z == [o \in 0..((2 * ntheta + 2) * LMAX - 1) |-> Wrong]
             e == <<>>
  <2>1. /\ pc' = "ring"
        /\ rot' = [n |-> 1, k |-> 0, Q |-> T, qv |-> B, q0 |-> Z, faint |-> e, m |-> 0, lm |-> 1, R |-> e]
    BY <1>5 DEF RotBegin
  <2>2. T = S
    <3>1. \A f : Rotated(f) = [o \in 0..(NLM - 1) |-> f[o]]
      BY <1>3, RotatedIs
    <3> QED BY <3>1
  <2>3. DOMAIN B = QvPlaces
    BY DEF QvPlaces
  <2> HIDE DEF S, T, B, Z, e
  <2>4. rot'.k = 0 /\ rot'.faint = e /\ rot'.Q = T /\ rot'.qv = B
    BY <2>1
  <2>5. RingIs(rot')
    BY <1>3, <2>2, <2>3, <2>4, RingBegins DEF S, e
  <2> QED BY <1>4, <2>1, <2>5 DEF Between
<1>6. CASE RotRing
  <2>1. pc = "ring" /\ pc' = "ring" /\ rot.k < nk
    BY <1>6, RotRingIs
  <2>2. PICK weak \in 2..(LMAX + 1), skip \in 1..MaxSkip : rot' = NextRing(Summed(weak, skip), <<weak, skip>>)
    BY <1>6, RotRingIs
  <2>3. RingIs(rot) /\ RotShape(rot, "ring")
    BY <2>1 DEF Between, RotOK
  <2>4. RingIs(rot')
    BY <2>1, <2>2, <2>3, RingContinues
  <2> QED BY <1>4, <2>1, <2>4 DEF Between
<1>7. CASE RotFft
  <2>1. pc = "ring" /\ pc' = "store"
        /\ rot' = [rot EXCEPT !.q0 = [o \in DOMAIN rot.q0 |-> <<o \div LMAX, (o % LMAX) + 1>>], !.R = [o \in {0} |-> rot.Q[0]]]
    BY <1>7 DEF RotFft
  <2>2. RingIs(rot) /\ RotShape(rot, "ring")
    BY <2>1 DEF Between, RotOK
  <2>3. StoreIs(rot')
    BY <2>1, <2>2, StoreBegins
  <2> QED BY <1>4, <2>1, <2>3 DEF Between
<1>8. CASE RotStore
  <2>1. /\ pc = "store" /\ pc' = "store" /\ rot.m <= LMAX
        /\ rot' = [rot EXCEPT !.R = Overwrite(rot.R, OrderOf), !.m = rot.m + 1, !.lm = rot.lm + LMAX - From + 1]
    BY <1>8, RotStoreIs
  <2>2. StoreIs(rot) /\ RotShape(rot, "store")
    BY <2>1 DEF Between, RotOK
  <2>3. StoreIs(rot')
    BY <2>1, <2>2, StoreContinues
  <2> QED BY <1>4, <2>1, <2>3 DEF Between
<1>9. CASE RotEnd
  <2>1. pc = "store" /\ rot.m > LMAX
    BY <1>9 DEF RotEnd
  <2>2. StoreIs(rot) /\ RotShape(rot, "store")
    BY <2>1 DEF Between, RotOK
  <2>3. CASE rot.n < Kernels
    <3>1. /\ pc' = "ring"
          /\ rot' = [rot EXCEPT !.n = rot.n + 1, !.k = 0, !.m = 0, !.lm = 1, !.faint = <<>>,
                         !.Q = Rotated([o \in 0..(NLM - 1) |-> IF o \in DOMAIN rot.R THEN Coef(o) ELSE Wrong]),
                         !.qv = [b \in DOMAIN rot.qv |-> {Wrong}], !.q0 = [o \in DOMAIN rot.q0 |-> Wrong]]
      BY <1>9, <2>3 DEF RotEnd
    <3>2. RingIs(rot')
      BY <2>1, <2>2, <3>1, RingAgain
    <3> QED BY <1>4, <3>1, <3>2 DEF Between
  <2>4. CASE ~(rot.n < Kernels)
    <3>1. pc' = "idle"
      BY <1>9, <2>4 DEF RotEnd, Return
    <3> QED BY <1>4, <3>1 DEF Between
  <2> QED BY <2>3, <2>4
<1> QED BY <1>5, <1>6, <1>7, <1>8, <1>9

(* Every step. *)
LEMMA BetweenStep ==
  ASSUME ProgOK, RotOK, Between(rot, pc), [Next]_vars
  PROVE  Between(rot, pc)'
<1>1. PICK r, p : r = rot' /\ p = pc'
  OBVIOUS
<1>2. CASE RotBegin \/ RotRing \/ RotFft \/ RotStore \/ RotEnd
  <2>1. job' = job
    BY <1>2, QuietSteps DEF Quiet
  <2>2. Between(r, p)
    BY <1>1, <1>2, RotationSteps
  <2>3. Between(r, p)'
    BY <2>1, <2>2, BetweenSame
  <2> QED BY <1>1, <2>3 DEF Between
<1>3. CASE UNCHANGED vars
  <2>1. job' = job /\ r = rot /\ p = pc
    BY <1>1, <1>3 DEF vars
  <2>2. Between(r, p)
    BY <2>1
  <2>3. Between(r, p)'
    BY <2>1, <2>2, BetweenSame
  <2> QED BY <1>1, <2>3 DEF Between
<1>4. CASE Start \/ EvalLat \/ CreateWithGrid \/ EvalPoint \/ Operate \/ Zrotate
  <2>1. pc' \in {"run", "idle"}
    <3>1. Start => pc' = "run"
      BY DEF Start
    <3>2. EvalLat => pc' = "idle"
      BY EvalLatIs
    <3>3. CreateWithGrid => pc' = "idle"
      BY DEF CreateWithGrid, Return
    <3> QED BY <1>4, <3>1, <3>2, <3>3, QuietSteps
  <2> QED BY <2>1 DEF Between
<1> QED BY <1>2, <1>3, <1>4, Steps DEF Quiet

\* What the rotations return.
Turned == [o \in 0..(NLM - 1) |-> RotationAt(o)]
TurnedZ == [o \in 0..(NLM - 1) |-> <<Coef(o)[2] * MRES, Coef(o)>>]
ResultRight == (Ended(Rotations) => res = Turned) /\ (Ended({"SH_Zrotate"}) => res = TurnedZ)

(* A result is what it should be when its call returns, and stays so until the next one. *)
LEMMA ResultStep ==
  ASSUME ProgOK, RotOK, Between(rot, pc), ResultRight, [Next]_vars
  PROVE  ResultRight'
<1>1. CASE Start
  BY <1>1 DEF Start, ResultRight, Ended
<1>2. ASSUME job' = job PROVE Turned' = Turned /\ TurnedZ' = TurnedZ
  BY <1>2 DEF Turned, TurnedZ, RotationAt, NLM, Coef, LiM, LMAX, MMAX, MRES
<1>3. CASE UNCHANGED vars
  <2>1. call' = call /\ job' = job /\ res' = res /\ pc' = pc
    BY <1>3 DEF vars
  <2> QED BY <1>2, <2>1 DEF ResultRight, Ended
<1>4. CASE EvalLat \/ CreateWithGrid \/ EvalPoint \/ Operate
  <2>1. call' = call /\ call.fn \in ToLat \cup ToPoint \cup Operators \cup {"shtns_create_with_grid"}
    <3>1. EvalLat => call' = call /\ call.fn \in ToLat
      BY EvalLatIs
    <3>2. CreateWithGrid => call' = call /\ call.fn \in {"shtns_create_with_grid"}
      BY DEF CreateWithGrid, Is, Return
    <3> QED BY <1>4, <3>1, <3>2, QuietSteps DEF Quiet
  <2> QED BY <2>1 DEF ResultRight, Ended, Operators, ToLat, ToPoint, Rotations
<1>5. CASE RotBegin \/ RotRing \/ RotFft \/ RotStore
  <2>1. pc' \in {"ring", "store"}
    BY <1>5, QuietSteps
  <2> QED BY <2>1 DEF ResultRight, Ended
<1>6. CASE RotEnd
  <2>1. call' = call /\ job' = job /\ pc = "store" /\ rot.m > LMAX
    BY <1>6, QuietSteps DEF Quiet, RotEnd
  <2>2. StoreIs(rot) /\ RotShape(rot, "store") /\ call.fn \in Rotations
    BY <2>1 DEF Between, RotOK, ProgOK
  <2>3. rot.R = Turned
    BY <2>1, <2>2, StoreComplete DEF Turned
  <2>4. pc' = "ring" \/ (pc' = "idle" /\ res' = rot.R)
    BY <1>6 DEF RotEnd, Return
  <2>5. call.fn \notin {"SH_Zrotate"}
    BY <2>2 DEF Rotations
  <2> QED BY <1>2, <2>1, <2>3, <2>4, <2>5 DEF ResultRight, Ended
<1>7. CASE Zrotate
  <2>1. call' = call /\ job' = job /\ call.fn \in {"SH_Zrotate"}
    BY <1>7, QuietSteps DEF Quiet
  <2>2. res' = TurnedZ
    BY <1>7, ZrotateIs DEF TurnedZ, ProgOK
  <2>3. call.fn \notin Rotations
    BY <2>1 DEF Rotations
  <2> QED BY <1>2, <2>1, <2>2, <2>3 DEF ResultRight, Ended
<1> QED BY <1>1, <1>3, <1>4, <1>5, <1>6, <1>7, Steps DEF Quiet

(* The circle of points is complete when it is transformed. *)
LEMMA RotationHolds ==
  ASSUME Between(rot, pc), ResultRight
  PROVE  RotationRight
<1>1. ASSUME pc = "ring", rot.k >= nk
      PROVE  \A p \in 0..(2 * ntheta - 1), l \in 1..LMAX : rot.q0[p * LMAX + l - 1] = Circle(p, l)
  <2>1. RingIs(rot)
    BY <1>1 DEF Between
  <2> QED BY <1>1, <2>1, RingComplete
<1>2. Ended(Rotations) => res = [o \in 0..(NLM - 1) |-> RotationAt(o)]
  BY DEF ResultRight, Turned
<1>3. Ended({"SH_Zrotate"}) => res = [o \in 0..(NLM - 1) |-> <<Coef(o)[2] * MRES, Coef(o)>>]
  BY DEF ResultRight, TurnedZ
<1> QED BY <1>1, <1>2, <1>3 DEF RotationRight, RotationAt

(* Types: nothing is written beyond the end of the blocks of Legendre functions, of the ring of
   points or of the result of a rotation, whatever the sizes and the build's vectors. *)
THEOREM GridFreeTypes == Spec => []TypeOK
<1> DEFINE I == ProgOK /\ CacheOK /\ RotOK
<1>1. Init => I
  <2> SUFFICES ASSUME Init PROVE RotOK
    BY InitCache
  <2> QED BY DEF Init, RotOK
<1>2. I /\ [Next]_vars => I'
  BY BaseStep, RotStep
<1>3. I => TypeOK
  BY TypesHold
<1> QED BY <1>1, <1>2, <1>3, PTL DEF Spec

(* Products with cos(theta) and sin(theta) d/dtheta take the degrees below and above with their
   own elements of the recurrence, and nothing leaks between orders: for all programs. *)
THEOREM OperatorsAreRight == Spec => []OperatorsRight
<1> DEFINE I == ProgOK /\ CacheOK /\ OperatorsRight
<1>1. Init => I
  <2>1. Init => OperatorsRight
    BY DEF Init, OperatorsRight, Ended
  <2> QED BY <2>1, InitCache
<1>2. I /\ [Next]_vars => I'
  BY BaseStep, OperatorsStep
<1>3. I => OperatorsRight
  OBVIOUS
<1> QED BY <1>1, <1>2, <1>3, PTL DEF Spec

(* Where the programs are careful, each field at a latitude or at a point has all its degrees and
   orders with the Legendre functions of its latitude, and is transformed with a plan which
   exists and has its length: what stays behind from earlier calls, on the same configuration
   or on copies, is then always enough.  Without the hypothesis the run MCGridStale shows
   how it is not. *)
THEOREM LocalIsRight ==
  ASSUME CarefulJobs
  PROVE  Spec => []LocalRight
<1> DEFINE I == ProgOK /\ CacheOK /\ KeepOK /\ LocalRight
<1>1. Init => I
  <2>1. Init => LocalRight
    BY DEF Init, LocalRight, Ended
  <2> QED BY <2>1, InitCache, InitKeeps
<1>2. I /\ [Next]_vars => I'
  BY BaseStep, KeepStep, LocalStep
<1>3. I => LocalRight
  OBVIOUS
<1> QED BY <1>1, <1>2, <1>3, PTL DEF Spec

(* A rotation evaluates the field of every degree at every point of the great circle with the right
   symmetries, whatever the build's vectors and wherever the Legendre functions are negligible,
   and stores every order of the result once, at its own place and divided by its own function at
   the equator; the second kernel of SH_Yrotate finds the whole result of the first.  A
   rotation about z, in place or not, turns every order: for all sizes and programs. *)
THEOREM RotationsAreRight == Spec => []RotationRight
<1> DEFINE I == ProgOK /\ CacheOK /\ RotOK /\ Between(rot, pc) /\ ResultRight
<1>1. Init => I
  <2> SUFFICES ASSUME Init PROVE RotOK /\ Between(rot, pc) /\ ResultRight
    BY InitCache
  <2>1. pc = "idle" /\ rot = NULL /\ call = NULL
    BY DEF Init
  <2> QED BY <2>1 DEF RotOK, Between, ResultRight, Ended
<1>2. I /\ [Next]_vars => I'
  BY BaseStep, RotStep, BetweenStep, ResultStep
<1>3. I => RotationRight
  BY RotationHolds
<1> QED BY <1>1, <1>2, <1>3, PTL DEF Spec
=============================================================================
