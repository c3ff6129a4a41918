------------------------ MODULE LegendreSum_proofs ------------------------
(***************************************************************************)
(* The sums of LegendreSum are right for every size of a transform, every  *)
(* number of threads and of blocks, every truncation but the constant one, *)
(* and every call but the analysis of a vector for one order above 0.      *)
(*                                                                         *)
(* The invariants say, at each place of a kernel, what the pointers, the   *)
(* registers, the sums and the results are as functions of the order and   *)
(* the degree.  They are operators of the call j, the order's least degree *)
(* k = im * MRES, and the registers x.                                     *)
(***************************************************************************)
EXTENDS LegendreSum, FiniteSetTheorems, TLAPS

-----------------------------------------------------------------------------
(* Induction over the natural numbers, for sets rather than predicates.     *)

(* A set with 0 and with the successor of each of its numbers has all. *)
LEMMA SetInduction ==
  ASSUME NEW P, 0 \in P, \A k \in Nat : k \in P => k + 1 \in P
  PROVE  Nat \subseteq P
<1> SUFFICES ASSUME NEW n \in Nat, n \notin P PROVE FALSE
  OBVIOUS
<1> DEFINE D == {k \in 0..n : k \notin P}
           f == [k \in D |-> k - 1]
<1>1. IsFiniteSet(0..n)
  BY FS_Interval
<1>2. IsFiniteSet(D)
  BY <1>1, FS_Subset
<1>3. IsFiniteSet(D \ {n}) /\ Cardinality(D \ {n}) = Cardinality(D) - 1 /\ Cardinality(D) \in Nat
  <2>1. n \in D
    OBVIOUS
  <2> QED BY <1>2, <2>1, FS_RemoveElement, FS_CardinalityType
<1>4. \A k \in D : k - 1 \in D \ {n}
  <2> TAKE k \in D
  <2>1. k \in Nat /\ k # 0
    OBVIOUS
  <2>2. k - 1 \in Nat /\ (k - 1) + 1 = k /\ k - 1 \in 0..n /\ k - 1 # n
    BY <2>1
  <2>3. k - 1 \notin P
    BY <2>2
  <2> QED BY <2>2, <2>3
<1>5. f \in Injection(D, D \ {n})
  BY <1>4 DEF Injection, IsInjective
<1>6. Cardinality(D) <= Cardinality(D \ {n})
  BY <1>2, <1>3, <1>5, FS_Injection DEF ExistsInjection
<1> QED BY <1>3, <1>6

-----------------------------------------------------------------------------
Callable ==
  \A j \in Jobs : /\ j.llim > 0
                  /\ ~(j.one /\ j.dir = "analys" /\ j.f # "Q" /\ j.im > 0)

-----------------------------------------------------------------------------
(* The packed tables.                                                      *)

(* A triangular number and the next one. *)
LEMMA Triangle ==
  ASSUME NEW i \in Nat \ {0}
  PROVE  (i * (i - 1)) \div 2 = ((i - 1) * (i - 2)) \div 2 + (i - 1)
<1> DEFINE a == (i - 1) * (i - 2)
<1>1. i * (i - 1) = a + 2 * (i - 1) /\ a \in Int
  OBVIOUS
<1> HIDE DEF a
<1>2. (a + 2 * (i - 1)) \div 2 = a \div 2 + (i - 1)
  BY <1>1
<1> QED BY <1>1, <1>2 DEF a

(* Products of natural numbers. *)
LEMMA Products ==
  /\ MMAX \in Nat /\ LMAX \in Nat \ {0} /\ MRES \in Nat \ {0} /\ MMAX * MRES <= LMAX
  /\ \A i \in 0..MMAX : i * MRES \in 0..LMAX
<1> USE SizesAssumption
<1>1. ASSUME NEW i \in 0..MMAX PROVE i * MRES \in 0..LMAX
  <2> DEFINE d == MMAX - i
  <2>1. d \in Nat /\ MMAX = i + d
    OBVIOUS
  <2> HIDE DEF d
  <2>2. d * MRES \in Nat /\ i * MRES \in Nat /\ MMAX * MRES = i * MRES + d * MRES
    BY <2>1
  <2> QED BY <2>2
<1> QED BY <1>1

(* The number of elements before an order is what the recursion says. *)
LEMMA BeforeIs ==
  Before = [i \in 0..MMAX |-> IF i = 0 THEN 0 ELSE Before[i - 1] + LMAX - (i - 1) * MRES + 1]
<1> DEFINE F == [i \in 0..MMAX |-> i * (LMAX + 1) - MRES * ((i * (i - 1)) \div 2)]
           Q(g) == g = [i \in 0..MMAX |->
                          IF i = 0 THEN 0 ELSE g[i - 1] + LMAX - (i - 1) * MRES + 1]
<1>1. Q(F)
  <2>1. F[0] = 0
    BY Products
  <2>2. ASSUME NEW i \in 0..MMAX, i # 0
        PROVE  F[i] = F[i - 1] + LMAX - (i - 1) * MRES + 1
    <3>1. i \in Nat \ {0} /\ i - 1 \in 0..MMAX
      BY <2>2, Products
    <3> DEFINE t == ((i - 1) * (i - 2)) \div 2
    <3>2. t \in Int
      <4>1. (i - 1) * (i - 2) \in Int
        BY <3>1
      <4> QED BY <4>1
    <3>3. F[i] = i * (LMAX + 1) - MRES * (t + (i - 1))
      BY <3>1, Triangle
    <3>4. F[i - 1] = (i - 1) * (LMAX + 1) - MRES * t
      BY <3>1
    <3> HIDE DEF t, F
    <3>5. MRES * (t + (i - 1)) = MRES * t + (i - 1) * MRES /\ MRES * t \in Int
      BY <3>1, <3>2, Products
    <3>6. i * (LMAX + 1) = (i - 1) * (LMAX + 1) + LMAX + 1
      BY <3>1, Products
    <3>7. (i - 1) * (LMAX + 1) \in Int /\ (i - 1) * MRES \in Int
      BY <3>1, Products
    <3> QED BY <3>3, <3>4, <3>5, <3>6, <3>7, Products
  <2> QED BY <2>1, <2>2
<1>2. Before = CHOOSE g : Q(g)
  BY DEF Before
<1> HIDE DEF Q, F
<1>3. Q(CHOOSE g : Q(g))
  BY <1>1
<1>4. Q(Before)
  BY <1>2, <1>3
<1> QED BY <1>4 DEF Q

(* The rows of the coefficients and of the recurrence, without a division. *)
LEMMA Rows ==
  ASSUME NEW i \in 0..MMAX
  PROVE  /\ Before[i] \in Nat
         /\ 2 * Before[i] = i * (2 * (LMAX + 1) - (i - 1) * MRES)
         /\ AlmRow(i) = 2 * Before[i]
<1> DEFINE P == {k \in Nat : k <= MMAX =>
                   /\ Before[k] \in Nat
                   /\ 2 * Before[k] = k * (2 * (LMAX + 1) - (k - 1) * MRES)}
<1>1. 0 \in P
  BY BeforeIs, Products
<1>2. ASSUME NEW k \in Nat, k \in P, k + 1 <= MMAX
      PROVE  /\ Before[k + 1] \in Nat
             /\ 2 * Before[k + 1] = (k + 1) * (2 * (LMAX + 1) - k * MRES)
  <2>1. k \in 0..MMAX /\ k + 1 \in 0..MMAX
    BY <1>2, Products
  <2>2. /\ Before[k] \in Nat
        /\ 2 * Before[k] = k * (2 * (LMAX + 1) - (k - 1) * MRES)
    BY <1>2, <2>1
  <2>3. Before[k + 1] = Before[k] + LMAX - k * MRES + 1
    BY <2>1, BeforeIs
  <2>4. k * MRES \in 0..LMAX
    BY <2>1, Products
  <2>5. (k + 1) * (2 * (LMAX + 1) - k * MRES)
          = k * (2 * (LMAX + 1) - (k - 1) * MRES) + 2 * (LMAX + 1) - 2 * (k * MRES)
    BY <1>2, Products
  <2> QED BY <2>2, <2>3, <2>4, <2>5, Products
<1>3. \A k \in Nat : k \in P => k + 1 \in P
  BY <1>2
<1> HIDE DEF P
<1>4. i \in P
  BY <1>1, <1>3, SetInduction, Products
<1> QED BY <1>4, Products DEF P, AlmRow

(* The macro and the packing agree. *)
LEMMA Places ==
  ASSUME NEW i \in 0..MMAX, NEW l \in Int
  PROVE  /\ LiM(l, i) = Pos(i, l)
         /\ Pos(i, l) = Before[i] - i * MRES + l
         /\ Pos(i, l) \in Int
<1> DEFINE b == Before[i]
           k == i * MRES
<1>1. b \in Nat /\ 2 * b = i * (2 * (LMAX + 1) - (i - 1) * MRES)
  BY Rows
<1>2. k \in Nat
  BY Products
<1>3. i * (2 * LMAX + 2 - (i + 1) * MRES) = 2 * b - 2 * k
  BY <1>1, Products
<1> HIDE DEF b, k
<1>4. (2 * b - 2 * k) \div 2 = b - k
  BY <1>1, <1>2
<1> QED BY <1>1, <1>2, <1>3, <1>4 DEF LiM, Pos, b, k
-----------------------------------------------------------------------------
(* The registers.                                                          *)

Term == {"Q", "V"} \X Int \X Int \X Int
RegType ==
  [l: 0..(LMAX + 2), al: Nat, ny: MinExp..0, y0: Int, y1: Int, d0: Int, d1: Int,
   first: 0..(LMAX + 1), q: Nat, v: Nat, weight: BOOLEAN, sinQ: Int, sinV: Int,
   half: Int, nphi: BOOLEAN, terms: SUBSET Term, twice: BOOLEAN]

HasOf(j, f) == j.f \in {f, "3"}
SynthOf(j) == j.dir = "synth"

(* All but the recurrence and the sum. *)
Kept(z, x) ==
  /\ z.l = x.l /\ z.al = x.al /\ z.ny = x.ny /\ z.first = x.first /\ z.q = x.q /\ z.v = x.v
  /\ z.weight = x.weight /\ z.sinQ = x.sinQ /\ z.sinV = x.sinV /\ z.half = x.half
  /\ z.nphi = x.nphi
SameY(z, x) == z.y0 = x.y0 /\ z.y1 = x.y1 /\ z.d0 = x.d0 /\ z.d1 = x.d1

(* A term counts with the degree of y when y is large enough and weighted. *)
Counts(j, x) == x.ny = 0 /\ x.weight = ~SynthOf(j)

(* The parts of a call have their types. *)
LEMMA JobFacts ==
  ASSUME job \in Jobs
  PROVE  /\ job.kern \in {"fly", "omp", "mic"} /\ job.dir \in {"synth", "analys"}
         /\ job.one \in BOOLEAN /\ job.f \in {"Q", "V", "3"} /\ job.magic \in BOOLEAN
         /\ job.llim \in 0..LMAX /\ job.im \in 0..MMAX /\ job.nth \in Nat \ {0}
         /\ job.im * MRES <= job.llim
         /\ job.one => job.kern = "fly"
         /\ job.kern = "fly" => job.nth = 1
BY JobsAssumption DEF JobType

(* x with one more term, if the field is there and the coefficient is no padding. *)
Added(j, z, x, f, y, c, p) ==
  /\ z \in RegType /\ Kept(z, x) /\ SameY(z, x)
  /\ z.terms = IF HasOf(j, f) /\ c # Pad THEN x.terms \cup {<<f, y, c, p>>} ELSE x.terms
  /\ ~x.twice /\ <<f, y, c, p>> \notin x.terms => ~z.twice
  /\ ~x.twice /\ (~HasOf(j, f) \/ c = Pad) => ~z.twice

(* A term is added to a sum by one multiplication of y, if it counts. *)
LEMMA OneTerm ==
  ASSUME job \in Jobs, NEW x \in RegType, NEW f \in {"Q", "V"}, NEW y \in Int, NEW c \in Int,
         NEW p \in Int, Counts(job, x), NEW z, z = Add(x, f, y, c, p)
  PROVE  Added(job, z, x, f, y, c, p)
<1> DEFINE t == <<f, y, c, p>>
           w == [x EXCEPT !.terms = x.terms \cup {t}, !.twice = x.twice \/ t \in x.terms]
<1>1. t \in Term
  BY DEF Term
<1>2. x.weight = (job.dir = "analys")
  BY JobFacts DEF Counts, SynthOf
<1>3. z = IF HasOf(job, f) /\ c # Pad THEN w ELSE x
  BY <1>2 DEF Add, Has, HasOf, Counts
<1> HIDE DEF t
<1>4. /\ w \in RegType /\ Kept(w, x) /\ SameY(w, x)
      /\ w.terms = x.terms \cup {t}
      /\ ~x.twice /\ t \notin x.terms => ~w.twice
  BY <1>1 DEF RegType, Kept, SameY
<1> HIDE DEF w
<1> QED BY <1>3, <1>4 DEF t, Kept, SameY, Added
-----------------------------------------------------------------------------
(* The degrees of a sum: those from n on below t.                          *)

Terms(j, n, t) ==
  {<<"Q", l, l, (l - n) % 2>> : l \in {l \in n..j.llim : l < t /\ HasOf(j, "Q")}}
  \cup {<<"V", l, l, (l - n) % 2>> : l \in {l \in n..(j.llim + 1) : l < t /\ HasOf(j, "V")}}

(* Which terms the sum from degree n to below t has. *)
LEMMA InTerms ==
  ASSUME job \in Jobs, NEW n \in Int, NEW t \in Int, NEW u
  PROVE  u \in Terms(job, n, t) <=>
           \E f \in {"Q", "V"}, l \in Int :
             /\ n <= l /\ l < t /\ HasOf(job, f)
             /\ l <= IF f = "Q" THEN job.llim ELSE job.llim + 1
             /\ u = <<f, l, l, (l - n) % 2>>
<1>1. job.llim \in Int
  BY JobFacts, SizesAssumption
<1> QED BY <1>1 DEF Terms

(* The next degree's terms are new to the sum. *)
LEMMA TermsNext ==
  ASSUME job \in Jobs, NEW n \in Int, NEW t \in Int, n <= t
  PROVE  /\ Terms(job, n, n) = {}
         /\ \A f, p : <<f, t, t, p>> \notin Terms(job, n, t)
         /\ Terms(job, n, t + 1) =
              Terms(job, n, t)
              \cup (IF HasOf(job, "Q") /\ t <= job.llim THEN {<<"Q", t, t, (t - n) % 2>>} ELSE {})
              \cup (IF HasOf(job, "V") /\ t <= job.llim + 1 THEN {<<"V", t, t, (t - n) % 2>>} ELSE {})
<1>1. job.llim \in Int
  BY JobFacts, SizesAssumption
<1>2. Terms(job, n, n) = {}
  BY InTerms
<1>3. \A f, p : <<f, t, t, p>> \notin Terms(job, n, t)
  BY InTerms
<1> DEFINE A == IF HasOf(job, "Q") /\ t <= job.llim THEN {<<"Q", t, t, (t - n) % 2>>} ELSE {}
           B == IF HasOf(job, "V") /\ t <= job.llim + 1 THEN {<<"V", t, t, (t - n) % 2>>} ELSE {}
<1>4. ASSUME NEW u, u \in Terms(job, n, t + 1)
      PROVE  u \in Terms(job, n, t) \cup A \cup B
  <2>1. PICK f \in {"Q", "V"}, l \in Int :
             /\ n <= l /\ l < t + 1 /\ HasOf(job, f)
             /\ l <= IF f = "Q" THEN job.llim ELSE job.llim + 1
             /\ u = <<f, l, l, (l - n) % 2>>
    BY <1>4, InTerms
  <2>2. CASE l < t
    BY <2>1, <2>2, InTerms
  <2>3. CASE l = t /\ f = "Q"
    BY <2>1, <2>3
  <2>4. CASE l = t /\ f = "V"
    BY <2>1, <2>4
  <2> QED BY <2>1, <2>2, <2>3, <2>4
<1>5. Terms(job, n, t) \subseteq Terms(job, n, t + 1)
  BY InTerms
<1>6. A \subseteq Terms(job, n, t + 1)
  BY InTerms
<1>7. B \subseteq Terms(job, n, t + 1)
  BY <1>1, InTerms
<1> HIDE DEF A, B
<1>8. Terms(job, n, t + 1) = Terms(job, n, t) \cup A \cup B
  BY <1>4, <1>5, <1>6, <1>7
<1> QED BY <1>2, <1>3, <1>8 DEF A, B

(* What the two arrays of a job give for degree t. *)
Meets(j, t, q, v) ==
  /\ q \in Int /\ v \in Int
  /\ HasOf(j, "Q") => q = IF t <= j.llim THEN t ELSE Pad
  /\ HasOf(j, "V") => v = t /\ t <= j.llim + 1

(* Both terms of a degree. *)
LEMMA BothTerms ==
  ASSUME job \in Jobs, NEW x \in RegType, Counts(job, x),
         NEW n \in Nat, NEW t \in Nat, n <= t, x.terms = Terms(job, n, t), ~x.twice,
         NEW q, NEW v, Meets(job, t, q, v), NEW p \in Int, p = (t - n) % 2
  PROVE  LET z == Add(Add(x, "Q", t, q, p), "V", t, v, p)
         IN  /\ z \in RegType /\ Kept(z, x) /\ SameY(z, x)
             /\ z.terms = Terms(job, n, t + 1) /\ ~z.twice
<1> DEFINE A == IF HasOf(job, "Q") /\ t <= job.llim THEN {<<"Q", t, t, p>>} ELSE {}
           B == IF HasOf(job, "V") /\ t <= job.llim + 1 THEN {<<"V", t, t, p>>} ELSE {}
           y == Add(x, "Q", t, q, p)
           z == Add(y, "V", t, v, p)
<1>1. q \in Int /\ v \in Int /\ job.llim \in Int
  BY JobFacts, SizesAssumption DEF Meets
<1>2. /\ Terms(job, n, t + 1) = Terms(job, n, t) \cup A \cup B
      /\ <<"Q", t, t, p>> \notin Terms(job, n, t)
      /\ <<"V", t, t, p>> \notin Terms(job, n, t)
  BY TermsNext
<1>3. t # Pad
  BY DEF Pad
<1> HIDE DEF y
<1>4. /\ y \in RegType /\ Kept(y, x) /\ SameY(y, x)
      /\ y.terms = IF HasOf(job, "Q") /\ q # Pad THEN x.terms \cup {<<"Q", t, q, p>>} ELSE x.terms
      /\ <<"Q", t, q, p>> \notin x.terms \/ ~HasOf(job, "Q") \/ q = Pad => ~y.twice
  BY <1>1, OneTerm DEF y, Added
<1>5. Counts(job, y) /\ y \in RegType
  BY <1>4 DEF Counts, Kept
<1> HIDE DEF z
<1>6. /\ z \in RegType /\ Kept(z, y) /\ SameY(z, y)
      /\ z.terms = IF HasOf(job, "V") /\ v # Pad THEN y.terms \cup {<<"V", t, v, p>>} ELSE y.terms
      /\ ~y.twice /\ (<<"V", t, v, p>> \notin y.terms \/ ~HasOf(job, "V") \/ v = Pad) => ~z.twice
  BY <1>1, <1>5, OneTerm DEF z, Added
<1>7. y.terms = Terms(job, n, t) \cup A /\ ~y.twice
  BY <1>1, <1>2, <1>3, <1>4 DEF Meets
<1>8. <<"V", t, t, p>> \notin A
  OBVIOUS
<1> HIDE DEF A
<1>9. z.terms = Terms(job, n, t) \cup A \cup B /\ ~z.twice
  BY <1>1, <1>2, <1>3, <1>6, <1>7, <1>8 DEF Meets
<1>10. Kept(z, x) /\ SameY(z, x)
  BY <1>4, <1>6 DEF Kept, SameY
<1> QED BY <1>2, <1>6, <1>9, <1>10 DEF z, y
-----------------------------------------------------------------------------
(* The recurrence.                                                         *)

(* Degree d, which exists up to LMAX + 1. *)
Y(d) == IF d <= LMAX + 1 THEN d ELSE Wrong

(* The least degree of an order. *)
LEMMA OrderFacts ==
  ASSUME im \in 0..MMAX
  PROVE  m \in 0..LMAX /\ LMAX \in Nat \ {0} /\ (im = 0 => m = 0) /\ (im > 0 => m > 0)
<1>1. m \in 0..LMAX
  BY Products DEF m
<1>2. im > 0 => m > 0
  <2> SUFFICES ASSUME im > 0 PROVE m > 0
    OBVIOUS
  <2>1. im - 1 \in 0..MMAX /\ im \in Nat
    BY Products
  <2>2. (im - 1) * MRES \in Nat /\ im * MRES = (im - 1) * MRES + MRES
    BY <2>1, Products
  <2> QED BY <2>2, Products DEF m
<1> QED BY <1>1, <1>2, Products DEF m

(* The pair of al at the right offset gives the next degree. *)
LEMMA NextY ==
  ASSUME im \in 0..MMAX, alm = AlmRow(im), NEW d \in Nat, NEW o, o = alm + 2 * (d + 1 - m)
  PROVE  Rec(Y(d + 1), Y(d), o) = Y(d + 2) /\ Y(d) \in Int
<1>1. AlmRow(im) \in Int
  BY Rows
<1>2. m \in Nat /\ LMAX \in Nat
  BY OrderFacts
<1>3. AlmPair(im, d + 2) = o
  BY <1>1, <1>2 DEF AlmPair, m
<1> QED BY <1>2, <1>3 DEF Rec, Y, Wrong

ClimbOK(k, a, x) ==
  /\ x.l >= k /\ (x.l - k) % 2 = 0
  /\ x.al = a + 2 * (x.l + 1 - k)
  /\ x.y0 = Y(x.l) /\ x.y1 = Y(x.l + 1)

(* Two steps of the recurrence raise both degrees by two. *)
LEMMA ClimbStep ==
  ASSUME im \in 0..MMAX, alm = AlmRow(im), NEW x \in RegType, ClimbOK(m, alm, x), NEW z,
         z.l = x.l + 2, z.al = x.al + 4, z.y0 = Rec(x.y1, x.y0, x.al),
         z.y1 = Rec(z.y0, x.y1, x.al + 2)
  PROVE  ClimbOK(m, alm, z) /\ z.y0 \in Int /\ z.y1 \in Int /\ z.l \in Nat /\ z.al \in Nat
<1>1. x.l \in Nat /\ x.al \in Nat
  BY DEF RegType
<1>2. m \in Nat
  BY OrderFacts
<1>3. alm \in Int
  BY Rows
<1>4. z.y0 = Y(x.l + 2)
  BY <1>1, NextY DEF ClimbOK
<1>5. z.y1 = Y((x.l + 1) + 2)
  <2>1. x.al + 2 = alm + 2 * ((x.l + 1) + 1 - m)
    BY <1>1, <1>2, <1>3 DEF ClimbOK
  <2>2. x.l + 1 \in Nat /\ (x.l + 1) + 1 = x.l + 2
    BY <1>1
  <2> QED BY <1>4, <2>1, <2>2, NextY DEF ClimbOK
<1>6. \A d \in Int : Y(d) \in Int
  BY SizesAssumption DEF Y, Wrong
<1>7. z.y0 = Y(z.l) /\ z.y1 = Y(z.l + 1) /\ z.y0 \in Int /\ z.y1 \in Int
  <2>1. (x.l + 1) + 2 = z.l + 1 /\ z.l \in Int /\ z.l + 1 \in Int
    BY <1>1
  <2> QED BY <1>4, <1>5, <1>6, <2>1
<1>8. /\ z.l >= m /\ (z.l - m) % 2 = 0 /\ z.l \in Nat /\ z.al \in Nat
      /\ z.al = alm + 2 * (z.l + 1 - m)
  <2>1. x.l >= m /\ (x.l - m) % 2 = 0 /\ x.al = alm + 2 * (x.l + 1 - m)
    BY DEF ClimbOK
  <2> QED BY <1>1, <1>2, <1>3, <2>1
<1> QED BY <1>7, <1>8 DEF ClimbOK

-----------------------------------------------------------------------------
(* What holds before each step of a sum, for an order above 0.             *)

LimitOf(j) == IF SynthOf(j) /\ j.kern = "mic" /\ HasOf(j, "V") THEN j.llim + 1 ELSE j.llim
WidthOf(j) == IF j.kern = "mic" THEN 1 ELSE 2
SineOf(j) == IF HasOf(j, "V") /\ (SynthOf(j) => ~j.magic) THEN -1 ELSE 0

FactorsOK(j, x) ==
  /\ x.half = (IF SynthOf(j) \/ j.one THEN 2 ELSE 1)
  /\ x.nphi <=> j.one /\ ~SynthOf(j)
  /\ x.sinQ = IF ~SynthOf(j) /\ j.f = "3" THEN SineOf(j) + 1 ELSE SineOf(j)
  /\ x.sinV = IF ~SynthOf(j) /\ j.magic THEN SineOf(j) - 1 ELSE SineOf(j)

SumOK(j, k, a, x) ==
  /\ x \in RegType
  /\ ClimbOK(k, a, x)
  /\ x.l <= LimitOf(j) + 1
  /\ x.first >= k /\ x.first <= x.l /\ x.first <= j.llim + 1 /\ (x.l - x.first) % 2 = 0
  /\ Counts(j, x)
  /\ ~SynthOf(j) => x.q = WidthOf(j) * (x.l - k) /\ x.v = 2 * WidthOf(j) * (x.l - k)
  /\ x.terms = Terms(j, x.first, x.l) /\ ~x.twice
  /\ FactorsOK(j, x)

(* Where the loop over the degrees ends, and how far apart accumulators are. *)
LEMMA LimitFacts ==
  ASSUME job \in Jobs
  PROVE  LimitOf(job) \in job.llim..(job.llim + 1) /\ WidthOf(job) \in {1, 2} /\ job.llim \in 0..LMAX
BY JobFacts, SizesAssumption DEF LimitOf, WidthOf

(* One degree: its terms, and the recurrence. *)
LEMMA EvenStep ==
  ASSUME job \in Jobs, NEW x \in RegType, Counts(job, x), NEW n \in Nat, NEW t \in Nat, n <= t,
         x.terms = Terms(job, n, t), ~x.twice, (t - n) % 2 = 0, x.y0 = t,
         NEW q, NEW v, Meets(job, t, q, v), NEW a \in Int, NEW z, z = AnaEven(x, q, v, a),
         Rec(x.y1, x.y0, x.al + a) \in Int
  PROVE  /\ z \in RegType /\ Kept(z, x) /\ z.y0 = Rec(x.y1, x.y0, x.al + a)
         /\ z.y1 = x.y1 /\ z.d0 = x.d0 /\ z.d1 = x.d1
         /\ z.terms = Terms(job, n, t + 1) /\ ~z.twice
<1> DEFINE y == Add(Add(x, "Q", t, q, 0), "V", t, v, 0)
<1>1. /\ y \in RegType /\ Kept(y, x) /\ SameY(y, x)
      /\ y.terms = Terms(job, n, t + 1) /\ ~y.twice
  BY BothTerms
<1> DEFINE w == Rec(x.y1, x.y0, x.al + a)
<1>4. z = [y EXCEPT !.y0 = w] /\ w \in Int
  BY DEF AnaEven
<1> HIDE DEF w, y
<1>5. /\ z \in RegType /\ Kept(z, y) /\ z.y0 = w
      /\ z.y1 = y.y1 /\ z.d0 = y.d0 /\ z.d1 = y.d1 /\ z.terms = y.terms /\ z.twice = y.twice
  BY <1>1, <1>4 DEF RegType, Kept
<1> QED BY <1>1, <1>5 DEF Kept, SameY, w

(* The same for the odd degree of a pair. *)
LEMMA OddStep ==
  ASSUME job \in Jobs, NEW x \in RegType, Counts(job, x), NEW n \in Nat, NEW t \in Nat, n <= t,
         x.terms = Terms(job, n, t), ~x.twice, (t - n) % 2 = 1, x.y1 = t,
         NEW q, NEW v, Meets(job, t, q, v), NEW a \in Int, NEW z, z = AnaOdd(x, q, v, a),
         Rec(x.y0, x.y1, x.al + a) \in Int
  PROVE  /\ z \in RegType /\ Kept(z, x) /\ z.y1 = Rec(x.y0, x.y1, x.al + a)
         /\ z.y0 = x.y0 /\ z.d0 = x.d0 /\ z.d1 = x.d1
         /\ z.terms = Terms(job, n, t + 1) /\ ~z.twice
<1> DEFINE y == Add(Add(x, "Q", t, q, 1), "V", t, v, 1)
<1>1. /\ y \in RegType /\ Kept(y, x) /\ SameY(y, x)
      /\ y.terms = Terms(job, n, t + 1) /\ ~y.twice
  BY BothTerms
<1> DEFINE w == Rec(x.y0, x.y1, x.al + a)
<1>4. z = [y EXCEPT !.y1 = w] /\ w \in Int
  BY DEF AnaOdd
<1> HIDE DEF w, y
<1>5. /\ z \in RegType /\ Kept(z, y) /\ z.y1 = w
      /\ z.y0 = y.y0 /\ z.d0 = y.d0 /\ z.d1 = y.d1 /\ z.terms = y.terms /\ z.twice = y.twice
  BY <1>1, <1>4 DEF RegType, Kept
<1> QED BY <1>1, <1>5 DEF Kept, SameY, w

(* Two degrees: each meets its own, and the pointers follow. *)
LEMMA PairStep ==
  ASSUME job \in Jobs, im \in 0..MMAX, alm = AlmRow(im), NEW x, SumOK(job, m, alm, x),
         x.l < LimitOf(job), NEW q0, NEW v0, Meets(job, x.l, q0, v0),
         NEW q1, NEW v1, Meets(job, x.l + 1, q1, v1), NEW dq \in Nat, NEW dv \in Nat,
         ~SynthOf(job) => dq = 2 * WidthOf(job) /\ dv = 4 * WidthOf(job),
         NEW z, z = Advance(AnaOdd(AnaEven(x, q0, v0, 0), q1, v1, 2), 2, 4, dq, dv)
  PROVE  SumOK(job, m, alm, z)
<1> DEFINE y == AnaEven(x, q0, v0, 0)
           w == AnaOdd(y, q1, v1, 2)
           n == x.first
           t == x.l
<1>1. /\ x \in RegType /\ Counts(job, x) /\ x.terms = Terms(job, n, t) /\ ~x.twice
      /\ ClimbOK(m, alm, x) /\ FactorsOK(job, x) /\ n <= t /\ (t - n) % 2 = 0
      /\ n >= m /\ n <= job.llim + 1
      /\ ~SynthOf(job) => x.q = WidthOf(job) * (x.l - m) /\ x.v = 2 * WidthOf(job) * (x.l - m)
  BY DEF SumOK
<1>2. n \in Nat /\ t \in Nat /\ x.al \in Nat /\ x.q \in Nat /\ x.v \in Nat /\ x.first \in 0..(LMAX + 1)
  BY <1>1, SizesAssumption DEF RegType
<1>3. LimitOf(job) \in job.llim..(job.llim + 1) /\ WidthOf(job) \in {1, 2} /\ job.llim \in 0..LMAX
  BY LimitFacts
<1>4. LMAX \in Nat /\ m \in 0..LMAX
  BY OrderFacts
<1>5. x.y0 = t /\ x.y1 = t + 1
  BY <1>1, <1>2, <1>3, <1>4 DEF ClimbOK, Y
<1> DEFINE u0 == Rec(x.y1, x.y0, x.al)
           u1 == Rec(u0, x.y1, x.al + 2)
           g == [l |-> x.l + 2, al |-> x.al + 4, y0 |-> u0, y1 |-> u1]
<1>6. ClimbOK(m, alm, g) /\ u0 \in Int /\ u1 \in Int /\ g.l \in Nat /\ g.al \in Nat
  <2> HIDE DEF u1, u0
  <2>1. g.l = x.l + 2 /\ g.al = x.al + 4 /\ g.y0 = u0 /\ g.y1 = u1
    OBVIOUS
  <2>2. g.y0 = Rec(x.y1, x.y0, x.al) /\ g.y1 = Rec(g.y0, x.y1, x.al + 2)
    BY <2>1 DEF u0, u1
  <2> HIDE DEF g
  <2> QED BY <1>1, <2>1, <2>2, ClimbStep
<1>7. x.al + 0 = x.al
  BY <1>2
<1> HIDE DEF y, w, u0, u1, n, t
<1>8. /\ y \in RegType /\ Kept(y, x) /\ y.y0 = u0 /\ y.y1 = x.y1
      /\ y.terms = Terms(job, n, t + 1) /\ ~y.twice
  <2>1. Rec(x.y1, x.y0, x.al + 0) = u0 /\ Meets(job, t, q0, v0) /\ y = AnaEven(x, q0, v0, 0)
    BY <1>7 DEF u0, y, t
  <2> QED BY <1>1, <1>2, <1>5, <1>6, <2>1, EvenStep
<1>9. y.al = x.al /\ Counts(job, y) /\ t + 1 \in Nat /\ n <= t + 1 /\ ((t + 1) - n) % 2 = 1
  BY <1>1, <1>2, <1>8 DEF Kept, Counts
<1>10. /\ w \in RegType /\ Kept(w, y) /\ w.y1 = u1 /\ w.y0 = u0
       /\ w.terms = Terms(job, n, (t + 1) + 1) /\ ~w.twice
  <2>1. Rec(y.y0, y.y1, y.al + 2) = u1 /\ Meets(job, t + 1, q1, v1) /\ w = AnaOdd(y, q1, v1, 2)
    BY <1>8, <1>9 DEF u1, w, t
  <2>2. y.y1 = t + 1
    BY <1>5, <1>8
  <2> QED BY <1>2, <1>6, <1>8, <1>9, <2>1, <2>2, OddStep
<1>11. w.l = t /\ w.al = x.al /\ w.q = x.q /\ w.v = x.v /\ w.first = n
       /\ Counts(job, w) /\ FactorsOK(job, w)
  BY <1>1, <1>8, <1>10 DEF Kept, Counts, FactorsOK, n, t
<1>12. z = [w EXCEPT !.l = t + 2, !.al = x.al + 4, !.q = x.q + dq, !.v = x.v + dv]
  BY <1>11 DEF Advance, w, y
<1>13. t + 2 \in 0..(LMAX + 2) /\ x.al + 4 \in Nat /\ x.q + dq \in Nat /\ x.v + dv \in Nat
       /\ t + 2 <= LimitOf(job) + 1 /\ (t + 1) + 1 = t + 2 /\ ((t + 2) - n) % 2 = 0
  BY <1>1, <1>2, <1>3, <1>4 DEF t
<1>14. /\ z \in RegType /\ z.l = t + 2 /\ z.al = x.al + 4 /\ z.y0 = u0 /\ z.y1 = u1
       /\ z.q = x.q + dq /\ z.v = x.v + dv /\ z.first = n /\ z.terms = w.terms
       /\ z.twice = w.twice
  BY <1>10, <1>11, <1>12, <1>13 DEF RegType
<1>15. Counts(job, z) /\ FactorsOK(job, z)
  BY <1>10, <1>11, <1>12 DEF RegType, Counts, FactorsOK
<1>16. ClimbOK(m, alm, z)
  BY <1>6, <1>14 DEF ClimbOK, t
<1>17. ~SynthOf(job) => z.q = WidthOf(job) * (z.l - m) /\ z.v = 2 * WidthOf(job) * (z.l - m)
  <2> SUFFICES ASSUME ~SynthOf(job)
               PROVE  z.q = WidthOf(job) * (z.l - m) /\ z.v = 2 * WidthOf(job) * (z.l - m)
    OBVIOUS
  <2>1. /\ x.q = WidthOf(job) * (t - m) /\ x.v = 2 * WidthOf(job) * (t - m)
        /\ dq = 2 * WidthOf(job) /\ dv = 4 * WidthOf(job)
    BY <1>1 DEF t
  <2>2. CASE WidthOf(job) = 1
    BY <1>2, <1>4, <1>14, <2>1, <2>2
  <2>3. CASE WidthOf(job) = 2
    BY <1>2, <1>4, <1>14, <2>1, <2>3
  <2> QED BY <1>3, <2>2, <2>3
<1>18. z.terms = Terms(job, z.first, z.l) /\ ~z.twice
  BY <1>10, <1>13, <1>14
<1>19. /\ z.l <= LimitOf(job) + 1
       /\ z.first >= m /\ z.first <= z.l /\ z.first <= job.llim + 1 /\ (z.l - z.first) % 2 = 0
  BY <1>1, <1>2, <1>13, <1>14
<1> HIDE DEF y
<1> QED BY <1>14, <1>15, <1>16, <1>17, <1>18, <1>19 DEF SumOK

-----------------------------------------------------------------------------
(* The arrays of a job: each kernel finds there what a degree has to meet. *)

MixOf(i, l, top) ==
  (IF l <= top THEN {<<l, Wrong>>} ELSE {})
  \cup (IF l + 1 <= top THEN {<<l + 1, 2 * Pos(i, l)>>} ELSE {})
  \cup (IF l - 1 >= i * MRES THEN {<<l - 1, 2 * Pos(i, l - 1) + 1>>} ELSE {})

(* The offset c of the coefficients, the converted vectors v and the accumulators s. *)
PlaceOK(j, i, c, v, s) ==
  /\ c = IF j.one THEN -(i * MRES) ELSE LiM(0, i)
  /\ SynthOf(j) /\ HasOf(j, "V") /\ i > 0 =>
       v = [l \in (i * MRES)..(j.llim + 1) |-> MixOf(i, l, j.llim)]
  /\ ~SynthOf(j) => s = IF i = 0 THEN 0..(j.llim - 1)
                        ELSE IF j.one THEN 0..(j.llim - i * MRES)
                        ELSE 0..(j.llim + 1 - i * MRES)

(* A synthesis finds for each degree the coefficient of that degree, in place or in mic's copy. *)
LEMMA SynthMeets ==
  ASSUME job \in Jobs, im \in 0..MMAX, im > 0, SynthOf(job), PlaceOK(job, im, co, vw, cleared),
         NEW t \in Nat, t >= m, HasOf(job, "V") => t <= job.llim + 1
  PROVE  /\ t <= job.llim => Meets(job, t, QlmAt(t), VWlAt(t))
         /\ (HasOf(job, "V") \/ t <= job.llim) => Meets(job, t, MicQl(t), VWlAt(t))
         /\ QlmAt(t) = t
<1>1. LMAX \in Nat /\ m \in 0..LMAX /\ im \in Nat /\ MRES \in Nat
  BY OrderFacts, Products
<1>2. job.llim \in 0..LMAX /\ job.f \in {"Q", "V", "3"} /\ job.one \in BOOLEAN
  BY JobFacts
<1>3. QlmAt(t) = t
  <2>1. CASE job.one
    BY <1>1, <2>1 DEF QlmAt, PlaceOK, m
  <2>2. CASE ~job.one
    <3>1. co = LiM(0, im)
      BY <2>2 DEF PlaceOK
    <3>2. LiM(0, im) \in Int /\ LiM(t, im) = LiM(0, im) + t
      BY <1>1, Places, Rows DEF Pos
    <3> QED BY <2>2, <3>1, <3>2 DEF QlmAt
  <2> QED BY <2>1, <2>2
<1>4. HasOf(job, "V") => VWlAt(t) = t
  BY <1>1, <1>2 DEF PlaceOK, VWlAt, m
<1>5. VWlAt(t) \in Int
  BY DEF VWlAt, Wrong
<1>6. t <= job.llim => MicQl(t) = t
  BY <1>1, <1>2, <1>3 DEF MicQl
<1>7. t = job.llim + 1 => MicQl(t) = IF job.f = "3" THEN Pad ELSE Wrong
  BY <1>1, <1>2 DEF MicQl
<1>8. MicQl(t) \in Int
  BY <1>1, <1>3 DEF MicQl, Pad, Wrong
<1>9. t <= job.llim => Meets(job, t, QlmAt(t), VWlAt(t))
  BY <1>2, <1>3, <1>4, <1>5 DEF Meets
<1>10. ASSUME HasOf(job, "V") \/ t <= job.llim PROVE Meets(job, t, MicQl(t), VWlAt(t))
  <2>1. CASE t <= job.llim
    BY <1>2, <1>4, <1>5, <1>6, <1>8, <2>1 DEF Meets
  <2>2. CASE t = job.llim + 1
    BY <1>2, <1>4, <1>5, <1>7, <1>8, <1>10, <2>2 DEF Meets, HasOf
  <2> QED BY <1>2, <1>10, <2>1, <2>2
<1> QED BY <1>3, <1>9, <1>10

(* An analysis finds for each degree the accumulator of that degree. *)
LEMMA AnaMeets ==
  ASSUME Callable, job \in Jobs, im \in 0..MMAX, im > 0, ~SynthOf(job), job.one => im = job.im,
         PlaceOK(job, im, co, vw, cleared),
         NEW t \in Nat, t >= m, t <= job.llim + 1, NEW w \in {1, 2},
         NEW q, q = w * (t - m), NEW v, v = 2 * w * (t - m)
  PROVE  /\ t <= job.llim => Meets(job, t, Slot(q, w), Slot(v, 2 * w))
         /\ t <= job.llim => Slot(q, w) = t
         /\ HasOf(job, "V") => Slot(v, 2 * w) = t
<1>1. LMAX \in Nat /\ m \in 0..LMAX
  BY OrderFacts
<1>2. job.llim \in 0..LMAX /\ job.dir = "analys" /\ job.f \in {"Q", "V", "3"}
  BY JobFacts DEF SynthOf
<1>3. HasOf(job, "V") => ~job.one
  BY <1>2 DEF Callable, HasOf
<1> DEFINE d == t - m
<1>4. d \in Nat /\ t = m + d
  BY <1>1
<1> HIDE DEF d
<1>5. q % w = 0 /\ q \div w = d /\ v % (2 * w) = 0 /\ v \div (2 * w) = d
  <2>1. q = w * d /\ v = 2 * w * d
    BY <1>1, <1>4
  <2>2. CASE w = 1
    BY <1>4, <2>1, <2>2
  <2>3. CASE w = 2
    BY <1>4, <2>1, <2>3
  <2> QED BY <2>2, <2>3
<1>6. cleared = IF job.one THEN 0..(job.llim - m) ELSE 0..(job.llim + 1 - m)
  BY DEF PlaceOK, m
<1>7. t <= job.llim => d \in cleared
  BY <1>1, <1>2, <1>4, <1>6
<1>8. HasOf(job, "V") => d \in cleared
  BY <1>1, <1>2, <1>3, <1>4, <1>6
<1>9. t <= job.llim => Slot(q, w) = t
  BY <1>4, <1>5, <1>7 DEF Slot
<1>10. HasOf(job, "V") => Slot(v, 2 * w) = t
  BY <1>4, <1>5, <1>8 DEF Slot
<1>11. Slot(v, 2 * w) \in Int /\ Slot(q, w) \in Int
  BY <1>1, <1>4, <1>5 DEF Slot, Wrong
<1> QED BY <1>1, <1>2, <1>9, <1>10, <1>11 DEF Meets

-----------------------------------------------------------------------------
(* The loop of a sum.                                                      *)

(* A turn of the loop adds the terms of two degrees, in every kernel. *)
LEMMA PairKeeps ==
  ASSUME Callable, job \in Jobs, im \in 0..MMAX, im > 0, job.one => im = job.im,
         alm = AlmRow(im), PlaceOK(job, im, co, vw, cleared),
         NEW x, SumOK(job, m, alm, x), x.l < LimitOf(job)
  PROVE  SumOK(job, m, alm, Pair(x))
<1>1. LMAX \in Nat /\ m \in 0..LMAX
  BY OrderFacts
<1>2. job.llim \in 0..LMAX /\ WidthOf(job) \in {1, 2}
  BY LimitFacts
<1>3. x.l \in Nat /\ x.l + 1 \in Nat /\ x.l >= m
  BY <1>1 DEF SumOK, RegType, ClimbOK
<1>4. LimitOf(job) \in job.llim..(job.llim + 1)
  BY LimitFacts
<1>5. CASE SynthOf(job)
  <2>1. CASE job.kern = "mic"
    <3>1. /\ Meets(job, x.l, MicQl(x.l), VWlAt(x.l))
          /\ Meets(job, x.l + 1, MicQl(x.l + 1), VWlAt(x.l + 1))
      BY <1>2, <1>3, <1>5, <2>1, SynthMeets, <1>1 DEF LimitOf
    <3> DEFINE z == Advance(AnaOdd(AnaEven(x, MicQl(x.l), VWlAt(x.l), 0),
                                   MicQl(x.l + 1), VWlAt(x.l + 1), 2), 2, 4, 0, 0)
    <3>2. SumOK(job, m, alm, z)
      BY <1>5, <3>1, PairStep
    <3>3. Pair(x) = z
      <4>1. SynEven(x, MicQl, 0, 0) = AnaEven(x, MicQl(x.l), VWlAt(x.l), 0)
        BY <1>3 DEF SynEven, AnaEven
      <4>2. AnaEven(x, MicQl(x.l), VWlAt(x.l), 0).l = x.l
        BY DEF AnaEven, Add, SumOK, RegType
      <4>3. MicSynPair(x) = z
        BY <4>1, <4>2 DEF MicSynPair, SynOdd, AnaOdd
      <4> QED BY <1>5, <2>1, <4>3, JobFacts DEF Pair, Synth, SynthOf, Which
    <3> QED BY <3>2, <3>3
  <2>2. CASE job.kern # "mic"
    <3>0. x.l + 1 <= job.llim
      BY <1>2, <1>3, <2>2 DEF LimitOf
    <3>1. /\ Meets(job, x.l, QlmAt(x.l), VWlAt(x.l))
          /\ Meets(job, x.l + 1, QlmAt(x.l + 1), VWlAt(x.l + 1))
      BY <1>1, <1>2, <1>3, <1>5, <3>0, SynthMeets
    <3> DEFINE z == Advance(AnaOdd(AnaEven(x, QlmAt(x.l), VWlAt(x.l), 0),
                                   QlmAt(x.l + 1), VWlAt(x.l + 1), 2), 2, 4, 0, 0)
    <3>2. SumOK(job, m, alm, z)
      BY <1>5, <3>1, PairStep
    <3>3. Pair(x) = z
      <4>1. SynEven(x, QlmAt, 0, 0) = AnaEven(x, QlmAt(x.l), VWlAt(x.l), 0)
        BY <1>3 DEF SynEven, AnaEven
      <4>2. AnaEven(x, QlmAt(x.l), VWlAt(x.l), 0).l = x.l
        BY DEF AnaEven, Add, SumOK, RegType
      <4>3. FlySynPair(x) = z
        BY <4>1, <4>2 DEF FlySynPair, SynOdd, AnaOdd
      <4> QED BY <1>5, <2>2, <4>3, JobFacts
              DEF Pair, Synth, SynthOf, Which, FlyOneSynPair, OmpSynPair
    <3> QED BY <3>2, <3>3
  <2> QED BY <2>1, <2>2
<1>6. CASE ~SynthOf(job)
  <2> DEFINE w == WidthOf(job)
             z == Advance(AnaOdd(AnaEven(x, Slot(x.q, w), Slot(x.v, 2 * w), 0),
                                 Slot(x.q + w, w), Slot(x.v + 2 * w, 2 * w), 2), 2, 4, 2 * w, 4 * w)
  <2>1. x.l + 1 <= job.llim
    BY <1>2, <1>3, <1>6 DEF LimitOf
  <2>2. /\ x.q = w * (x.l - m) /\ x.v = 2 * w * (x.l - m)
        /\ x.q + w = w * ((x.l + 1) - m) /\ x.v + 2 * w = 2 * w * ((x.l + 1) - m)
    <3>1. x.q = w * (x.l - m) /\ x.v = 2 * w * (x.l - m)
      BY <1>6 DEF SumOK
    <3> HIDE DEF w
    <3>2. CASE w = 1
      BY <1>1, <1>3, <3>1, <3>2
    <3>3. CASE w = 2
      BY <1>1, <1>3, <3>1, <3>3
    <3> QED BY <1>2, <3>2, <3>3 DEF w
  <2> HIDE DEF w
  <2>3. w \in {1, 2}
    BY <1>2 DEF w
  <2>4. Meets(job, x.l, Slot(x.q, w), Slot(x.v, 2 * w))
    BY <1>1, <1>2, <1>3, <1>6, <2>1, <2>2, <2>3, AnaMeets
  <2>5. Meets(job, x.l + 1, Slot(x.q + w, w), Slot(x.v + 2 * w, 2 * w))
    <3> DEFINE q == x.q + w  v == x.v + 2 * w
    <3>1. q = w * ((x.l + 1) - m) /\ v = 2 * w * ((x.l + 1) - m)
      BY <2>2
    <3> HIDE DEF q, v
    <3>2. Meets(job, x.l + 1, Slot(q, w), Slot(v, 2 * w))
      BY <1>1, <1>2, <1>3, <1>6, <2>1, <2>3, <3>1, AnaMeets
    <3> QED BY <3>2 DEF q, v
  <2>6. SumOK(job, m, alm, z)
    <3>1. 2 * w \in Nat /\ 4 * w \in Nat /\ w = WidthOf(job)
      BY <2>3 DEF w
    <3> HIDE DEF z
    <3> QED BY <1>6, <2>4, <2>5, <3>1, PairStep DEF z
  <2>7. Pair(x) = z
    <3>1. CASE job.kern = "mic"
      <4>1. w = 1 /\ 2 * w = 2 /\ 4 * w = 4
        BY <3>1 DEF WidthOf, w
      <4>2. z = MicAnaPair(x)
        BY <4>1 DEF MicAnaPair
      <4> HIDE DEF z
      <4> QED BY <1>6, <3>1, <4>2, JobFacts DEF Pair, Synth, SynthOf, Which
    <3>2. CASE job.kern # "mic"
      <4>1. w = 2 /\ 2 * w = 4 /\ 4 * w = 8
        BY <3>2 DEF WidthOf, w
      <4>2. z = FlyAnaPair(x)
        BY <4>1 DEF FlyAnaPair
      <4> HIDE DEF z
      <4> QED BY <1>6, <3>2, <4>2, JobFacts
              DEF Pair, Synth, SynthOf, Which, FlyOneAnaPair, OmpAnaPair
    <3> QED BY <3>1, <3>2
  <2> QED BY <2>6, <2>7
<1> QED BY <1>5, <1>6

-----------------------------------------------------------------------------
(* The end of a sum.                                                       *)

SinesOK(j, x) ==
  /\ HasOf(j, "Q") => x.sinQ = 0
  /\ HasOf(j, "V") => x.sinV = IF j.magic THEN (IF SynthOf(j) THEN 0 ELSE -2) ELSE -1

(* A block of an order above 0 which is complete, or left out near the pole. *)
StoredOK(j, x) ==
  /\ x \in RegType /\ ~x.twice
  /\ x.terms = IF x.ny < 0 THEN {} ELSE Terms(j, x.first, j.llim + 2)
  /\ x.ny = 0 => /\ x.half = IF SynthOf(j) \/ j.one THEN 2 ELSE 1
                 /\ x.nphi <=> j.one /\ ~SynthOf(j)
                 /\ SinesOK(j, x)

(* What fly and omp add after the loop, and mic in analysis. *)
LastTerms(x, q, v0, v1) ==
  LET a == Add(x, "V", x.y0, v0, 0)
  IN  IF x.l = job.llim THEN Add(Add(a, "Q", x.y0, q, 0), "V", x.y1, v1, 1) ELSE a

(* What the lines after the loop add completes the sum. *)
LEMMA LastAdded ==
  ASSUME job \in Jobs, im \in 0..MMAX, NEW x, SumOK(job, m, alm, x), x.l \in job.llim..(job.llim + 1),
         NEW q \in Int, NEW v0 \in Int, NEW v1 \in Int,
         HasOf(job, "Q") /\ x.l = job.llim => q = x.l,
         HasOf(job, "V") => v0 = x.l /\ (x.l = job.llim => v1 = x.l + 1),
         NEW z, z = LastTerms(x, q, v0, v1)
  PROVE  /\ z \in RegType /\ Kept(z, x) /\ ~z.twice
         /\ z.terms = Terms(job, x.first, job.llim + 2)
<1> DEFINE n == x.first
           t == x.l
           L == job.llim
<1>1. /\ x \in RegType /\ Counts(job, x) /\ x.terms = Terms(job, n, t) /\ ~x.twice
      /\ n <= t /\ (t - n) % 2 = 0 /\ t - m \in Int
  BY OrderFacts DEF SumOK, RegType
<1>2. LMAX \in Nat /\ L \in 0..LMAX /\ t \in Nat /\ n \in Nat /\ job.f \in {"Q", "V", "3"}
  BY <1>1, JobFacts, SizesAssumption DEF RegType
<1>3. x.y0 = t /\ (t = L => x.y1 = t + 1) /\ x.y1 \in Int /\ x.y0 \in Int
  BY <1>1, <1>2 DEF SumOK, ClimbOK, Y, RegType
<1> DEFINE a == Add(x, "V", x.y0, v0, 0)
           b == Add(a, "Q", x.y0, q, 0)
           c == Add(b, "V", x.y1, v1, 1)
           V(d, p) == IF HasOf(job, "V") THEN {<<"V", d, d, p>>} ELSE {}
           Q(d, p) == IF HasOf(job, "Q") THEN {<<"Q", d, d, p>>} ELSE {}
<1>4. z = IF t = L THEN c ELSE a
  BY DEF LastTerms
<1>5. /\ \A f, p : <<f, t, t, p>> \notin x.terms
      /\ \A f, p : <<f, t + 1, t + 1, p>> \notin x.terms
      /\ Terms(job, n, t + 1) = x.terms \cup (IF t <= L THEN Q(t, 0) ELSE {}) \cup V(t, 0)
      /\ t = L => Terms(job, n, (t + 1) + 1) = Terms(job, n, t + 1) \cup V(t + 1, 1)
  <2>1. \A f, p : <<f, t, t, p>> \notin x.terms
    BY <1>1, <1>2, TermsNext
  <2>2. \A f, p : <<f, t + 1, t + 1, p>> \notin x.terms
    BY <1>1, <1>2, InTerms
  <2>3. Terms(job, n, t + 1) = x.terms \cup (IF t <= L THEN Q(t, 0) ELSE {}) \cup V(t, 0)
    <3>1. Terms(job, n, t + 1) = Terms(job, n, t)
              \cup (IF HasOf(job, "Q") /\ t <= L THEN {<<"Q", t, t, (t - n) % 2>>} ELSE {})
              \cup (IF HasOf(job, "V") /\ t <= L + 1 THEN {<<"V", t, t, (t - n) % 2>>} ELSE {})
      BY <1>1, <1>2, TermsNext
    <3> QED BY <1>1, <1>2, <3>1
  <2>4. ASSUME t = L PROVE Terms(job, n, (t + 1) + 1) = Terms(job, n, t + 1) \cup V(t + 1, 1)
    <3> DEFINE s == t + 1
    <3>1. s \in Int /\ n <= s /\ (s - n) % 2 = 1 /\ s = L + 1 /\ ~(s <= L)
      BY <1>1, <1>2, <2>4
    <3>0. n \in Int
      BY <1>2
    <3> HIDE DEF s, n
    <3>2. Terms(job, n, s + 1) = Terms(job, n, s)
              \cup (IF HasOf(job, "Q") /\ s <= L THEN {<<"Q", s, s, (s - n) % 2>>} ELSE {})
              \cup (IF HasOf(job, "V") /\ s <= L + 1 THEN {<<"V", s, s, (s - n) % 2>>} ELSE {})
      BY <3>0, <3>1, TermsNext
    <3>3. Terms(job, n, s + 1) = Terms(job, n, s) \cup V(s, 1)
      BY <1>2, <3>1, <3>2
    <3> QED BY <3>3 DEF s, n
  <2> QED BY <2>1, <2>2, <2>3, <2>4
<1> HIDE DEF t, n, L, a, b, c
<1>6. /\ a \in RegType /\ Kept(a, x) /\ SameY(a, x) /\ ~a.twice
      /\ a.terms = x.terms \cup V(t, 0)
  <2>0. x.y0 \in Int
    BY <1>3
  <2>1. a = Add(x, "V", x.y0, v0, 0) /\ (HasOf(job, "V") => v0 = t) /\ t # Pad
    BY <1>2 DEF a, t, Pad
  <2>3. a = Add(x, "V", x.y0, v0, 0) /\ x \in RegType /\ Counts(job, x)
    BY <1>1, <2>1
  <2>4. "V" \in {"Q", "V"} /\ 0 \in Int
    OBVIOUS
  <2>2. Added(job, a, x, "V", x.y0, v0, 0)
    BY <2>0, <2>3, <2>4, OneTerm, Zenon
  <2> QED BY <1>1, <1>3, <1>5, <2>1, <2>2 DEF Added
<1>7. ASSUME t = L
      PROVE  /\ b \in RegType /\ Kept(b, x) /\ SameY(b, x) /\ ~b.twice
             /\ b.terms = a.terms \cup Q(t, 0)
  <2>0. x.y0 \in Int
    BY <1>3
  <2>1. b = Add(a, "Q", x.y0, q, 0) /\ (HasOf(job, "Q") => q = t) /\ t # Pad
    BY <1>2, <1>7 DEF b, t, L, Pad
  <2>2. Counts(job, a)
    BY <1>1, <1>6 DEF Counts, Kept
  <2>6. b = Add(a, "Q", x.y0, q, 0) /\ a \in RegType /\ "Q" \in {"Q", "V"} /\ 0 \in Int
    BY <1>6, <2>1
  <2>3. Added(job, b, a, "Q", x.y0, q, 0)
    BY <2>0, <2>2, <2>6, OneTerm, Zenon
  <2>4. <<"Q", t, t, 0>> \notin a.terms
    BY <1>5, <1>6
  <2>5. ~b.twice /\ b.terms = a.terms \cup Q(t, 0)
    BY <1>3, <1>6, <2>1, <2>3, <2>4 DEF Added
  <2> QED BY <1>6, <2>3, <2>5 DEF Kept, SameY, Added
<1>8. ASSUME t = L
      PROVE  /\ c \in RegType /\ Kept(c, x) /\ ~c.twice
             /\ c.terms = b.terms \cup V(t + 1, 1)
  <2>1. c = Add(b, "V", x.y1, v1, 1) /\ (HasOf(job, "V") => v1 = t + 1) /\ t + 1 # Pad
    BY <1>2, <1>8 DEF c, t, L, Pad
  <2>2. Counts(job, b)
    BY <1>1, <1>7, <1>8 DEF Counts, Kept
  <2>3. Added(job, c, b, "V", x.y1, v1, 1)
    BY <1>3, <1>7, <1>8, <2>1, <2>2, OneTerm
  <2>4. <<"V", t + 1, t + 1, 1>> \notin b.terms
    BY <1>2, <1>5, <1>6, <1>7, <1>8
  <2>5. ~c.twice /\ c.terms = b.terms \cup V(t + 1, 1)
    BY <1>3, <1>7, <1>8, <2>1, <2>3, <2>4 DEF Added
  <2> QED BY <1>7, <1>8, <2>3, <2>5 DEF Kept, Added
<1>9. CASE t = L
  <2>1. (t + 1) + 1 = L + 2 /\ t <= L
    BY <1>2, <1>9
  <2>2. Terms(job, n, L + 2) = (x.terms \cup V(t, 0)) \cup Q(t, 0) \cup V(t + 1, 1)
    BY <1>5, <1>9, <2>1
  <2>3. c.terms = Terms(job, n, L + 2)
    BY <1>6, <1>7, <1>8, <1>9, <2>2
  <2> QED BY <1>4, <1>8, <1>9, <2>3 DEF n, L
<1>10. CASE t # L
  <2>1. t + 1 = L + 2 /\ ~(t <= L)
    BY <1>2, <1>10 DEF t, L
  <2>2. a.terms = Terms(job, n, L + 2)
    BY <1>5, <1>6, <2>1
  <2> QED BY <1>4, <1>6, <1>10, <2>2 DEF n, L
<1> QED BY <1>9, <1>10

(* The terms which are due are those the loop adds, up to degree llim+1. *)
LEMMA DueIsTerms ==
  ASSUME job \in Jobs, NEW n \in Int
  PROVE  DueFrom(n) = Terms(job, n, job.llim + 2)
<1>1. job.llim \in Int
  BY JobFacts, SizesAssumption
<1> QED BY <1>1 DEF DueFrom, Terms, Has, HasOf

(* Only the sums of x and the power of the sine of Q may have changed, the latter when s. *)
LEMMA TailStored ==
  ASSUME job \in Jobs, NEW x, SumOK(job, m, alm, x), NEW z, z \in RegType, Kept(z, x), ~z.twice,
         z.terms = Terms(job, x.first, job.llim + 2),
         NEW w, w = IF SynthOf(job) THEN [z EXCEPT !.sinQ = IF job.f = "3" /\ ~job.magic THEN @ + 1 ELSE @]
                    ELSE z
  PROVE  StoredOK(job, w)
<1>1. x.ny = 0 /\ FactorsOK(job, x) /\ x \in RegType
  BY DEF SumOK, Counts
<1>2. job.f \in {"Q", "V", "3"} /\ job.magic \in BOOLEAN /\ job.one \in BOOLEAN
  BY JobFacts
<1>3. /\ w \in RegType /\ ~w.twice /\ w.terms = Terms(job, w.first, job.llim + 2) /\ w.ny = 0
      /\ w.half = z.half /\ w.nphi = z.nphi /\ w.sinV = z.sinV
      /\ w.sinQ = IF SynthOf(job) /\ job.f = "3" /\ ~job.magic THEN z.sinQ + 1 ELSE z.sinQ
  BY <1>1 DEF RegType, Kept
<1>4. SinesOK(job, w)
  BY <1>1, <1>2, <1>3 DEF SinesOK, FactorsOK, SineOf, HasOf, Kept
<1>5. /\ w.half = IF SynthOf(job) \/ job.one THEN 2 ELSE 1
      /\ w.nphi <=> job.one /\ ~SynthOf(job)
  BY <1>1, <1>3 DEF FactorsOK, Kept
<1> QED BY <1>3, <1>4, <1>5 DEF StoredOK

(* The lines after the loop leave a complete sum, in every kernel. *)
LEMMA TailKeeps ==
  ASSUME Callable, job \in Jobs, im \in 0..MMAX, im > 0, job.one => im = job.im,
         alm = AlmRow(im), PlaceOK(job, im, co, vw, cleared),
         NEW x, SumOK(job, m, alm, x), x.l >= LimitOf(job)
  PROVE  StoredOK(job, Ending(x))
<1>1. LMAX \in Nat /\ m \in 0..LMAX
  BY OrderFacts
<1>2. job.llim \in 0..LMAX /\ WidthOf(job) \in {1, 2} /\ job.f \in {"Q", "V", "3"}
  BY LimitFacts, JobFacts
<1>3. x.l \in Nat /\ x.l + 1 \in Nat /\ x.l >= m /\ x.l <= LimitOf(job) + 1 /\ x \in RegType
  BY <1>1 DEF SumOK, RegType, ClimbOK
<1>4. LimitOf(job) \in job.llim..(job.llim + 1)
  BY LimitFacts
<1>0. Ending(x) = IF SynthOf(job)
                THEN Which(FlySynTail(x), FlyOneSynTail(x), OmpSynTail(x), MicSynTail(x))
                ELSE Which(FlyAnaTail(x), FlyOneAnaTail(x), OmpAnaTail(x), MicAnaTail(x))
  <2>1. im # 0
    BY Products
  <2>2. CASE SynthOf(job)
    BY <2>1, <2>2 DEF Ending, Synth, SynthOf
  <2>3. CASE ~SynthOf(job)
    BY <2>1, <2>3 DEF Ending, Synth, SynthOf
  <2> QED BY <2>2, <2>3
<1>5. CASE SynthOf(job) /\ job.kern = "mic"
  <2> DEFINE a == IF job.f = "Q" THEN Add(x, "Q", x.y0, MicQl(x.l), 0)
                  ELSE Add(x, "V", x.y0, VWlAt(x.l), 0)
             z == IF x.l = Llim2 THEN a ELSE x
  <2>1. /\ z \in RegType /\ Kept(z, x) /\ ~z.twice
        /\ z.terms = Terms(job, x.first, job.llim + 2)
    <3>1. Llim2 = LimitOf(job)
      BY <1>5 DEF Llim2, LimitOf, Has, HasOf
    <3> DEFINE n == x.first
               t == x.l
    <3>2. /\ x \in RegType /\ Counts(job, x) /\ x.terms = Terms(job, n, t) /\ ~x.twice
          /\ n <= t /\ (t - n) % 2 = 0 /\ n \in Nat
      BY DEF SumOK, RegType
    <3>3. CASE x.l = LimitOf(job)
      <4>1. x.y0 = t
        BY <1>1, <1>2, <1>3, <1>4, <3>3 DEF SumOK, ClimbOK, Y
      <4> HIDE DEF a
      <4>2. CASE job.f = "Q"
        <5>1. t = job.llim /\ ~HasOf(job, "V") /\ HasOf(job, "Q")
          BY <3>3, <4>2 DEF LimitOf, HasOf
        <5>2. Meets(job, t, MicQl(t), VWlAt(t))
          BY <1>1, <1>2, <1>3, <1>5, <5>1, SynthMeets
        <5>3. MicQl(t) = t /\ t # Pad /\ t \in Int
          BY <1>2, <1>3, <5>1, <5>2 DEF Meets, Pad
        <5>4. a = Add(x, "Q", t, t, 0)
          BY <4>1, <4>2, <5>3 DEF a
        <5>5. "Q" \in {"Q", "V"} /\ 0 \in Int /\ Counts(job, x)
          BY <3>2
        <5> HIDE DEF t, n
        <5>6. Added(job, a, x, "Q", t, t, 0)
          BY <1>3, <5>3, <5>4, <5>5, OneTerm, Zenon
        <5>7. /\ Terms(job, n, t + 1) = x.terms \cup {<<"Q", t, t, 0>>}
              /\ <<"Q", t, t, 0>> \notin x.terms
          <6>1. <<"Q", t, t, 0>> \notin x.terms
            BY <3>2, <5>3, TermsNext
          <6>2. Terms(job, n, t + 1) =
                  Terms(job, n, t)
                  \cup (IF HasOf(job, "Q") /\ t <= job.llim THEN {<<"Q", t, t, (t - n) % 2>>} ELSE {})
                  \cup (IF HasOf(job, "V") /\ t <= job.llim + 1 THEN {<<"V", t, t, (t - n) % 2>>} ELSE {})
            BY <3>2, <5>3, TermsNext
          <6> QED BY <1>2, <3>2, <5>1, <6>1, <6>2
        <5>8. Terms(job, n, job.llim + 2) = Terms(job, n, t + 1)
          BY <1>2, <5>1 DEF Terms
        <5> QED BY <3>1, <3>2, <3>3, <5>1, <5>3, <5>6, <5>7, <5>8 DEF Added, n, t
      <4>3. CASE job.f # "Q"
        <5>1. t = job.llim + 1 /\ HasOf(job, "V")
          BY <1>2, <1>5, <3>3, <4>3 DEF LimitOf, HasOf
        <5>2. Meets(job, t, MicQl(t), VWlAt(t))
          BY <1>1, <1>2, <1>3, <1>5, <5>1, SynthMeets
        <5>3. VWlAt(t) = t /\ t # Pad /\ t \in Int
          BY <1>2, <1>3, <5>1, <5>2 DEF Meets, Pad
        <5>4. a = Add(x, "V", t, t, 0)
          BY <4>1, <4>3, <5>3 DEF a
        <5>5. "V" \in {"Q", "V"} /\ 0 \in Int /\ Counts(job, x)
          BY <3>2
        <5> HIDE DEF t, n
        <5>6. Added(job, a, x, "V", t, t, 0)
          BY <1>3, <5>3, <5>4, <5>5, OneTerm, Zenon
        <5>7. /\ Terms(job, n, t + 1) = x.terms \cup {<<"V", t, t, 0>>}
              /\ <<"V", t, t, 0>> \notin x.terms
          <6>1. <<"V", t, t, 0>> \notin x.terms
            BY <3>2, <5>3, TermsNext
          <6>2. Terms(job, n, t + 1) =
                  Terms(job, n, t)
                  \cup (IF HasOf(job, "Q") /\ t <= job.llim THEN {<<"Q", t, t, (t - n) % 2>>} ELSE {})
                  \cup (IF HasOf(job, "V") /\ t <= job.llim + 1 THEN {<<"V", t, t, (t - n) % 2>>} ELSE {})
            BY <3>2, <5>3, TermsNext
          <6> QED BY <1>2, <3>2, <5>1, <6>1, <6>2
        <5>8. t + 1 = job.llim + 2
          BY <1>2, <5>1
        <5> QED BY <3>1, <3>2, <3>3, <5>1, <5>3, <5>6, <5>7, <5>8 DEF Added, n, t
      <4> QED BY <4>2, <4>3
    <3>4. CASE x.l # LimitOf(job)
      <4>1. x.l = LimitOf(job) + 1
        BY <1>2, <1>3, <1>4, <3>4
      <4>2. Terms(job, x.first, x.l) = Terms(job, x.first, job.llim + 2)
        BY <1>2, <1>5, <4>1, <3>2 DEF Terms, LimitOf
      <4> QED BY <3>1, <3>2, <3>4, <4>2 DEF Kept
    <3> QED BY <3>3, <3>4
  <2>2. Ending(x) = [z EXCEPT !.sinQ = IF job.f = "3" /\ ~job.magic THEN @ + 1 ELSE @]
    <3>1. Ending(x) = MicSynTail(x)
      BY <1>0, <1>5, JobFacts DEF Which
    <3>2. MicSynTail(x) = [z EXCEPT !.sinQ = IF job.f = "3" /\ ~job.magic THEN @ + 1 ELSE @]
      BY DEF MicSynTail
    <3> QED BY <3>1, <3>2
  <2> HIDE DEF z
  <2> QED BY <1>5, <2>1, <2>2, TailStored
<1>6. CASE SynthOf(job) /\ job.kern # "mic"
  <2> DEFINE q == QlmAt(x.l)
             v0 == VWlAt(x.l)
             v1 == VWlAt(x.l + 1)
             z == LastTerms(x, q, v0, v1)
  <2>0. x.l \in job.llim..(job.llim + 1)
    BY <1>2, <1>3, <1>6 DEF LimitOf
  <2>1. /\ x.l <= job.llim => Meets(job, x.l, QlmAt(x.l), VWlAt(x.l))
        /\ QlmAt(x.l) = x.l
    BY <1>1, <1>2, <1>3, <1>6, <2>0, SynthMeets
  <2>2. HasOf(job, "V") => VWlAt(x.l) = x.l /\ (x.l = job.llim => VWlAt(x.l + 1) = x.l + 1)
    BY <1>1, <1>2, <1>3, <1>6, <2>0 DEF PlaceOK, VWlAt, m
  <2>3. q \in Int /\ v0 \in Int /\ v1 \in Int
    BY <1>3, <2>1 DEF VWlAt, Wrong
  <2> HIDE DEF z
  <2>4. /\ z \in RegType /\ Kept(z, x) /\ ~z.twice
        /\ z.terms = Terms(job, x.first, job.llim + 2)
    BY <2>0, <2>1, <2>2, <2>3, LastAdded DEF z
  <2>5. Ending(x) = [z EXCEPT !.sinQ = IF job.f = "3" /\ ~job.magic THEN @ + 1 ELSE @]
    <3>1. Ending(x) = FlySynTail(x)
      BY <1>0, <1>6, JobFacts DEF Which, FlyOneSynTail, OmpSynTail
    <3>2. FlySynTail(x) = [z EXCEPT !.sinQ = IF job.f = "3" /\ ~job.magic THEN @ + 1 ELSE @]
      BY DEF FlySynTail, LastTerms, z
    <3> QED BY <3>1, <3>2
  <2> QED BY <1>6, <2>4, <2>5, TailStored
<1>7. CASE ~SynthOf(job)
  <2> DEFINE w == WidthOf(job)
             q == Slot(x.q, w)
             v0 == Slot(x.v, 2 * w)
             v1 == Slot(x.v + 2 * w, 2 * w)
             z == LastTerms(x, q, v0, v1)
  <2>0. x.l \in job.llim..(job.llim + 1)
    BY <1>2, <1>3, <1>7 DEF LimitOf
  <2>1. /\ x.q = w * (x.l - m) /\ x.v = 2 * w * (x.l - m) /\ x.v + 2 * w = 2 * w * ((x.l + 1) - m)
    <3>1. x.q = w * (x.l - m) /\ x.v = 2 * w * (x.l - m)
      BY <1>7 DEF SumOK
    <3> HIDE DEF w
    <3>2. CASE w = 1
      BY <1>1, <1>3, <3>1, <3>2
    <3>3. CASE w = 2
      BY <1>1, <1>3, <3>1, <3>3
    <3> QED BY <1>2, <3>2, <3>3 DEF w
  <2> HIDE DEF w
  <2>2. w \in {1, 2}
    BY <1>2 DEF w
  <2>3. x.l <= job.llim => q = x.l
    BY <1>1, <1>2, <1>3, <1>7, <2>0, <2>1, <2>2, AnaMeets
  <2>4. HasOf(job, "V") => v0 = x.l
    BY <1>1, <1>2, <1>3, <1>7, <2>0, <2>1, <2>2, AnaMeets
  <2>5. HasOf(job, "V") /\ x.l = job.llim => v1 = x.l + 1
    <3> DEFINE d == x.v + 2 * w
    <3>1. d = 2 * w * ((x.l + 1) - m) /\ (x.l = job.llim => x.l + 1 <= job.llim + 1)
      BY <1>2, <2>1
    <3> HIDE DEF d
    <3>2. HasOf(job, "V") /\ x.l = job.llim => Slot(d, 2 * w) = x.l + 1
      BY <1>1, <1>2, <1>3, <1>7, <2>2, <3>1, AnaMeets
    <3> QED BY <3>2 DEF d
  <2>6. q \in Int /\ v0 \in Int /\ v1 \in Int
    <3>1. \A o \in Int, k \in {1, 2, 4} : Slot(o, k) \in Int
      BY <1>1 DEF Slot, Wrong
    <3>2. x.q \in Int /\ x.v \in Int /\ x.v + 2 * w \in Int /\ w \in {1, 2, 4} /\ 2 * w \in {1, 2, 4}
      BY <1>3, <2>2 DEF RegType
    <3> QED BY <3>1, <3>2
  <2> HIDE DEF z, q, v0, v1
  <2>7. /\ z \in RegType /\ Kept(z, x) /\ ~z.twice
        /\ z.terms = Terms(job, x.first, job.llim + 2)
    BY <1>2, <2>0, <2>3, <2>4, <2>5, <2>6, LastAdded DEF z
  <2>8. Ending(x) = z
    <3>1. CASE job.kern = "mic"
      <4>1. w = 1 /\ 2 * w = 2
        BY <3>1 DEF WidthOf, w
      <4>2. z = MicAnaTail(x)
        BY <4>1 DEF MicAnaTail, LastTerms, z, q, v0, v1
      <4> QED BY <1>0, <1>7, <3>1, <4>2, JobFacts DEF Which
    <3>2. CASE job.kern # "mic"
      <4>1. w = 2 /\ 2 * w = 4
        BY <3>2 DEF WidthOf, w
      <4>2. z = FlyAnaTail(x)
        BY <4>1 DEF FlyAnaTail, LastTerms, z, q, v0, v1
      <4> QED BY <1>0, <1>7, <3>2, <4>2, JobFacts DEF Which, FlyOneAnaTail, OmpAnaTail
    <3> QED BY <3>1, <3>2
  <2> QED BY <1>7, <2>7, <2>8, TailStored
<1> QED BY <1>5, <1>6, <1>7

-----------------------------------------------------------------------------
(* The start of a block of an order above 0, and the climb near the pole.  *)

SkipOK(j, k, a, x) ==
  /\ x \in RegType
  /\ ClimbOK(k, a, x)
  /\ x.l <= j.llim + 1
  /\ x.first = 0 /\ x.q = 0 /\ x.v = 0 /\ ~x.weight /\ x.terms = {} /\ ~x.twice
  /\ x.half = (IF SynthOf(j) \/ j.one THEN 2 ELSE 1)
  /\ x.nphi <=> j.one /\ ~SynthOf(j)
  /\ x.sinQ = SineOf(j) /\ x.sinV = SineOf(j)

(* The exponents are in range. *)
LEMMA ZeroExp == 0 \in MinExp..0 /\ Exponents \subseteq MinExp..0
BY SizesAssumption DEF Exponents

(* The registers at the start of a block. *)
LEMMA BeginOK ==
  ASSUME job \in Jobs, im \in 0..MMAX, m <= job.llim, alm = AlmRow(im), NEW ny \in MinExp..0,
         NEW h, h = (IF SynthOf(job) \/ job.one THEN 2 ELSE 1),
         NEW b \in BOOLEAN, b <=> job.one /\ ~SynthOf(job), NEW s, s = SineOf(job),
         NEW z, z = Begin(s, h, b, ny)
  PROVE  SkipOK(job, m, alm, z)
<1>1. LMAX \in Nat /\ m \in 0..LMAX /\ alm \in Nat
  BY OrderFacts, Rows
<1>2. job.llim \in 0..LMAX
  BY JobFacts
<1>3. h \in Int /\ s \in Int /\ Y(m) = m /\ Y(m + 1) = m + 1
  BY <1>1 DEF SineOf, Y
<1>4. z = [Registers EXCEPT !.l = m, !.al = alm + 2, !.ny = ny, !.sinQ = s, !.sinV = s,
             !.y0 = m, !.y1 = m + 1, !.half = h, !.nphi = b]
  BY DEF Begin
<1> HIDE DEF m
<1>5. /\ z.l = m /\ z.al = alm + 2 /\ z.ny = ny /\ z.y0 = m /\ z.y1 = m + 1 /\ z.first = 0
      /\ z.q = 0 /\ z.v = 0 /\ ~z.weight /\ z.sinQ = s /\ z.sinV = s /\ z.half = h
      /\ (z.nphi <=> b) /\ z.terms = {} /\ ~z.twice
  <2>1. z.l = m /\ z.al = alm + 2 /\ z.ny = ny /\ z.y0 = m /\ z.y1 = m + 1 /\ z.first = 0
    BY <1>4 DEF Registers
  <2>2. z.q = 0 /\ z.v = 0 /\ z.terms = {} /\ z.sinQ = s /\ z.sinV = s /\ z.half = h
    BY <1>4 DEF Registers
  <2>3. ~z.weight /\ ~z.twice
    BY <1>4 DEF Registers
  <2>4. z.nphi <=> b
    BY <1>4 DEF Registers
  <2> QED BY <2>1, <2>2, <2>3, <2>4
<1>6. z \in RegType
  <2>1. Registers \in RegType
    BY ZeroExp, SizesAssumption DEF Registers, RegType, Wrong
  <2>2. m \in 0..(LMAX + 2) /\ alm + 2 \in Nat /\ m \in Int /\ m + 1 \in Int
    BY <1>1
  <2> DEFINE z1 == [Registers EXCEPT !.l = m, !.al = alm + 2, !.ny = ny, !.sinQ = s, !.sinV = s]
             z2 == [z1 EXCEPT !.y0 = m, !.y1 = m + 1, !.half = h, !.nphi = b]
  <2>3. z1 \in RegType
    BY <1>3, <2>1, <2>2 DEF RegType
  <2>4. z = z2
    BY <1>4
  <2> HIDE DEF z1
  <2>5. z2 \in RegType
    BY <1>3, <2>2, <2>3 DEF RegType
  <2> QED BY <2>4, <2>5
<1>7. ClimbOK(m, alm, z)
  BY <1>1, <1>3, <1>5 DEF ClimbOK
<1>8. z.l <= job.llim + 1
  BY <1>1, <1>2, <1>5
<1> QED BY <1>5, <1>6, <1>7, <1>8 DEF SkipOK

(* Every kernel starts a block with the first two degrees of its order. *)
LEMMA StartKeeps ==
  ASSUME job \in Jobs, im \in 0..MMAX, m <= job.llim, alm = AlmRow(im), NEW ny \in MinExp..0
  PROVE  SkipOK(job, m, alm,
           IF Synth
           THEN Which(FlySynStart(ny), FlyOneSynStart(ny), OmpSynStart(ny), MicSynStart(ny))
           ELSE Which(FlyAnaStart(ny), FlyOneAnaStart(ny), OmpAnaStart(ny), MicAnaStart(ny)))
<1>1. job.one \in BOOLEAN /\ job.magic \in BOOLEAN /\ (job.one => job.kern = "fly")
  BY JobFacts
<1>2. CASE SynthOf(job)
  <2> DEFINE s == IF Has("V") /\ ~job.magic THEN -1 ELSE 0
  <2>1. s = SineOf(job)
    BY <1>2 DEF SineOf, Has, HasOf
  <2> HIDE DEF s
  <2>2. SkipOK(job, m, alm, Begin(s, 2, FALSE, ny))
    BY <1>2, <2>1, BeginOK
  <2> QED BY <1>2, <2>2 DEF s, Synth, SynthOf, Which, FlySynStart, FlyOneSynStart, OmpSynStart, MicSynStart
<1>3. CASE ~SynthOf(job)
  <2> DEFINE s == IF Has("V") THEN -1 ELSE 0
  <2>1. s = SineOf(job)
    BY <1>3 DEF SineOf, Has, HasOf
  <2> HIDE DEF s
  <2>2. CASE job.one
    <3>1. SkipOK(job, m, alm, Begin(s, 2, TRUE, ny))
      BY <1>3, <2>1, <2>2, BeginOK
    <3> QED BY <1>3, <2>2, <3>1 DEF s, Synth, SynthOf, Which, FlyOneAnaStart
  <2>3. CASE ~job.one
    <3>1. SkipOK(job, m, alm, Begin(s, 1, FALSE, ny))
      BY <1>3, <2>1, <2>3, BeginOK
    <3> QED BY <1>3, <2>3, <3>1
            DEF s, Synth, SynthOf, Which, FlyAnaStart, OmpAnaStart, MicAnaStart
  <2> QED BY <1>1, <2>2, <2>3
<1> QED BY <1>2, <1>3

(* While y is too small only the recurrence moves on. *)
LEMMA ClimbKeeps ==
  ASSUME job \in Jobs, im \in 0..MMAX, alm = AlmRow(im), NEW x, SkipOK(job, m, alm, x),
         x.ny < 0, x.l < job.llim, NEW g \in BOOLEAN
  PROVE  SkipOK(job, m, alm, Climb(x, g))
<1> DEFINE u0 == Rec(x.y1, x.y0, x.al)
           u1 == Rec(u0, x.y1, x.al + 2)
           w == [l |-> x.l + 2, al |-> x.al + 4, y0 |-> u0, y1 |-> u1]
           n == IF g THEN x.ny + 1 ELSE x.ny
           z == [x EXCEPT !.y0 = u0, !.y1 = u1, !.l = x.l + 2, !.al = x.al + 4, !.ny = n]
<1>1. x \in RegType /\ ClimbOK(m, alm, x)
  BY DEF SkipOK
<1>2. ClimbOK(m, alm, w) /\ u0 \in Int /\ u1 \in Int /\ w.l \in Nat /\ w.al \in Nat
  <2> HIDE DEF u0, u1
  <2>1. w.l = x.l + 2 /\ w.al = x.al + 4 /\ w.y0 = u0 /\ w.y1 = u1
    OBVIOUS
  <2>2. w.y0 = Rec(x.y1, x.y0, x.al) /\ w.y1 = Rec(w.y0, x.y1, x.al + 2)
    BY <2>1 DEF u0, u1
  <2> HIDE DEF w
  <2> QED BY <1>1, <2>1, <2>2, ClimbStep
<1>3. Climb(x, g) = z
  <2> HIDE DEF u0, u1
  <2>1. x.q \in Nat /\ x.v \in Nat /\ x.q + 0 = x.q /\ x.v + 0 = x.v
    BY <1>1 DEF RegType
  <2> QED BY <1>1, <2>1 DEF Climb, Advance, RegType, u0, u1
<1> HIDE DEF u0, u1
<1>4. job.llim \in 0..LMAX /\ LMAX \in Nat /\ MinExp \in Int
  BY JobFacts, SizesAssumption
<1>5. x.ny \in MinExp..0 /\ n \in MinExp..0 /\ x.l + 2 \in 0..(LMAX + 2) /\ x.l + 2 <= job.llim + 1
      /\ x.al + 4 \in Nat
  BY <1>1, <1>4 DEF RegType
<1> HIDE DEF n
<1>6. z \in RegType /\ z.l = x.l + 2 /\ z.al = x.al + 4 /\ z.y0 = u0 /\ z.y1 = u1
      /\ z.first = x.first /\ z.q = x.q /\ z.v = x.v /\ z.weight = x.weight /\ z.terms = x.terms
      /\ z.twice = x.twice /\ z.half = x.half /\ z.nphi = x.nphi /\ z.sinQ = x.sinQ /\ z.sinV = x.sinV
  BY <1>1, <1>2, <1>5 DEF RegType
<1> HIDE DEF z
<1>7. ClimbOK(m, alm, z)
  BY <1>2, <1>6 DEF ClimbOK
<1>8. SkipOK(job, m, alm, z)
  BY <1>5, <1>6, <1>7 DEF SkipOK
<1> QED BY <1>3, <1>8

(* The block is left out, or its sum starts with the degree reached. *)
LEMMA EndSkipKeeps ==
  ASSUME job \in Jobs, im \in 0..MMAX, NEW x, SkipOK(job, m, alm, x), NEW y,
         y = [x EXCEPT !.first = x.l],
         NEW z, z = IF Synth \/ x.ny < 0 THEN y
                    ELSE Which(FlyAnaWeigh(y), FlyOneAnaWeigh(y), OmpAnaWeigh(y), MicAnaWeigh(y))
  PROVE  /\ z.ny = x.ny
         /\ x.ny = 0 => SumOK(job, m, alm, z)
         /\ x.ny # 0 => StoredOK(job, z)
<1>1. x \in RegType /\ ClimbOK(m, alm, x) /\ x.l <= job.llim + 1
  BY DEF SkipOK
<1>2. LMAX \in Nat /\ m \in 0..LMAX /\ job.llim \in 0..LMAX /\ MinExp \in Int
  BY OrderFacts, JobFacts, SizesAssumption
<1>3. x.l \in Nat /\ x.l \in 0..(LMAX + 1) /\ x.l >= m /\ x.ny \in MinExp..0
  BY <1>1, <1>2 DEF RegType, ClimbOK
<1>4. job.f \in {"Q", "V", "3"} /\ job.magic \in BOOLEAN /\ job.one \in BOOLEAN
      /\ (job.one => job.kern = "fly")
  BY JobFacts
<1>5. /\ y \in RegType /\ y.l = x.l /\ y.al = x.al /\ y.ny = x.ny /\ y.y0 = x.y0 /\ y.y1 = x.y1
      /\ y.first = x.l /\ y.q = 0 /\ y.v = 0 /\ ~y.weight /\ y.terms = {} /\ ~y.twice
      /\ y.half = x.half /\ (y.nphi <=> x.nphi) /\ y.sinQ = x.sinQ /\ y.sinV = x.sinV
  BY <1>1, <1>3 DEF RegType, SkipOK
<1>6. ClimbOK(m, alm, y)
  BY <1>1, <1>5 DEF ClimbOK
<1>7. Terms(job, x.l, x.l) = {}
  BY <1>3, TermsNext
<1>8. LimitOf(job) \in job.llim..(job.llim + 1)
  BY LimitFacts
<1>9. y.l >= m /\ y.first <= y.l /\ (y.l - y.first) % 2 = 0 /\ y.l <= LimitOf(job) + 1
      /\ y.first <= job.llim + 1
  BY <1>1, <1>2, <1>3, <1>5, <1>8
<1>10. CASE x.ny # 0
  <2>1. z = y /\ x.ny < 0
    BY <1>3, <1>10
  <2> QED BY <1>5, <1>10, <2>1 DEF StoredOK
<1>11. CASE x.ny = 0 /\ SynthOf(job)
  <2>1. z = y
    BY <1>11 DEF Synth, SynthOf
  <2>2. FactorsOK(job, y) /\ Counts(job, y)
    BY <1>5, <1>11 DEF FactorsOK, SkipOK, Counts, RegType
  <2>3. SumOK(job, m, alm, y)
    BY <1>5, <1>6, <1>7, <1>9, <1>11, <2>2 DEF SumOK
  <2> QED BY <1>5, <1>11, <2>1, <2>3
<1>12. CASE x.ny = 0 /\ ~SynthOf(job)
  <2> DEFINE w == WidthOf(job)
  <2>1. w \in {1, 2}
    BY LimitFacts
  <2>2. z = Weigh(y, w)
    <3>1. CASE job.kern = "mic"
      BY <1>4, <1>12, <3>1 DEF Synth, SynthOf, Which, MicAnaWeigh, WidthOf
    <3>2. CASE job.kern # "mic"
      <4>1. w = 2
        BY <3>2 DEF WidthOf
      <4> HIDE DEF w
      <4> QED BY <1>4, <1>12, <3>2, <4>1 DEF Synth, SynthOf, Which, FlyAnaWeigh, FlyOneAnaWeigh, OmpAnaWeigh
    <3> QED BY <3>1, <3>2
  <2> HIDE DEF w
  <2> DEFINE q == w * (x.l - m)  v == 2 * w * (x.l - m)
  <2>3. q \in Nat /\ v \in Nat /\ 0 + q = q /\ 0 + v = v
    <3>1. CASE w = 1
      BY <1>2, <1>3, <3>1
    <3>2. CASE w = 2
      BY <1>2, <1>3, <3>2
    <3> QED BY <2>1, <3>1, <3>2
  <2>4. z = [y EXCEPT !.weight = TRUE, !.q = q, !.v = v,
               !.sinQ = IF job.f = "3" THEN y.sinQ + 1 ELSE y.sinQ,
               !.sinV = IF job.magic THEN y.sinV - 1 ELSE y.sinV]
    <3>1. y.q + q = q /\ y.v + v = v /\ y.l = x.l
      BY <1>5, <2>3
    <3> QED BY <2>2, <3>1 DEF Weigh
  <2> HIDE DEF q, v
  <2>5. /\ z \in RegType /\ z.l = y.l /\ z.al = y.al /\ z.ny = y.ny /\ z.y0 = y.y0 /\ z.y1 = y.y1
        /\ z.first = y.first /\ z.q = q /\ z.v = v /\ z.weight /\ z.terms = {} /\ ~z.twice
        /\ z.half = y.half /\ (z.nphi <=> y.nphi)
        /\ z.sinQ = (IF job.f = "3" THEN y.sinQ + 1 ELSE y.sinQ)
        /\ z.sinV = (IF job.magic THEN y.sinV - 1 ELSE y.sinV)
    <3>1. /\ z.l = y.l /\ z.al = y.al /\ z.ny = y.ny /\ z.y0 = y.y0 /\ z.y1 = y.y1
          /\ z.first = y.first /\ z.q = q /\ z.v = v /\ z.terms = {} /\ z.half = y.half
      BY <1>5, <2>4 DEF RegType
    <3>2. z.weight
      BY <1>5, <2>4 DEF RegType
    <3>3. ~z.twice
      BY <1>5, <2>4 DEF RegType
    <3>4. z.nphi <=> y.nphi
      BY <1>5, <2>4 DEF RegType
    <3>5. /\ z.sinQ = (IF job.f = "3" THEN y.sinQ + 1 ELSE y.sinQ)
          /\ z.sinV = (IF job.magic THEN y.sinV - 1 ELSE y.sinV)
      BY <1>5, <2>4 DEF RegType
    <3>6. z \in RegType
      <4>1. z.sinQ \in Int /\ z.sinV \in Int
        BY <1>5, <3>5 DEF RegType
      <4> DEFINE a == IF job.f = "3" THEN y.sinQ + 1 ELSE y.sinQ
                 b == IF job.magic THEN y.sinV - 1 ELSE y.sinV
      <4>2. a \in Int /\ b \in Int
        BY <3>5, <4>1
      <4> HIDE DEF a, b
      <4>3. z = [y EXCEPT !.weight = TRUE, !.q = q, !.v = v, !.sinQ = a, !.sinV = b]
        BY <2>4 DEF a, b
      <4> QED BY <1>5, <2>3, <4>2, <4>3 DEF RegType
    <3> QED BY <3>1, <3>2, <3>3, <3>4, <3>5, <3>6
  <2>6. FactorsOK(job, z) /\ Counts(job, z)
    <3>1. Counts(job, z)
      <4>1. z.weight = TRUE /\ ~SynthOf(job) = TRUE
        BY <1>12, <2>5 DEF RegType
      <4> QED BY <1>5, <1>12, <2>5, <4>1 DEF Counts
    <3>2. z.half = (IF SynthOf(job) \/ job.one THEN 2 ELSE 1)
      BY <1>5, <2>5 DEF SkipOK
    <3>3. z.nphi <=> job.one /\ ~SynthOf(job)
      BY <1>5, <2>5 DEF SkipOK
    <3>4. y.sinQ = SineOf(job) /\ y.sinV = SineOf(job)
      BY <1>5 DEF SkipOK
    <3>5. /\ z.sinQ = IF ~SynthOf(job) /\ job.f = "3" THEN SineOf(job) + 1 ELSE SineOf(job)
          /\ z.sinV = IF ~SynthOf(job) /\ job.magic THEN SineOf(job) - 1 ELSE SineOf(job)
      BY <1>12, <2>5, <3>4
    <3> QED BY <3>1, <3>2, <3>3, <3>5 DEF FactorsOK
  <2>7. ClimbOK(m, alm, z)
    BY <1>6, <2>5 DEF ClimbOK
  <2>8. z.q = WidthOf(job) * (z.l - m) /\ z.v = 2 * WidthOf(job) * (z.l - m)
    BY <1>5, <2>5 DEF q, v, w
  <2>9. SumOK(job, m, alm, z)
    <3>1. /\ z.l <= LimitOf(job) + 1
          /\ z.first >= m /\ z.first <= z.l /\ z.first <= job.llim + 1 /\ (z.l - z.first) % 2 = 0
      BY <1>5, <1>9, <2>5
    <3>2. z.terms = Terms(job, z.first, z.l)
      <4>1. z.first = x.l /\ z.l = x.l /\ z.terms = {}
        BY <1>5, <2>5
      <4> QED BY <1>7, <4>1
    <3> QED BY <2>5, <2>6, <2>7, <2>8, <3>1, <3>2 DEF SumOK
  <2> QED BY <1>5, <1>12, <2>5, <2>9
<1> QED BY <1>10, <1>11, <1>12

-----------------------------------------------------------------------------
(* Order 0.                                                                *)

Terms0(j, t) ==
  {<<"Q", l, l, l % 2>> : l \in {l \in (IF SynthOf(j) THEN 0 ELSE 1)..j.llim : l < t /\ HasOf(j, "Q")}}
  \cup {<<"V", l, l, (l + 1) % 2>> : l \in {l \in 1..j.llim : l < t /\ HasOf(j, "V")}}

(* Which terms the sum of order 0 has. *)
LEMMA InTerms0 ==
  ASSUME job \in Jobs, NEW t \in Int, NEW u
  PROVE  u \in Terms0(job, t) <=>
           \/ \E l \in Int : /\ (IF SynthOf(job) THEN 0 ELSE 1) <= l /\ l <= job.llim /\ l < t
                             /\ HasOf(job, "Q") /\ u = <<"Q", l, l, l % 2>>
           \/ \E l \in Int : /\ 1 <= l /\ l <= job.llim /\ l < t
                             /\ HasOf(job, "V") /\ u = <<"V", l, l, (l + 1) % 2>>
<1>1. job.llim \in Int
  BY JobFacts, SizesAssumption
<1> QED BY <1>1 DEF Terms0

(* The next degree's terms are new to the sum of order 0. *)
LEMMA Terms0Next ==
  ASSUME job \in Jobs, NEW t \in Int, t >= 1, t <= job.llim
  PROVE  /\ \A f, p : <<f, t, t, p>> \notin Terms0(job, t)
         /\ Terms0(job, t + 1) =
              Terms0(job, t)
              \cup (IF HasOf(job, "Q") THEN {<<"Q", t, t, t % 2>>} ELSE {})
              \cup (IF HasOf(job, "V") THEN {<<"V", t, t, (t + 1) % 2>>} ELSE {})
<1>1. job.llim \in Int
  BY JobFacts, SizesAssumption
<1>2. \A f, p : <<f, t, t, p>> \notin Terms0(job, t)
  BY InTerms0
<1> DEFINE A == IF HasOf(job, "Q") THEN {<<"Q", t, t, t % 2>>} ELSE {}
           B == IF HasOf(job, "V") THEN {<<"V", t, t, (t + 1) % 2>>} ELSE {}
<1>3. ASSUME NEW u, u \in Terms0(job, t + 1)
      PROVE  u \in Terms0(job, t) \cup A \cup B
  <2>1. CASE \E l \in Int : /\ (IF SynthOf(job) THEN 0 ELSE 1) <= l /\ l <= job.llim /\ l < t + 1
                            /\ HasOf(job, "Q") /\ u = <<"Q", l, l, l % 2>>
    <3>1. PICK l \in Int : /\ (IF SynthOf(job) THEN 0 ELSE 1) <= l /\ l <= job.llim /\ l < t + 1
                           /\ HasOf(job, "Q") /\ u = <<"Q", l, l, l % 2>>
      BY <2>1
    <3>2. CASE l < t
      BY <3>1, <3>2, InTerms0
    <3>3. CASE l = t
      BY <3>1, <3>3
    <3> QED BY <3>1, <3>2, <3>3
  <2>2. CASE \E l \in Int : /\ 1 <= l /\ l <= job.llim /\ l < t + 1
                            /\ HasOf(job, "V") /\ u = <<"V", l, l, (l + 1) % 2>>
    <3>1. PICK l \in Int : /\ 1 <= l /\ l <= job.llim /\ l < t + 1
                           /\ HasOf(job, "V") /\ u = <<"V", l, l, (l + 1) % 2>>
      BY <2>2
    <3>2. CASE l < t
      BY <3>1, <3>2, InTerms0
    <3>3. CASE l = t
      BY <3>1, <3>3
    <3> QED BY <3>1, <3>2, <3>3
  <2>3. t + 1 \in Int
    OBVIOUS
  <2> QED BY <1>3, <2>1, <2>2, <2>3, InTerms0
<1>4. Terms0(job, t) \subseteq Terms0(job, t + 1)
  BY <1>1 DEF Terms0
<1>5. A \subseteq Terms0(job, t + 1)
  BY <1>1 DEF Terms0
<1>6. B \subseteq Terms0(job, t + 1)
  BY <1>1 DEF Terms0
<1> HIDE DEF A, B
<1>7. Terms0(job, t + 1) = Terms0(job, t) \cup A \cup B
  BY <1>3, <1>4, <1>5, <1>6
<1> QED BY <1>2, <1>7 DEF A, B

(* Both terms of a degree. *)
LEMMA BothTerms0 ==
  ASSUME job \in Jobs, NEW x \in RegType, Counts(job, x), NEW t \in Nat, t >= 1, t <= job.llim,
         x.terms = Terms0(job, t), ~x.twice, NEW y \in Int, y = t, NEW d \in Int, d = t,
         NEW p \in Int, p = t % 2, NEW o \in Int, o = (t + 1) % 2, NEW q, q = t, NEW v, v = t,
         NEW z, z = Add(Add(x, "Q", y, q, p), "V", d, v, o)
  PROVE  /\ z \in RegType /\ Kept(z, x) /\ SameY(z, x)
         /\ z.terms = Terms0(job, t + 1) /\ ~z.twice
<1> DEFINE A == IF HasOf(job, "Q") THEN {<<"Q", t, t, p>>} ELSE {}
           B == IF HasOf(job, "V") THEN {<<"V", t, t, o>>} ELSE {}
           w == Add(x, "Q", t, t, p)
<1>1. /\ Terms0(job, t + 1) = Terms0(job, t) \cup A \cup B
      /\ <<"Q", t, t, p>> \notin Terms0(job, t)
      /\ <<"V", t, t, o>> \notin Terms0(job, t)
  BY Terms0Next
<1>2. t # Pad /\ t \in Int
  BY DEF Pad
<1> HIDE DEF w
<1>3. Added(job, w, x, "Q", t, t, p)
  BY <1>2, OneTerm DEF w
<1>4. Counts(job, w) /\ w \in RegType
  BY <1>3 DEF Counts, Kept, Added
<1>5. z = Add(w, "V", t, t, o)
  BY DEF w
<1>6. Added(job, z, w, "V", t, t, o)
  BY <1>2, <1>4, <1>5, OneTerm
<1>7. w.terms = Terms0(job, t) \cup A /\ ~w.twice
  BY <1>1, <1>2, <1>3 DEF Added
<1>8. <<"V", t, t, o>> \notin A
  OBVIOUS
<1> HIDE DEF A
<1>9. z.terms = Terms0(job, t) \cup A \cup B /\ ~z.twice
  BY <1>1, <1>2, <1>6, <1>7, <1>8 DEF Added
<1>10. z \in RegType /\ Kept(z, x) /\ SameY(z, x)
  BY <1>3, <1>6 DEF Kept, SameY, Added
<1> QED BY <1>1, <1>9, <1>10

BaseOf(j, x) == IF SynthOf(j) THEN x.l - 2 ELSE x.l - 1

Sum0OK(j, x) ==
  /\ x \in RegType /\ Counts(j, x)
  /\ BaseOf(j, x) >= 0 /\ BaseOf(j, x) % 2 = 0
  /\ x.y0 = BaseOf(j, x) /\ x.d0 = BaseOf(j, x)
  /\ x.y1 = BaseOf(j, x) + 1 /\ x.d1 = BaseOf(j, x) + 1
  /\ x.al = 2 * (BaseOf(j, x) + 1)
  /\ x.l <= j.llim + 1
  /\ x.terms = Terms0(j, x.l) /\ ~x.twice
  /\ x.half = 2 /\ (x.nphi <=> j.one /\ ~SynthOf(j))

(* The recurrence of order 0, for y and its derivative. *)
LEMMA Rec0 ==
  ASSUME im = 0, NEW b \in Nat, b + 1 <= LMAX, NEW o, o = 2 * (b + 1)
  PROVE  Rec(b + 1, b, o) = b + 2 /\ RecD(b + 1, b + 1, b, o) = b + 2
<1>1. LMAX \in Nat /\ MRES \in Nat
  BY SizesAssumption
<1>2. AlmRow(0) = 0
  BY <1>1 DEF AlmRow
<1>3. AlmPair(0, b + 2) = o
  BY <1>1, <1>2 DEF AlmPair
<1> QED BY <1>1, <1>3 DEF Rec, RecD, Wrong

(* One step of the recurrence of y and its derivative, on the even side. *)
LEMMA EvenNext ==
  ASSUME im = 0, NEW x \in RegType, NEW b \in Nat, b + 1 <= LMAX, x.y0 = b, x.d0 = b,
         x.y1 = b + 1, x.d1 = b + 1, NEW a \in Int, x.al + a = 2 * (b + 1), NEW z, z = Even0(x, a)
  PROVE  /\ z \in RegType /\ Kept(z, x) /\ z.y0 = b + 2 /\ z.d0 = b + 2
         /\ z.y1 = x.y1 /\ z.d1 = x.d1 /\ z.terms = x.terms /\ z.twice = x.twice
<1>1. z = [x EXCEPT !.d0 = b + 2, !.y0 = b + 2]
  BY Rec0 DEF Even0
<1>2. b + 2 \in Int
  OBVIOUS
<1>3. z \in RegType
  BY <1>1, <1>2 DEF RegType
<1>4. Kept(z, x)
  BY <1>1 DEF RegType, Kept
<1>5. z.y0 = b + 2 /\ z.d0 = b + 2 /\ z.y1 = x.y1 /\ z.d1 = x.d1
  BY <1>1 DEF RegType
<1>6. z.terms = x.terms /\ z.twice = x.twice
  BY <1>1 DEF RegType
<1> QED BY <1>3, <1>4, <1>5, <1>6

(* The same on the odd side. *)
LEMMA OddNext ==
  ASSUME im = 0, NEW x \in RegType, NEW b \in Nat, b + 1 <= LMAX, x.y1 = b, x.d1 = b,
         x.y0 = b + 1, x.d0 = b + 1, NEW a \in Int, x.al + a = 2 * (b + 1), NEW z, z = Odd0(x, a)
  PROVE  /\ z \in RegType /\ Kept(z, x) /\ z.y1 = b + 2 /\ z.d1 = b + 2
         /\ z.y0 = x.y0 /\ z.d0 = x.d0 /\ z.terms = x.terms /\ z.twice = x.twice
<1>1. z = [x EXCEPT !.d1 = b + 2, !.y1 = b + 2]
  BY Rec0 DEF Odd0
<1>2. b + 2 \in Int
  OBVIOUS
<1>3. z \in RegType
  BY <1>1, <1>2 DEF RegType
<1>4. Kept(z, x)
  BY <1>1 DEF RegType, Kept
<1>5. z.y0 = x.y0 /\ z.d0 = x.d0 /\ z.y1 = b + 2 /\ z.d1 = b + 2
  BY <1>1 DEF RegType
<1>6. z.terms = x.terms /\ z.twice = x.twice
  BY <1>1 DEF RegType
<1> QED BY <1>3, <1>4, <1>5, <1>6

(* A degree of a synthesis, a degree of an analysis: z stands for the registers w after the
   recurrence has been advanced, or before. *)
LEMMA Zero0 ==
  ASSUME job \in Jobs, im = 0, SynthOf(job), NEW t \in Nat, t >= 1, t <= job.llim
  PROVE  Ql0(t) = t /\ Sl0(t - 1) = t
<1>1. job.llim \in 0..LMAX /\ LMAX \in Nat
  BY JobFacts, SizesAssumption
<1>2. t \in Packed0 /\ (t - 1) + 1 = t
  BY <1>1 DEF Packed0
<1> QED BY <1>2 DEF Ql0, Sl0

(* An analysis of order 0 finds the accumulators of each degree. *)
LEMMA Slots0 ==
  ASSUME job \in Jobs, im = 0, ~SynthOf(job), PlaceOK(job, im, co, vw, cleared),
         NEW t \in Nat, t >= 1, t <= job.llim
  PROVE  Slot0(t - 1, 1) = t /\ Slot0(2 * t - 2, 2) = t
<1>1. job.llim \in 0..LMAX /\ LMAX \in Nat
  BY JobFacts, SizesAssumption
<1>2. cleared = 0..(job.llim - 1)
  BY DEF PlaceOK
<1>3. (t - 1) \div 1 = t - 1 /\ (t - 1) % 1 = 0 /\ t - 1 \in cleared
  BY <1>1, <1>2
<1>4. (2 * t - 2) \div 2 = t - 1 /\ (2 * t - 2) % 2 = 0
  OBVIOUS
<1>5. Slot0(t - 1, 1) = t
  BY <1>3 DEF Slot0
<1>6. Slot0(2 * t - 2, 2) = t
  BY <1>3, <1>4 DEF Slot0
<1> QED BY <1>5, <1>6

(* The odd degree of a synthesis after the even one, and the loop; the last degree alone. *)
LEMMA SynEven0OK ==
  ASSUME job \in Jobs, im = 0, SynthOf(job), NEW x, Sum0OK(job, x), x.l <= job.llim,
         NEW z, z = SynEven0(x)
  PROVE  /\ z \in RegType /\ Kept(z, x) /\ z.y0 = x.l /\ z.d0 = x.l
         /\ z.y1 = x.y1 /\ z.d1 = x.d1 /\ z.terms = Terms0(job, x.l + 1) /\ ~z.twice
<1> DEFINE b == x.l - 2
           e == Even0(x, 0)
<1>1. /\ x \in RegType /\ Counts(job, x) /\ b >= 0 /\ b % 2 = 0
      /\ x.y0 = b /\ x.d0 = b /\ x.y1 = b + 1 /\ x.d1 = b + 1 /\ x.al = 2 * (b + 1)
      /\ x.terms = Terms0(job, x.l) /\ ~x.twice
  BY DEF Sum0OK, BaseOf
<1>2. job.llim \in 0..LMAX /\ LMAX \in Nat /\ x.l \in Nat
  BY <1>1, JobFacts, SizesAssumption DEF RegType
<1>3. b \in Nat /\ b + 1 <= LMAX /\ x.l = b + 2 /\ x.al + 0 = 2 * (b + 1)
  BY <1>1, <1>2 DEF RegType
<1> HIDE DEF b, e
<1>4. /\ e \in RegType /\ Kept(e, x) /\ e.y0 = b + 2 /\ e.d0 = b + 2
      /\ e.y1 = x.y1 /\ e.d1 = x.d1 /\ e.terms = x.terms /\ e.twice = x.twice
  BY <1>1, <1>3, EvenNext DEF e
<1>5. /\ Counts(job, e) /\ e.l = x.l /\ e.terms = Terms0(job, x.l) /\ ~e.twice
      /\ e.y0 = x.l /\ e.d0 = x.l
  BY <1>1, <1>3, <1>4 DEF Counts, Kept
<1>6. x.l >= 1 /\ x.l % 2 = 0 /\ (x.l + 1) % 2 = 1 /\ x.l \in Int
  BY <1>1, <1>3
<1>7. Ql0(e.l) = x.l /\ Sl0(e.l - 1) = x.l
  BY <1>2, <1>5, <1>6, Zero0
<1> DEFINE w == Add(Add(e, "Q", e.y0, Ql0(e.l), 0), "V", e.d0, Sl0(e.l - 1), 1)
<1>9. Add(e, "Q", e.y0, Ql0(e.l), 0).d0 = e.d0 /\ Add(e, "Q", e.y0, Ql0(e.l), 0).l = e.l
  BY <1>4 DEF Add, RegType
<1>10. z = w
  BY <1>9 DEF SynEven0, e
<1> HIDE DEF w
<1>8. /\ w \in RegType /\ Kept(w, e) /\ SameY(w, e) /\ w.terms = Terms0(job, x.l + 1) /\ ~w.twice
  <2>1. w = Add(Add(e, "Q", x.l, x.l, 0), "V", x.l, x.l, 1) /\ 0 = x.l % 2 /\ 1 = (x.l + 1) % 2
    BY <1>5, <1>6, <1>7 DEF w
  <2> QED BY <1>2, <1>4, <1>5, <1>6, <2>1, BothTerms0
<1> QED BY <1>4, <1>5, <1>8, <1>10 DEF Kept, SameY

(* A turn of the loop of order 0 adds two degrees, in a synthesis. *)
LEMMA Syn0Keeps ==
  ASSUME job \in Jobs, im = 0, SynthOf(job), NEW x, Sum0OK(job, x), x.l < job.llim
  PROVE  Sum0OK(job, SynPair0(x))
<1> DEFINE b == x.l - 1
           y == SynEven0(x)
           o == Odd0(y, 2)
           w == Add(Add(o, "Q", o.y1, Ql0(o.l + 1), 1), "V", o.d1, Sl0(o.l), 0)
           z == [w EXCEPT !.l = x.l + 2, !.al = x.al + 4]
<1>1. /\ x \in RegType /\ Counts(job, x) /\ x.l - 2 >= 0 /\ (x.l - 2) % 2 = 0
      /\ x.y1 = b /\ x.d1 = b /\ x.al = 2 * b /\ x.half = 2 /\ (x.nphi <=> job.one /\ ~SynthOf(job))
  BY DEF Sum0OK, BaseOf, RegType
<1>2. job.llim \in 0..LMAX /\ LMAX \in Nat /\ x.l \in Nat /\ x.al \in Nat /\ x.q \in Nat /\ x.v \in Nat
  BY <1>1, JobFacts, SizesAssumption DEF RegType
<1> HIDE DEF y
<1>3. /\ y \in RegType /\ Kept(y, x) /\ y.y0 = x.l /\ y.d0 = x.l
      /\ y.y1 = x.y1 /\ y.d1 = x.d1 /\ y.terms = Terms0(job, x.l + 1) /\ ~y.twice
  BY <1>2, SynEven0OK DEF y
<1>4. b \in Nat /\ b + 1 <= LMAX /\ x.l = b + 1 /\ y.al + 2 = 2 * (b + 1) /\ y.al = x.al
  BY <1>1, <1>2, <1>3 DEF Kept
<1> HIDE DEF b, o
<1>5. /\ o \in RegType /\ Kept(o, y) /\ o.y1 = b + 2 /\ o.d1 = b + 2
      /\ o.y0 = y.y0 /\ o.d0 = y.d0 /\ o.terms = y.terms /\ o.twice = y.twice
  BY <1>1, <1>3, <1>4, OddNext DEF o
<1> DEFINE t == x.l + 1
<1>6. /\ Counts(job, o) /\ o.l = x.l /\ o.terms = Terms0(job, t) /\ ~o.twice
      /\ o.y1 = t /\ o.d1 = t
  BY <1>1, <1>3, <1>4, <1>5 DEF Counts, Kept
<1>7. t \in Nat /\ t >= 1 /\ t <= job.llim /\ t % 2 = 1 /\ (t + 1) % 2 = 0 /\ t - 1 = x.l /\ t + 1 = x.l + 2
  BY <1>1, <1>2
<1> HIDE DEF t
<1>8. Ql0(o.l + 1) = t /\ Sl0(o.l) = t
  <2>1. Ql0(t) = t /\ Sl0(t - 1) = t
    BY <1>7, Zero0
  <2> QED BY <1>6, <1>7, <2>1 DEF t
<1>9. Add(o, "Q", o.y1, Ql0(o.l + 1), 1).d1 = o.d1 /\ Add(o, "Q", o.y1, Ql0(o.l + 1), 1).l = o.l
  BY <1>5 DEF Add, RegType
<1>10. SynOdd0(y) = w
  BY <1>9 DEF SynOdd0, o
<1> HIDE DEF w
<1>11. /\ w \in RegType /\ Kept(w, o) /\ SameY(w, o) /\ w.terms = Terms0(job, t + 1) /\ ~w.twice
  <2>1. w = Add(Add(o, "Q", t, t, 1), "V", t, t, 0) /\ 1 = t % 2 /\ 0 = (t + 1) % 2
    BY <1>6, <1>7, <1>8 DEF w
  <2> QED BY <1>5, <1>6, <1>7, <2>1, BothTerms0
<1>12. /\ w.l = x.l /\ w.al = x.al /\ w.q = x.q /\ w.v = x.v /\ w.ny = x.ny /\ w.weight = x.weight
       /\ w.half = x.half /\ w.nphi = x.nphi
       /\ w.y0 = x.l /\ w.d0 = x.l /\ w.y1 = t /\ w.d1 = t
  BY <1>3, <1>5, <1>6, <1>11 DEF Kept, SameY
<1>13. SynPair0(x) = z
  <2>1. w.q + 0 = w.q /\ w.v + 0 = w.v
    BY <1>2, <1>12
  <2> QED BY <1>10, <1>11, <1>12, <2>1 DEF SynPair0, Advance, y, RegType
<1> HIDE DEF z
<1>14. /\ z \in RegType /\ z.l = x.l + 2 /\ z.al = x.al + 4 /\ z.y0 = w.y0 /\ z.y1 = w.y1
       /\ z.d0 = w.d0 /\ z.d1 = w.d1 /\ z.terms = w.terms /\ z.twice = w.twice
       /\ z.half = w.half /\ z.nphi = w.nphi
  <2>1. x.l + 2 \in 0..(LMAX + 2) /\ x.al + 4 \in Nat
    BY <1>2
  <2> QED BY <1>11, <2>1 DEF RegType, z
<1>15. Counts(job, z)
  BY <1>1, <1>11, <1>12 DEF RegType, z, Counts
<1>16. /\ BaseOf(job, z) = x.l /\ BaseOf(job, z) >= 0 /\ BaseOf(job, z) % 2 = 0
       /\ z.al = 2 * (BaseOf(job, z) + 1) /\ z.l <= job.llim + 1
       /\ z.y0 = BaseOf(job, z) /\ z.d0 = BaseOf(job, z)
       /\ z.y1 = BaseOf(job, z) + 1 /\ z.d1 = BaseOf(job, z) + 1
  BY <1>1, <1>2, <1>4, <1>12, <1>14 DEF BaseOf, t
<1>17. z.terms = Terms0(job, z.l) /\ ~z.twice
  BY <1>7, <1>11, <1>14
<1>18. z.half = 2 /\ (z.nphi <=> job.one /\ ~SynthOf(job))
  BY <1>1, <1>12, <1>14
<1>19. Sum0OK(job, z)
  BY <1>14, <1>15, <1>16, <1>17, <1>18 DEF Sum0OK
<1> QED BY <1>13, <1>19

(* The odd degree of an analysis. *)
LEMMA AnaOdd0OK ==
  ASSUME job \in Jobs, im = 0, ~SynthOf(job), PlaceOK(job, im, co, vw, cleared),
         NEW x \in RegType, Counts(job, x), NEW t \in Nat, t >= 1, t <= job.llim, t % 2 = 1,
         x.y1 = t, x.d1 = t, x.terms = Terms0(job, t), ~x.twice,
         NEW z, z = AnaOdd0(x, Slot0(t - 1, 1), Slot0(2 * t - 2, 2))
  PROVE  /\ z \in RegType /\ Kept(z, x) /\ SameY(z, x)
         /\ z.terms = Terms0(job, t + 1) /\ ~z.twice
<1>1. Slot0(t - 1, 1) = t /\ Slot0(2 * t - 2, 2) = t
  BY Slots0
<1>2. 1 = t % 2 /\ 0 = (t + 1) % 2
  OBVIOUS
<1> DEFINE w == Add(Add(x, "Q", x.y1, t, 1), "V", x.d1, t, 0)
<1>3. Add(x, "Q", x.y1, t, 1).d1 = x.d1
  BY DEF Add, RegType
<1>4. z = w
  BY <1>1, <1>3 DEF AnaOdd0
<1> HIDE DEF w
<1>5. w = Add(Add(x, "Q", t, t, 1), "V", t, t, 0)
  BY DEF w
<1>6. /\ w \in RegType /\ Kept(w, x) /\ SameY(w, x)
      /\ w.terms = Terms0(job, t + 1) /\ ~w.twice
  BY <1>2, <1>5, BothTerms0
<1> QED BY <1>4, <1>6

(* The terms of an even degree, in an analysis of order 0. *)
LEMMA AnaEven0OK ==
  ASSUME job \in Jobs, im = 0, ~SynthOf(job), PlaceOK(job, im, co, vw, cleared),
         NEW x \in RegType, Counts(job, x), NEW t \in Nat, t >= 1, t <= job.llim, t % 2 = 0,
         x.y0 = t, x.d0 = t, x.terms = Terms0(job, t), ~x.twice,
         NEW z, z = AnaEven0(x, Slot0(t - 1, 1), Slot0(2 * t - 2, 2))
  PROVE  /\ z \in RegType /\ Kept(z, x) /\ SameY(z, x)
         /\ z.terms = Terms0(job, t + 1) /\ ~z.twice
<1>1. Slot0(t - 1, 1) = t /\ Slot0(2 * t - 2, 2) = t
  BY Slots0
<1>2. 0 = t % 2 /\ 1 = (t + 1) % 2
  OBVIOUS
<1> DEFINE w == Add(Add(x, "Q", x.y0, t, 0), "V", x.d0, t, 1)
<1>3. Add(x, "Q", x.y0, t, 0).d0 = x.d0
  BY DEF Add, RegType
<1>4. z = w
  BY <1>1, <1>3 DEF AnaEven0
<1> HIDE DEF w
<1>5. w = Add(Add(x, "Q", t, t, 0), "V", t, t, 1)
  BY DEF w
<1>6. /\ w \in RegType /\ Kept(w, x) /\ SameY(w, x)
      /\ w.terms = Terms0(job, t + 1) /\ ~w.twice
  BY <1>2, <1>5, BothTerms0
<1> QED BY <1>4, <1>6

(* A turn of the loop of order 0 adds two degrees, in an analysis. *)
LEMMA Ana0Keeps ==
  ASSUME job \in Jobs, im = 0, ~SynthOf(job), PlaceOK(job, im, co, vw, cleared),
         NEW x, Sum0OK(job, x), x.l < job.llim
  PROVE  Sum0OK(job, AnaPair0(x))
<1> DEFINE t == x.l
           b == x.l - 1
           e == Even0(x, 0)
           a == AnaOdd0(e, Slot0(t - 1, 1), Slot0(2 * t - 2, 2))
           o == Odd0(a, 2)
           w == AnaEven0(o, Slot0((t + 1) - 1, 1), Slot0(2 * (t + 1) - 2, 2))
           z == [w EXCEPT !.l = x.l + 2, !.al = x.al + 4]
<1>1. /\ x \in RegType /\ Counts(job, x) /\ b >= 0 /\ b % 2 = 0
      /\ x.y0 = b /\ x.d0 = b /\ x.y1 = b + 1 /\ x.d1 = b + 1
      /\ x.al = 2 * (b + 1) /\ x.half = 2 /\ (x.nphi <=> job.one /\ ~SynthOf(job))
      /\ x.terms = Terms0(job, t) /\ ~x.twice
  BY DEF Sum0OK, BaseOf
<1>2. /\ job.llim \in 0..LMAX /\ LMAX \in Nat /\ t \in Nat /\ x.al \in Nat /\ x.q \in Nat /\ x.v \in Nat
      /\ x.l \in Nat
  BY <1>1, JobFacts, SizesAssumption DEF RegType
<1>3. b \in Nat /\ b + 1 <= LMAX /\ t = b + 1 /\ x.al + 0 = 2 * (b + 1) /\ t + 1 = b + 2
      /\ t % 2 = 1 /\ (t + 1) % 2 = 0 /\ t >= 1 /\ t + 1 <= job.llim /\ t + 1 \in Nat /\ x.al + 2 = 2 * (t + 1)
      /\ t + 1 <= LMAX /\ t <= job.llim
  BY <1>1, <1>2
<1> HIDE DEF b, t, e
<1>4. /\ e \in RegType /\ Kept(e, x) /\ e.y0 = b + 2 /\ e.d0 = b + 2
      /\ e.y1 = x.y1 /\ e.d1 = x.d1 /\ e.terms = x.terms /\ e.twice = x.twice
  BY <1>1, <1>3, EvenNext DEF e
<1>5. Counts(job, e) /\ e.al = x.al /\ e.y1 = t /\ e.d1 = t /\ e.terms = Terms0(job, t) /\ ~e.twice
  BY <1>1, <1>3, <1>4 DEF Counts, Kept
<1> HIDE DEF a
<1>6. /\ a \in RegType /\ Kept(a, e) /\ SameY(a, e)
      /\ a.terms = Terms0(job, t + 1) /\ ~a.twice
  BY <1>2, <1>3, <1>4, <1>5, AnaOdd0OK DEF a
<1>7. /\ Counts(job, a) /\ a.al + 2 = 2 * (t + 1) /\ a.y1 = t /\ a.d1 = t /\ a.y0 = t + 1 /\ a.d0 = t + 1
  BY <1>3, <1>4, <1>5, <1>6 DEF Counts, Kept, SameY
<1> HIDE DEF o
<1>8. /\ o \in RegType /\ Kept(o, a) /\ o.y1 = t + 2 /\ o.d1 = t + 2
      /\ o.y0 = a.y0 /\ o.d0 = a.d0 /\ o.terms = a.terms /\ o.twice = a.twice
  BY <1>2, <1>3, <1>6, <1>7, OddNext DEF o
<1>9. /\ Counts(job, o) /\ o.y0 = t + 1 /\ o.d0 = t + 1 /\ o.terms = Terms0(job, t + 1) /\ ~o.twice
  BY <1>6, <1>7, <1>8 DEF Counts, Kept
<1> DEFINE s == t + 1
<1>10. s \in Nat /\ s >= 1 /\ s <= job.llim /\ s % 2 = 0
  BY <1>2, <1>3
<1> HIDE DEF w
<1>11. /\ w \in RegType /\ Kept(w, o) /\ SameY(w, o)
       /\ w.terms = Terms0(job, s + 1) /\ ~w.twice
  <2>1. w = AnaEven0(o, Slot0(s - 1, 1), Slot0(2 * s - 2, 2)) /\ o.y0 = s /\ o.d0 = s
        /\ o.terms = Terms0(job, s)
    BY <1>9 DEF w
  <2> HIDE DEF s
  <2> QED BY <1>8, <1>9, <1>10, <2>1, AnaEven0OK
<1>12. /\ w.l = x.l /\ w.al = x.al /\ w.q = x.q /\ w.v = x.v /\ w.ny = x.ny /\ w.weight = x.weight
       /\ w.half = x.half /\ w.nphi = x.nphi
       /\ w.y0 = t + 1 /\ w.d0 = t + 1 /\ w.y1 = t + 2 /\ w.d1 = t + 2
  BY <1>4, <1>6, <1>8, <1>9, <1>11 DEF Kept, SameY
<1>13. AnaPair0(x) = z
  <2>1. w.q + 0 = w.q /\ w.v + 0 = w.v /\ (t + 1) - 1 = x.l /\ 2 * (t + 1) - 2 = 2 * x.l
    BY <1>2, <1>12 DEF t
  <2>2. AnaPair0(x) = Advance(w, 2, 4, 0, 0)
    BY <2>1 DEF AnaPair0, w, o, a, e, t
  <2> QED BY <1>11, <1>12, <2>1, <2>2 DEF Advance, RegType
<1> HIDE DEF z
<1>14. /\ z \in RegType /\ z.l = x.l + 2 /\ z.al = x.al + 4 /\ z.y0 = w.y0 /\ z.y1 = w.y1
       /\ z.d0 = w.d0 /\ z.d1 = w.d1 /\ z.terms = w.terms /\ z.twice = w.twice
       /\ z.half = w.half /\ z.nphi = w.nphi
  <2>1. x.l + 2 \in 0..(LMAX + 2) /\ x.al + 4 \in Nat
    BY <1>2, <1>3 DEF t
  <2> QED BY <1>11, <2>1 DEF RegType, z
<1>15. Counts(job, z)
  BY <1>1, <1>11, <1>12 DEF RegType, z, Counts
<1>16. /\ BaseOf(job, z) = t + 1 /\ BaseOf(job, z) >= 0 /\ BaseOf(job, z) % 2 = 0
       /\ z.al = 2 * (BaseOf(job, z) + 1) /\ z.l <= job.llim + 1
       /\ z.y0 = BaseOf(job, z) /\ z.d0 = BaseOf(job, z)
       /\ z.y1 = BaseOf(job, z) + 1 /\ z.d1 = BaseOf(job, z) + 1
  BY <1>1, <1>2, <1>3, <1>12, <1>14 DEF BaseOf, t
<1>17. z.terms = Terms0(job, z.l) /\ ~z.twice
  BY <1>2, <1>3, <1>11, <1>14 DEF t
<1>18. z.half = 2 /\ (z.nphi <=> job.one /\ ~SynthOf(job))
  BY <1>1, <1>12, <1>14
<1>19. Sum0OK(job, z)
  BY <1>14, <1>15, <1>16, <1>17, <1>18 DEF Sum0OK
<1> QED BY <1>13, <1>19

(* A block of order 0 which is complete. *)
Stored0OK(j, x) ==
  /\ x \in RegType /\ ~x.twice /\ x.ny = 0
  /\ x.terms = Terms0(j, j.llim + 1)
  /\ x.half = 2 /\ (x.nphi <=> j.one /\ ~SynthOf(j))

(* All kernels treat order 0 alike. *)
LEMMA Pair0 ==
  ASSUME job \in Jobs, im = 0, NEW x
  PROVE  /\ Ending(x) = Pair(x)
         /\ Pair(x) = IF SynthOf(job) THEN IF x.l < job.llim THEN SynPair0(x) ELSE SynTail0(x)
                      ELSE IF x.l < job.llim THEN AnaPair0(x) ELSE AnaTail0(x)
<1>1. job.one \in BOOLEAN /\ job.kern \in {"fly", "omp", "mic"}
  BY JobFacts
<1>2. CASE SynthOf(job)
  BY <1>1, <1>2 DEF Ending, Pair, Synth, SynthOf, Which, FlySyn0, FlyOneSyn0, OmpSyn0, MicSyn0
<1>3. CASE ~SynthOf(job)
  BY <1>1, <1>3 DEF Ending, Pair, Synth, SynthOf, Which, FlyAna0, FlyOneAna0, OmpAna0, MicAna0
<1> QED BY <1>2, <1>3

(* A turn of the loop of order 0, in every kernel. *)
LEMMA Pair0Keeps ==
  ASSUME job \in Jobs, im = 0, PlaceOK(job, im, co, vw, cleared),
         NEW x, Sum0OK(job, x), x.l < job.llim
  PROVE  Sum0OK(job, Pair(x))
BY Pair0, Syn0Keeps, Ana0Keeps

(* The lines after the loop of order 0 leave a complete sum. *)
LEMMA Ending0Keeps ==
  ASSUME job \in Jobs, im = 0, PlaceOK(job, im, co, vw, cleared),
         NEW x, Sum0OK(job, x), x.l >= job.llim
  PROVE  Stored0OK(job, Ending(x))
<1>1. /\ x \in RegType /\ Counts(job, x) /\ x.half = 2 /\ (x.nphi <=> job.one /\ ~SynthOf(job))
      /\ x.terms = Terms0(job, x.l) /\ ~x.twice /\ x.l <= job.llim + 1
      /\ BaseOf(job, x) >= 0 /\ BaseOf(job, x) % 2 = 0
      /\ x.y1 = BaseOf(job, x) + 1 /\ x.d1 = BaseOf(job, x) + 1
  BY DEF Sum0OK
<1>2. job.llim \in 0..LMAX /\ LMAX \in Nat /\ x.l \in Nat
  BY <1>1, JobFacts, SizesAssumption DEF RegType
<1>3. CASE x.l = job.llim + 1
  <2>1. Ending(x) = x
    BY <1>2, <1>3, Pair0 DEF SynTail0, AnaTail0
  <2> QED BY <1>1, <1>3, <2>1 DEF Stored0OK, Counts
<1>4. CASE x.l = job.llim /\ SynthOf(job)
  <2> DEFINE z == SynEven0(x)
  <2>1. Ending(x) = z
    BY <1>2, <1>4, Pair0 DEF SynTail0
  <2> HIDE DEF z
  <2>2. z \in RegType /\ Kept(z, x) /\ z.terms = Terms0(job, x.l + 1) /\ ~z.twice
    BY <1>2, <1>4, SynEven0OK DEF z
  <2> QED BY <1>1, <1>4, <2>1, <2>2 DEF Stored0OK, Counts, Kept
<1>5. CASE x.l = job.llim /\ ~SynthOf(job)
  <2> DEFINE t == x.l
             z == AnaOdd0(x, Slot0(t - 1, 1), Slot0(2 * t - 2, 2))
  <2>1. Ending(x) = z
    BY <1>2, <1>5, Pair0 DEF AnaTail0
  <2>2. t \in Nat /\ t >= 1 /\ t <= job.llim /\ t % 2 = 1 /\ x.y1 = t /\ x.d1 = t /\ x.terms = Terms0(job, t)
    BY <1>1, <1>2, <1>5 DEF BaseOf
  <2> HIDE DEF z, t
  <2>3. z \in RegType /\ Kept(z, x) /\ z.terms = Terms0(job, t + 1) /\ ~z.twice
    BY <1>1, <1>5, <2>2, AnaOdd0OK DEF z
  <2> QED BY <1>1, <1>5, <2>1, <2>3 DEF Stored0OK, Counts, Kept, t
<1>6. x.l = job.llim + 1 \/ x.l = job.llim
  BY <1>1, <1>2
<1> QED BY <1>3, <1>4, <1>5, <1>6

(* A block of order 0 starts with the terms of the first degrees. *)
LEMMA Start0Keeps ==
  ASSUME job \in Jobs, im = 0, alm = AlmRow(0), job.llim > 0
  PROVE  Sum0OK(job, IF Synth THEN Which(FlySynStart0, FlyOneSynStart0, OmpSynStart0, MicSynStart0)
                     ELSE Which(FlyAnaStart0, FlyOneAnaStart0, OmpAnaStart0, MicAnaStart0))
<1>1. job.one \in BOOLEAN /\ job.magic \in BOOLEAN /\ (job.one => job.kern = "fly")
  BY JobFacts
<1>2. job.llim \in 0..LMAX /\ LMAX \in Nat /\ alm = 0 /\ MRES \in Nat
  BY JobFacts, SizesAssumption DEF AlmRow
<1>3. ASSUME NEW l \in {1, 2}, NEW n \in BOOLEAN, NEW b, b = Begin0(l, 2, n)
      PROVE  /\ b \in RegType /\ b.l = l /\ b.al = 2 /\ b.ny = 0 /\ b.half = 2 /\ b.terms = {}
             /\ b.y0 = 0 /\ b.d0 = 0 /\ b.y1 = 1 /\ b.d1 = 1 /\ ~b.twice
             /\ b.weight = ~SynthOf(job) /\ (b.nphi <=> n)
  <2> DEFINE g == (job.dir = "analys")
  <2>1. g \in BOOLEAN /\ g = ~SynthOf(job)
    BY JobFacts DEF SynthOf
  <2>2. Registers \in RegType
    BY ZeroExp, SizesAssumption DEF Registers, RegType, Wrong
  <2> HIDE DEF g
  <2>3. b = [Registers EXCEPT !.l = l, !.al = 2, !.half = 2, !.nphi = n, !.y0 = 0, !.d0 = 0,
               !.y1 = 1, !.d1 = 1, !.first = 0, !.sinV = 1, !.weight = g]
    <3> DEFINE o == alm + 2
               u == IF alm = AlmRow(0) THEN 0 ELSE Wrong
               v == IF alm = AlmRow(0) THEN 1 ELSE Wrong
    <3>1. o = 2 /\ u = 0 /\ v = 1
      BY <1>2
    <3> HIDE DEF o, u, v
    <3>2. b = [Registers EXCEPT !.l = l, !.al = o, !.half = 2, !.nphi = n, !.y0 = u, !.d0 = 0,
                 !.y1 = v, !.d1 = 1, !.first = 0, !.sinV = 1, !.weight = g]
      BY <1>3 DEF Begin0, g, o, u, v
    <3> QED BY <3>1, <3>2
  <2>4. b.l = l /\ b.al = 2 /\ b.ny = 0 /\ b.half = 2 /\ b.terms = {}
    BY <2>3 DEF Registers
  <2>5. b.y0 = 0 /\ b.d0 = 0 /\ b.y1 = 1 /\ b.d1 = 1
    BY <2>3 DEF Registers
  <2>6. ~b.twice
    BY <2>3 DEF Registers
  <2>7. b.nphi <=> n
    BY <2>3 DEF Registers
  <2>8. b.weight = ~SynthOf(job)
    BY <2>1, <2>3 DEF Registers
  <2> DEFINE b1 == [Registers EXCEPT !.l = l, !.al = 2, !.half = 2]
             b2 == [b1 EXCEPT !.nphi = n]
             b3 == [b2 EXCEPT !.y0 = 0, !.d0 = 0, !.y1 = 1]
             b4 == [b3 EXCEPT !.d1 = 1, !.first = 0, !.sinV = 1]
             b5 == [b4 EXCEPT !.weight = g]
  <2>9. b1 \in RegType
    <3>1. l \in 0..(LMAX + 2) /\ 2 \in Int /\ 2 \in Nat
      BY <1>2
    <3> DEFINE k == 2
    <3>2. k \in Int /\ k \in Nat
      OBVIOUS
    <3> HIDE DEF k
    <3>3. [Registers EXCEPT !.l = l, !.al = k, !.half = k] \in RegType
      BY <2>2, <3>1, <3>2 DEF RegType
    <3> QED BY <3>3 DEF k, b1
  <2>10. b = b5
    BY <2>3
  <2> HIDE DEF b1
  <2>11. b2 \in RegType
    BY <2>9 DEF RegType
  <2> HIDE DEF b2
  <2>12. b3 \in RegType
    <3> DEFINE k == 0  i == 1
    <3>1. k \in Int /\ i \in Int
      OBVIOUS
    <3> HIDE DEF k, i
    <3>2. [b2 EXCEPT !.y0 = k, !.d0 = k, !.y1 = i] \in RegType
      BY <2>11, <3>1 DEF RegType
    <3> QED BY <3>2 DEF k, i
  <2> HIDE DEF b3
  <2>13. b4 \in RegType
    <3> DEFINE k == 0  i == 1
    <3>1. k \in 0..(LMAX + 1) /\ i \in Int
      BY <1>2
    <3> HIDE DEF k, i
    <3>2. [b3 EXCEPT !.d1 = i, !.first = k, !.sinV = i] \in RegType
      BY <2>12, <3>1 DEF RegType
    <3> QED BY <3>2 DEF k, i
  <2> HIDE DEF b4
  <2>14. b5 \in RegType
    BY <2>1, <2>13 DEF RegType
  <2> QED BY <2>4, <2>5, <2>6, <2>7, <2>8, <2>10, <2>14
<1>4. CASE SynthOf(job)
  <2> DEFINE c == Begin0(2, 2, FALSE)
             b == [c EXCEPT !.sinV = IF job.magic THEN 2 ELSE 1]
             x == Add(b, "Q", 0, 0, 0)
             y == Add(Add(x, "Q", 1, 1, 1), "V", 1, 1, 0)
  <2> HIDE DEF c
  <2>1. /\ c \in RegType /\ c.l = 2 /\ c.al = 2 /\ c.ny = 0 /\ c.half = 2 /\ c.terms = {}
        /\ c.y0 = 0 /\ c.d0 = 0 /\ c.y1 = 1 /\ c.d1 = 1 /\ ~c.twice
        /\ c.weight = ~SynthOf(job) /\ ~c.nphi
    BY <1>3 DEF c
  <2> DEFINE s == IF job.magic THEN 2 ELSE 1
  <2>2. s \in Int /\ b = [c EXCEPT !.sinV = s]
    OBVIOUS
  <2> HIDE DEF s, b
  <2>3. /\ b \in RegType /\ b.l = 2 /\ b.al = 2 /\ b.ny = 0 /\ b.half = 2 /\ b.terms = {}
        /\ b.y0 = 0 /\ b.d0 = 0 /\ b.y1 = 1 /\ b.d1 = 1
    BY <2>1, <2>2 DEF RegType
  <2>4. ~b.twice /\ b.weight = ~SynthOf(job)
    BY <2>1, <2>2 DEF RegType
  <2>5. ~b.nphi
    BY <2>1, <2>2 DEF RegType
  <2>6. Counts(job, b) /\ "Q" \in {"Q", "V"} /\ 0 \in Int
    BY <2>3, <2>4 DEF Counts
  <2> HIDE DEF x
  <2>7. Added(job, x, b, "Q", 0, 0, 0)
    <3>1. x = Add(b, "Q", 0, 0, 0)
      BY DEF x
    <3> QED BY <2>3, <2>6, <3>1, OneTerm, Zenon
  <2>8. x.terms = Terms0(job, 1) /\ ~x.twice
    <3>1. 0 # Pad
      BY DEF Pad
    <3>2. Terms0(job, 1) = IF HasOf(job, "Q") THEN {<<"Q", 0, 0, 0>>} ELSE {}
      <4>1. {l \in 0..job.llim : l < 1 /\ HasOf(job, "Q")} = IF HasOf(job, "Q") THEN {0} ELSE {}
        BY <1>2
      <4>2. {l \in 1..job.llim : l < 1 /\ HasOf(job, "V")} = {}
        BY <1>2
      <4> QED BY <1>4, <4>1, <4>2 DEF Terms0
    <3> QED BY <2>3, <2>4, <2>7, <3>1, <3>2 DEF Added
  <2>9. x \in RegType /\ Kept(x, b) /\ SameY(x, b) /\ Counts(job, x)
    BY <2>6, <2>7 DEF Added, Counts, Kept
  <2> HIDE DEF y
  <2>10. /\ y \in RegType /\ Kept(y, x) /\ SameY(y, x)
         /\ y.terms = Terms0(job, 2) /\ ~y.twice
    <3> DEFINE t == 1
    <3>1. y = Add(Add(x, "Q", t, t, t), "V", t, t, 0) /\ t \in Nat /\ t >= 1 /\ t = t % 2
          /\ 0 = (t + 1) % 2 /\ t + 1 = 2
      BY DEF y
    <3>2. t <= job.llim /\ x.terms = Terms0(job, t)
      BY <1>2, <2>8
    <3> HIDE DEF t
    <3> QED BY <2>8, <2>9, <3>1, <3>2, BothTerms0
  <2>11. SynStart0 = y
    <3>1. Ql0(0) = 0 /\ Ql0(1) = 1 /\ Sl0(0) = 1
      BY <1>2 DEF Ql0, Sl0, Packed0
    <3>2. x.y1 = 1 /\ x.d1 = 1
      BY <2>3, <2>9 DEF SameY
    <3>3. SynStart0 = Add(Add(x, "Q", x.y1, 1, 1), "V", x.d1, 1, 0)
      BY <3>1 DEF SynStart0, x, b, c
    <3> QED BY <3>2, <3>3 DEF y
  <2>12. /\ y.l = 2 /\ y.al = 2 /\ y.half = 2 /\ y.y0 = 0 /\ y.d0 = 0 /\ y.y1 = 1 /\ y.d1 = 1
         /\ Counts(job, y) /\ ~y.nphi
    BY <2>3, <2>5, <2>9, <2>10 DEF Kept, SameY, Counts
  <2>13. Sum0OK(job, y)
    BY <1>2, <1>4, <2>10, <2>12 DEF Sum0OK, BaseOf
  <2> QED BY <1>4, <2>11, <2>13
          DEF Synth, SynthOf, Which, FlySynStart0, FlyOneSynStart0, OmpSynStart0, MicSynStart0
<1>5. CASE ~SynthOf(job)
  <2>1. ASSUME NEW n \in BOOLEAN, n <=> job.one
        PROVE  Sum0OK(job, Begin0(1, 2, n))
    <3> DEFINE b == Begin0(1, 2, n)
    <3> HIDE DEF b
    <3>1. /\ b \in RegType /\ b.l = 1 /\ b.al = 2 /\ b.ny = 0 /\ b.half = 2 /\ b.terms = {}
          /\ b.y0 = 0 /\ b.d0 = 0 /\ b.y1 = 1 /\ b.d1 = 1 /\ ~b.twice
          /\ b.weight = ~SynthOf(job) /\ (b.nphi <=> n)
      BY <1>3 DEF b
    <3>2. Terms0(job, 1) = {}
      <4>1. {l \in 1..job.llim : l < 1 /\ HasOf(job, "Q")} = {}
        BY <1>2
      <4>2. {l \in 1..job.llim : l < 1 /\ HasOf(job, "V")} = {}
        BY <1>2
      <4> QED BY <1>5, <4>1, <4>2 DEF Terms0
    <3>3. Counts(job, b)
      BY <3>1 DEF Counts
    <3>4. BaseOf(job, b) = 0
      BY <1>5, <3>1 DEF BaseOf
    <3>5. b.nphi <=> job.one /\ ~SynthOf(job)
      BY <1>5, <2>1, <3>1
    <3>6. Sum0OK(job, b)
      BY <1>2, <3>1, <3>2, <3>3, <3>4, <3>5 DEF Sum0OK
    <3> QED BY <3>6 DEF b
  <2>2. CASE job.one
    <3>1. Sum0OK(job, Begin0(1, 2, TRUE))
      BY <2>1, <2>2
    <3> QED BY <1>5, <2>2, <3>1 DEF Synth, SynthOf, Which, FlyOneAnaStart0
  <2>3. CASE ~job.one
    <3>1. Sum0OK(job, Begin0(1, 2, FALSE))
      BY <2>1, <2>3
    <3> QED BY <1>5, <2>3, <3>1 DEF Synth, SynthOf, Which, FlyAnaStart0, OmpAnaStart0, MicAnaStart0
  <2> QED BY <1>1, <2>2, <2>3
<1> QED BY <1>4, <1>5

-----------------------------------------------------------------------------
(* What a kernel sets at the start of an order.                            *)

(* The order's row of coefficients is found from the row before, or from the order. *)
LEMMA RowFound ==
  ASSUME im \in 0..MMAX, im > 0
  PROVE  /\ AlmRow(im) \in Nat
         /\ AlmRow(im - 1) + 2 * (LMAX + 1 - m + MRES) = AlmRow(im)
         /\ im * (2 * (LMAX + 1) - m) + m = AlmRow(im)
         /\ im * (2 * (LMAX + 1) - m + MRES) = AlmRow(im)
         /\ 2 * ((im * (2 * (LMAX + 1) - (m + MRES))) \div 2 + m) = AlmRow(im)
<1>1. im \in Nat /\ im - 1 \in 0..MMAX /\ LMAX \in Nat /\ MRES \in Nat
  BY Products
<1>2. AlmRow(im) = 2 * Before[im] /\ AlmRow(im) = im * (2 * (LMAX + 1) - (im - 1) * MRES)
      /\ AlmRow(im - 1) = 2 * Before[im - 1] /\ Before[im] \in Nat /\ Before[im - 1] \in Nat
  BY <1>1, Rows DEF AlmRow
<1>3. Before[im] = Before[im - 1] + LMAX - (im - 1) * MRES + 1
  BY <1>1, BeforeIs
<1>4. m = im * MRES /\ m \in Nat /\ (im - 1) * MRES = m - MRES
  BY <1>1 DEF m
<1>5. AlmRow(im - 1) + 2 * (LMAX + 1 - m + MRES) = AlmRow(im)
  BY <1>1, <1>2, <1>3, <1>4
<1>6. im * (2 * (LMAX + 1) - m + MRES) = AlmRow(im)
  BY <1>1, <1>2, <1>4
<1>7. im * (2 * (LMAX + 1) - m + MRES) = im * (2 * (LMAX + 1) - m) + im * MRES
  BY <1>1, <1>4
<1>8. im * (2 * (LMAX + 1) - m) + m = AlmRow(im)
  <2>1. im * (2 * (LMAX + 1) - m) \in Int
    BY <1>1, <1>4
  <2> QED BY <1>4, <1>6, <1>7, <2>1
<1>9. (im * (2 * (LMAX + 1) - (m + MRES))) \div 2 = Before[im] - m
  <2>1. LiM(0, im) = Before[im] - m
    BY <1>2, <1>4, Places DEF Pos
  <2>2. LiM(0, im) = (im * (2 * LMAX + 2 - (im + 1) * MRES)) \div 2 + 0
    BY DEF LiM
  <2>3. 2 * LMAX + 2 - (im + 1) * MRES = 2 * (LMAX + 1) - (m + MRES)
    BY <1>1, <1>4
  <2> DEFINE a == im * (2 * (LMAX + 1) - (m + MRES))
  <2>4. a \in Int /\ LiM(0, im) = a \div 2 + 0
    BY <1>1, <1>4, <2>2, <2>3
  <2> HIDE DEF a
  <2>5. a \div 2 = Before[im] - m
    BY <1>2, <1>4, <2>1, <2>4
  <2> QED BY <2>5 DEF a
<1>10. 2 * ((im * (2 * (LMAX + 1) - (m + MRES))) \div 2 + m) = AlmRow(im)
  BY <1>2, <1>4, <1>9
<1> QED BY <1>2, <1>5, <1>6, <1>8, <1>10

(* The factors of a conversion start where the order's coefficients do. *)
LEMMA InputFound ==
  ASSUME job \in Jobs, im \in 0..MMAX, im > 0, m <= job.llim, HasOf(job, "V"),
         NEW b, b = 2 * LiM(0, im)
  PROVE  VectorInput(b) = [l \in m..(job.llim + 1) |-> MixOf(im, l, job.llim)]
<1>1. m \in Nat /\ job.llim \in Nat /\ m = im * MRES
  BY OrderFacts, JobFacts, SizesAssumption DEF m
<1>2. \A l \in Int : Pos(im, l) = LiM(0, im) + l /\ LiM(0, im) \in Int
  <2>1. LiM(0, im) = Before[im] - im * MRES + 0 /\ Before[im] \in Nat /\ im * MRES \in Nat
    BY <1>1, Places, Rows
  <2>2. \A l \in Int : Pos(im, l) = Before[im] - im * MRES + l
    BY Places
  <2> QED BY <2>1, <2>2
<1>3. VectorInput(b) = [l \in m..(job.llim + 1) |-> Converted(b, l)]
  BY DEF VectorInput, Has, HasOf
<1>4. ASSUME NEW l \in m..(job.llim + 1) PROVE Converted(b, l) = MixOf(im, l, job.llim)
  <2>1. l \in Int /\ l - 1 \in Int /\ b + 2 * l = 2 * Pos(im, l) /\ b + 2 * (l - 1) + 1 = 2 * Pos(im, l - 1) + 1
    BY <1>1, <1>2
  <2>2. (l < job.llim <=> l + 1 <= job.llim) /\ (l > m <=> l - 1 >= im * MRES)
    BY <1>1
  <2>3. CASE l < job.llim /\ l > m
    BY <2>1, <2>2, <2>3 DEF Converted, MixOf
  <2>4. CASE l < job.llim /\ ~(l > m)
    BY <2>1, <2>2, <2>4 DEF Converted, MixOf
  <2>5. CASE ~(l < job.llim) /\ l > m
    BY <2>1, <2>2, <2>5 DEF Converted, MixOf
  <2>6. CASE ~(l < job.llim) /\ ~(l > m)
    BY <2>1, <2>2, <2>6 DEF Converted, MixOf
  <2> QED BY <2>3, <2>4, <2>5, <2>6
<1> QED BY <1>3, <1>4

(* Every kernel finds the row of its order, its coefficients and its accumulators. *)
LEMMA OrderSets ==
  ASSUME job \in Jobs, im \in 0..MMAX, im > 0, m <= job.llim, job.one => job.kern = "fly",
         ~job.one /\ job.kern = "fly" => alm = AlmRow(im - 1), OrderM
  PROVE  alm' = AlmRow(im) /\ PlaceOK(job, im, co', vw', cleared')
<1>1. job.one \in BOOLEAN /\ job.kern \in {"fly", "omp", "mic"}
  BY JobFacts
<1>2. m = im * MRES /\ m \in Nat /\ job.llim \in Nat /\ LMAX \in Nat
  BY OrderFacts, JobFacts, SizesAssumption DEF m
<1>3. LiM(0, im) = (im * (2 * (LMAX + 1) - (m + MRES))) \div 2 /\ LiM(0, im) \in Int
      /\ LiM(m, im) = LiM(0, im) + m
  <2>1. LiM(0, im) \in Int /\ LiM(m, im) = LiM(0, im) + m
    BY <1>2, Places, Rows DEF Pos
  <2>2. 2 * LMAX + 2 - (im + 1) * MRES = 2 * (LMAX + 1) - (m + MRES)
    BY <1>2, Products
  <2>3. LiM(0, im) = (im * (2 * (LMAX + 1) - (m + MRES))) \div 2 + 0
    BY <2>2 DEF LiM
  <2> DEFINE a == (im * (2 * (LMAX + 1) - (m + MRES))) \div 2
  <2>4. a \in Int
    <3>1. im * (2 * (LMAX + 1) - (m + MRES)) \in Int
      BY <1>2, Products
    <3> QED BY <3>1
  <2> HIDE DEF a
  <2>5. LiM(0, im) = a
    BY <2>3, <2>4 DEF a
  <2> QED BY <2>1, <2>5 DEF a
<1>4. CASE SynthOf(job)
  <2>1. CASE job.one
    <3> DEFINE l == im * (2 * (LMAX + 1) - m)
    <3>1. alm' = l + m /\ co' = -m /\ vw' = VectorInput(l - m)
      BY <1>4, <2>1 DEF OrderM, Synth, SynthOf, Which, FlyOneSynOrder
    <3>2. l + m = AlmRow(im) /\ l - m = 2 * LiM(0, im)
      <4>1. l + m = AlmRow(im) /\ AlmRow(im) = 2 * Before[im] /\ Before[im] \in Nat
        BY RowFound, Rows
      <4>2. LiM(0, im) = Before[im] - m /\ l \in Int
        BY <1>2, Places, Rows, Products DEF Pos
      <4> HIDE DEF l
      <4> QED BY <1>2, <4>1, <4>2
    <3>3. HasOf(job, "V") => VectorInput(l - m) = [d \in m..(job.llim + 1) |-> MixOf(im, d, job.llim)]
      BY <3>2, InputFound
    <3> HIDE DEF l
    <3>4. PlaceOK(job, im, co', vw', cleared')
      BY <1>2, <1>4, <2>1, <3>1, <3>3 DEF PlaceOK
    <3> QED BY <3>1, <3>2, <3>4
  <2>2. CASE ~job.one /\ job.kern = "fly"
    <3>1. alm' = alm + 2 * (LMAX + 1 - m + MRES) /\ co' = LiM(0, im) /\ vw' = VectorInput(2 * LiM(0, im))
      BY <1>3, <1>4, <2>2 DEF OrderM, Synth, SynthOf, Which, FlySynOrder
    <3>2. alm' = AlmRow(im)
      BY <2>2, <3>1, RowFound
    <3>3. HasOf(job, "V") => vw' = [d \in m..(job.llim + 1) |-> MixOf(im, d, job.llim)]
      BY <3>1, InputFound
    <3>4. PlaceOK(job, im, co', vw', cleared')
      BY <1>2, <1>4, <2>2, <3>1, <3>3 DEF PlaceOK
    <3> QED BY <3>2, <3>4
  <2>3. CASE ~job.one /\ job.kern # "fly"
    <3>1. alm' = 2 * (LiM(0, im) + m) /\ co' = LiM(0, im) /\ vw' = VectorInput(2 * LiM(0, im))
      BY <1>1, <1>3, <1>4, <2>3 DEF OrderM, Synth, SynthOf, Which, OmpSynOrder, MicSynOrder
    <3>2. alm' = AlmRow(im)
      BY <1>3, <3>1, RowFound
    <3>3. HasOf(job, "V") => vw' = [d \in m..(job.llim + 1) |-> MixOf(im, d, job.llim)]
      BY <3>1, InputFound
    <3>4. PlaceOK(job, im, co', vw', cleared')
      BY <1>2, <1>4, <2>3, <3>1, <3>3 DEF PlaceOK
    <3> QED BY <3>2, <3>4
  <2> QED BY <1>1, <2>1, <2>2, <2>3
<1>5. CASE ~SynthOf(job)
  <2>0. LiM(m, im) - m = LiM(0, im)
    BY <1>2, <1>3
  <2>1. CASE job.one
    <3>1. alm' = im * (2 * (LMAX + 1) - m + MRES) /\ co' = -m /\ cleared' = 0..(job.llim - m)
      BY <1>5, <2>1 DEF OrderM, Synth, SynthOf, Which, FlyOneAnaOrder
    <3> QED BY <1>2, <1>5, <2>1, <3>1, RowFound DEF PlaceOK
  <2>2. CASE ~job.one /\ job.kern = "fly"
    <3>1. /\ alm' = alm + 2 * (LMAX + 1 - m + MRES) /\ co' = LiM(0, im)
          /\ cleared' = 0..(job.llim + 1 - m)
      BY <1>5, <2>0, <2>2 DEF OrderM, Synth, SynthOf, Which, FlyAnaOrder
    <3> QED BY <1>2, <1>5, <2>2, <3>1, RowFound DEF PlaceOK
  <2>3. CASE ~job.one /\ job.kern # "fly"
    <3>1. /\ alm' = im * (2 * (LMAX + 1) - m + MRES) /\ co' = LiM(0, im)
          /\ cleared' = 0..(job.llim + 1 - m)
      <4>1. job.llim - m + 1 = job.llim + 1 - m
        BY <1>2
      <4> QED BY <1>1, <1>5, <2>0, <2>3, <4>1 DEF OrderM, Synth, SynthOf, Which, OmpAnaOrder, MicAnaOrder
    <3> QED BY <1>2, <1>5, <2>3, <3>1, RowFound DEF PlaceOK
  <2> QED BY <1>1, <2>1, <2>2, <2>3
<1> QED BY <1>4, <1>5

-----------------------------------------------------------------------------
(* The orders a thread takes.                                              *)

(* A greater multiple is greater by at least the factor. *)
LEMMA Multiples ==
  ASSUME NEW n \in Nat, NEW k \in Nat, NEW l \in Nat, k < l
  PROVE  k * n + n <= l * n
<1> DEFINE d == l - k - 1
<1>1. d \in Nat
  OBVIOUS
<1> HIDE DEF d
<1>2. d * n \in Nat
  BY <1>1
<1> QED BY <1>2 DEF d

(* The last order is the last one with a degree up to llim. *)
LEMMA LastOrder ==
  ASSUME job \in Jobs
  PROVE  /\ imlim \in 0..MMAX
         /\ \A i \in 0..MMAX : i <= imlim <=> i * MRES <= job.llim
<1>1. job.llim \in 0..LMAX /\ LMAX \in Nat /\ MMAX \in Nat /\ MRES \in Nat \ {0}
  BY JobFacts, Products
<1>2. CASE ~(MMAX * MRES > job.llim)
  <2>1. imlim = MMAX
    BY <1>2 DEF imlim
  <2>2. ASSUME NEW i \in 0..MMAX PROVE i * MRES <= job.llim
    <3>1. CASE i < MMAX
      <4>1. i * MRES + MRES <= MMAX * MRES
        BY <1>1, <3>1, Multiples
      <4>2. i * MRES \in Nat /\ MMAX * MRES \in Nat
        BY <1>1
      <4> QED BY <1>1, <1>2, <4>1, <4>2
    <3>2. CASE i = MMAX
      <4>1. MMAX * MRES \in Nat
        BY <1>1
      <4> QED BY <1>1, <1>2, <3>2, <4>1
    <3> QED BY <1>1, <3>1, <3>2
  <2> QED BY <1>1, <2>1, <2>2
<1>3. CASE MMAX * MRES > job.llim
  <2> DEFINE q == job.llim \div MRES
  <2>1. imlim = q
    BY <1>3 DEF imlim
  <2>2. q \in Nat /\ q * MRES <= job.llim /\ job.llim < q * MRES + MRES
    BY <1>1
  <2> HIDE DEF q
  <2>3. ASSUME NEW i \in Nat PROVE i <= q <=> i * MRES <= job.llim
    <3>1. CASE i < q
      <4>1. i * MRES + MRES <= q * MRES /\ i * MRES \in Nat /\ q * MRES \in Nat
        BY <1>1, <2>2, <3>1, Multiples
      <4> QED BY <1>1, <2>2, <3>1, <4>1
    <3>2. CASE i = q
      BY <2>2, <3>2
    <3>3. CASE q < i
      <4>1. q * MRES + MRES <= i * MRES /\ i * MRES \in Nat /\ q * MRES \in Nat
        BY <1>1, <2>2, <3>3, Multiples
      <4> QED BY <1>1, <2>2, <3>3, <4>1
    <3> QED BY <2>2, <3>1, <3>2, <3>3
  <2>4. q <= MMAX
    BY <1>1, <1>3, <2>2, <2>3
  <2> QED BY <1>1, <2>1, <2>2, <2>3, <2>4
<1> QED BY <1>2, <1>3

-----------------------------------------------------------------------------
(* The invariant of a kernel, but for the results of an analysis.          *)

(* Order i is one of those that thread t of job j takes. *)
Share(j, t, i) == \E k \in 0..i : i = t + k * j.nth

(* Which order the call is at. *)
OrderInv ==
  /\ job \in Jobs /\ im \in 0..MMAX /\ th \in 0..im /\ blk \in 1..Blocks
  /\ pc \in {"order", "start", "skip", "sum", "stored", "finish", "next", "done"}
  /\ im * MRES <= job.llim
  /\ job.one => im = job.im /\ th = 0
  /\ ~job.one => th < job.nth /\ Share(job, th, im)

(* Where the order's tables are. *)
RowInv ==
  /\ alm \in Nat /\ co \in Int /\ cleared \subseteq 0..(LMAX + 1)
  /\ pc = "order" /\ ~job.one /\ job.kern = "fly" /\ im > 0 => alm = AlmRow(im - 1)
  /\ pc # "order" => alm = AlmRow(im) /\ PlaceOK(job, im, co, vw, cleared)

(* How far the block is. *)
BlockInv ==
  /\ r \in RegType
  /\ pc = "skip" => im > 0 /\ SkipOK(job, im * MRES, alm, r)
  /\ pc = "sum" => IF im > 0 THEN SumOK(job, im * MRES, alm, r) ELSE Sum0OK(job, r)
  /\ pc = "stored" => IF im > 0 THEN StoredOK(job, r) ELSE Stored0OK(job, r)

CoreInv == OrderInv /\ RowInv /\ BlockInv

(* The invariant holds at the start of a call. *)
LEMMA InitCore ==
  ASSUME Callable, Init
  PROVE  CoreInv
<1>1. /\ job \in Jobs /\ th = 0 /\ im = (IF job.one THEN job.im ELSE 0) /\ blk = 1 /\ pc = "order"
      /\ alm = 0 /\ co = 0 /\ r = Registers /\ cleared = {}
  BY DEF Init
<1>2. /\ job.llim \in 0..LMAX /\ job.im \in 0..MMAX /\ job.nth \in Nat \ {0}
      /\ job.im * MRES <= job.llim /\ job.one \in BOOLEAN
  BY <1>1, JobFacts
<1>3. MMAX \in Nat /\ LMAX \in Nat /\ 0 * MRES = 0 /\ Blocks \in Nat \ {0}
  BY SizesAssumption
<1>4. OrderInv
  <2>1. CASE job.one
    BY <1>1, <1>2, <1>3, <2>1 DEF OrderInv
  <2>2. CASE ~job.one
    <3>1. Share(job, 0, 0)
      <4>1. 0 \in 0..0 /\ 0 = 0 + 0 * job.nth
        BY <1>2
      <4> QED BY <4>1 DEF Share
    <3> QED BY <1>1, <1>2, <1>3, <2>2, <3>1 DEF OrderInv
  <2> QED BY <2>1, <2>2
<1>5. RowInv
  BY <1>1, <1>3 DEF RowInv
<1>6. r \in RegType
  BY <1>1, ZeroExp, SizesAssumption DEF Registers, RegType, Wrong
<1>7. BlockInv
  BY <1>1, <1>6 DEF BlockInv
<1> QED BY <1>4, <1>5, <1>7 DEF CoreInv

(* Every step keeps the invariant. *)
LEMMA NextCore ==
  ASSUME Callable, CoreInv, [Next]_vars
  PROVE  CoreInv'
<1>1. /\ job \in Jobs /\ im \in 0..MMAX /\ th \in 0..im /\ blk \in 1..Blocks
      /\ im * MRES <= job.llim
      /\ job.one => im = job.im /\ th = 0
      /\ ~job.one => th < job.nth /\ Share(job, th, im)
  BY DEF CoreInv, OrderInv
<1>2. /\ alm \in Nat /\ co \in Int /\ cleared \subseteq 0..(LMAX + 1)
      /\ pc = "order" /\ ~job.one /\ job.kern = "fly" /\ im > 0 => alm = AlmRow(im - 1)
      /\ pc # "order" => alm = AlmRow(im) /\ PlaceOK(job, im, co, vw, cleared)
  BY DEF CoreInv, RowInv
<1>3. /\ r \in RegType
      /\ pc = "skip" => im > 0 /\ SkipOK(job, m, alm, r)
      /\ pc = "sum" => IF im > 0 THEN SumOK(job, m, alm, r) ELSE Sum0OK(job, r)
      /\ pc = "stored" => IF im > 0 THEN StoredOK(job, r) ELSE Stored0OK(job, r)
  BY DEF CoreInv, BlockInv, m
<1>4. /\ job.llim \in 0..LMAX /\ job.im \in 0..MMAX /\ job.nth \in Nat \ {0}
      /\ job.one \in BOOLEAN /\ job.kern \in {"fly", "omp", "mic"}
      /\ (job.one => job.kern = "fly") /\ (job.kern = "fly" => job.nth = 1)
      /\ job.llim > 0
  BY <1>1, JobFacts DEF Callable
<1>5. MMAX \in Nat /\ LMAX \in Nat /\ Blocks \in Nat \ {0} /\ im \in Nat /\ m = im * MRES /\ m \in 0..LMAX
  BY <1>1, OrderFacts, SizesAssumption DEF m
<1>6. ASSUME job' = job, im' = im, th' = th, blk' \in 1..Blocks,
             pc' \in {"order", "start", "skip", "sum", "stored", "finish", "next", "done"}
      PROVE  OrderInv'
  BY <1>1, <1>6 DEF OrderInv
<1>7. ASSUME job' = job, im' = im, alm' = alm, co' = co, vw' = vw, cleared' = cleared,
             pc # "order", pc' # "order"
      PROVE  RowInv'
  BY <1>2, <1>7 DEF RowInv
<1>8. CASE Order0
  <2>1. /\ pc' = "start" /\ im = 0 /\ alm' = 0 /\ co' = 0
        /\ cleared' = IF Synth THEN cleared ELSE 0..(job.llim - 1)
        /\ UNCHANGED <<job, th, im, blk, vw, r, out>>
    BY <1>8 DEF Order0
  <2>2. AlmRow(0) = 0 /\ LiM(0, 0) = 0 /\ -(im * MRES) = 0
    <3>1. 0 \in 0..MMAX
      BY <1>5
    <3>2. Before[0] = 0
      BY <3>1, BeforeIs
    <3>3. LiM(0, 0) = Before[0] - 0 * MRES + 0
      BY <3>1, Places
    <3>4. AlmRow(0) = 0
      BY SizesAssumption DEF AlmRow
    <3>5. 0 * MRES = 0
      BY SizesAssumption
    <3>6. \A x \in Int : x >= 0 /\ x <= 0 => -x = 0
      OBVIOUS
    <3>7. im * MRES \in Int /\ im * MRES >= 0 /\ im * MRES <= 0
      BY <2>1, <3>5
    <3> QED BY <3>2, <3>3, <3>4, <3>5, <3>6, <3>7
  <2>3. PlaceOK(job, im, co', vw', cleared')
    BY <2>1, <2>2 DEF PlaceOK, Synth, SynthOf
  <2>4. cleared' \subseteq 0..(LMAX + 1)
    <3>1. 0..(job.llim - 1) \subseteq 0..(LMAX + 1)
      BY <1>4, <1>5
    <3> QED BY <1>2, <2>1, <3>1
  <2>5. RowInv'
    BY <2>1, <2>2, <2>3, <2>4 DEF RowInv
  <2>6. BlockInv'
    BY <1>3, <2>1 DEF BlockInv
  <2> QED BY <1>1, <1>6, <2>1, <2>5, <2>6 DEF CoreInv
<1>9. CASE OrderM
  <2>1. pc = "order" /\ pc' = "start" /\ im > 0 /\ UNCHANGED <<job, th, im, blk, r, out>>
    BY <1>9 DEF OrderM
  <2>2. alm' = AlmRow(im) /\ PlaceOK(job, im, co', vw', cleared')
    BY <1>1, <1>2, <1>4, <1>5, <1>9, <2>1, OrderSets
  <2>3. alm' \in Nat
    BY <1>1, <2>1, <2>2, RowFound
  <2>4. co' \in Int
    <3>1. LiM(0, im) \in Int /\ -(im * MRES) \in Int
      BY <1>1, <1>5, Places
    <3> QED BY <2>2, <3>1 DEF PlaceOK
  <2>5. cleared' \subseteq 0..(LMAX + 1)
    <3>1. CASE SynthOf(job)
      <4>1. cleared' = cleared
        BY <2>1, <1>9, <3>1 DEF OrderM, Synth, SynthOf
      <4> QED BY <1>2, <4>1
    <3>2. CASE ~SynthOf(job)
      <4>1. cleared' = IF job.one THEN 0..(job.llim - im * MRES) ELSE 0..(job.llim + 1 - im * MRES)
        BY <2>1, <2>2, <3>2 DEF PlaceOK
      <4> QED BY <1>4, <1>5, <4>1
    <3> QED BY <3>1, <3>2
  <2>6. RowInv'
    BY <2>1, <2>2, <2>3, <2>4, <2>5 DEF RowInv
  <2>7. BlockInv'
    BY <1>3, <2>1 DEF BlockInv
  <2> QED BY <1>1, <1>6, <2>1, <2>6, <2>7 DEF CoreInv
<1>10. CASE Start
  <2>1. pc = "start" /\ UNCHANGED <<job, th, im, blk, alm, co, vw, cleared, out>>
    BY <1>10 DEF Start
  <2>2. alm = AlmRow(im)
    BY <1>2, <2>1
  <2>3. CASE im = 0
    <3>1. pc' = "sum" /\ Sum0OK(job, r')
      BY <1>1, <1>4, <1>10, <2>2, <2>3, Start0Keeps DEF Start
    <3>2. BlockInv'
      BY <1>5, <2>1, <2>3, <3>1 DEF BlockInv, Sum0OK
    <3> QED BY <1>1, <1>6, <1>7, <2>1, <3>1, <3>2 DEF CoreInv
  <2>4. CASE im # 0
    <3>1. pc' = "skip" /\ SkipOK(job, m, alm, r')
      <4>1. pc' = "skip"
        BY <1>10, <2>4 DEF Start
      <4>2. PICK ny \in Exponents :
               r' = IF Synth
                    THEN Which(FlySynStart(ny), FlyOneSynStart(ny), OmpSynStart(ny), MicSynStart(ny))
                    ELSE Which(FlyAnaStart(ny), FlyOneAnaStart(ny), OmpAnaStart(ny), MicAnaStart(ny))
        BY <1>10, <2>4 DEF Start
      <4>3. ny \in MinExp..0 /\ m <= job.llim
        BY <1>1, <1>5, ZeroExp
      <4> QED BY <1>1, <2>2, <4>1, <4>2, <4>3, StartKeeps
    <3>2. BlockInv'
      BY <1>5, <2>1, <2>4, <3>1 DEF BlockInv, SkipOK
    <3> QED BY <1>1, <1>6, <1>7, <2>1, <3>1, <3>2 DEF CoreInv
  <2> QED BY <2>3, <2>4
<1>11. CASE Skip
  <2>1. /\ pc = "skip" /\ r.ny < 0 /\ r.l < job.llim
        /\ UNCHANGED <<job, th, im, blk, pc, alm, co, vw, cleared, out>>
    BY <1>11 DEF Skip
  <2>2. PICK g \in BOOLEAN : r' = Climb(r, g)
    BY <1>11 DEF Skip
  <2>3. SkipOK(job, m, alm, r')
    BY <1>1, <1>2, <1>3, <2>1, <2>2, ClimbKeeps
  <2>4. BlockInv'
    BY <1>3, <1>5, <2>1, <2>3 DEF BlockInv, SkipOK
  <2> QED BY <1>1, <1>6, <1>7, <2>1, <2>4 DEF CoreInv
<1>12. CASE EndSkip
  <2>1. /\ pc = "skip" /\ pc' = (IF r.ny = 0 THEN "sum" ELSE "stored")
        /\ UNCHANGED <<job, th, im, blk, alm, co, vw, cleared, out>>
    BY <1>12 DEF EndSkip
  <2> DEFINE y == [r EXCEPT !.first = r.l]
  <2>2. r' = IF Synth \/ r.ny < 0 THEN y
             ELSE Which(FlyAnaWeigh(y), FlyOneAnaWeigh(y), OmpAnaWeigh(y), MicAnaWeigh(y))
    BY <1>12 DEF EndSkip
  <2> HIDE DEF y
  <2>3. (r.ny = 0 => SumOK(job, m, alm, r')) /\ (r.ny # 0 => StoredOK(job, r'))
    <3>1. y = [r EXCEPT !.first = r.l] /\ SkipOK(job, m, alm, r)
      BY <1>3, <2>1 DEF y
    <3> QED BY <1>1, <2>2, <3>1, EndSkipKeeps
  <2>4. BlockInv'
    <3>1. im > 0
      BY <1>3, <2>1
    <3>2. CASE r.ny = 0
      BY <1>5, <2>1, <2>3, <3>1, <3>2 DEF BlockInv, SumOK
    <3>3. CASE r.ny # 0
      BY <1>5, <2>1, <2>3, <3>1, <3>3 DEF BlockInv, StoredOK
    <3> QED BY <3>2, <3>3
  <2> QED BY <1>1, <1>6, <1>7, <2>1, <2>4 DEF CoreInv
<1>13. ASSUME pc = "sum"
       PROVE  Limit = IF im > 0 THEN LimitOf(job) ELSE job.llim
  BY <1>5 DEF Limit, LimitOf, Llim2, Synth, SynthOf, Has, HasOf
<1>14. CASE SumPair
  <2>1. /\ pc = "sum" /\ r.l < Limit /\ r' = Pair(r)
        /\ UNCHANGED <<job, th, im, blk, pc, alm, co, vw, cleared, out>>
    BY <1>14 DEF SumPair
  <2>2. CASE im > 0
    <3>1. SumOK(job, m, alm, r')
      BY <1>1, <1>2, <1>3, <1>13, <2>1, <2>2, PairKeeps
    <3>2. BlockInv'
      BY <1>3, <1>5, <2>1, <2>2, <3>1 DEF BlockInv, SumOK
    <3> QED BY <1>1, <1>6, <1>7, <2>1, <3>2 DEF CoreInv
  <2>3. CASE im = 0
    <3>1. Sum0OK(job, r')
      BY <1>1, <1>2, <1>3, <1>13, <2>1, <2>3, Pair0Keeps
    <3>2. BlockInv'
      BY <1>3, <1>5, <2>1, <2>3, <3>1 DEF BlockInv, Sum0OK
    <3> QED BY <1>1, <1>6, <1>7, <2>1, <3>2 DEF CoreInv
  <2> QED BY <1>5, <2>2, <2>3
<1>15. CASE SumTail
  <2>1. /\ pc = "sum" /\ r.l >= Limit /\ r' = Ending(r) /\ pc' = "stored"
        /\ UNCHANGED <<job, th, im, blk, alm, co, vw, cleared, out>>
    BY <1>15 DEF SumTail
  <2>2. CASE im > 0
    <3>1. StoredOK(job, r')
      BY <1>1, <1>2, <1>3, <1>13, <2>1, <2>2, TailKeeps
    <3>2. BlockInv'
      BY <1>3, <1>5, <2>1, <2>2, <3>1 DEF BlockInv, StoredOK
    <3> QED BY <1>1, <1>6, <1>7, <2>1, <3>2 DEF CoreInv
  <2>3. CASE im = 0
    <3>1. Stored0OK(job, r')
      BY <1>1, <1>2, <1>3, <1>13, <2>1, <2>3, Ending0Keeps
    <3>2. BlockInv'
      BY <1>3, <1>5, <2>1, <2>3, <3>1 DEF BlockInv, Stored0OK
    <3> QED BY <1>1, <1>6, <1>7, <2>1, <3>2 DEF CoreInv
  <2> QED BY <1>5, <2>2, <2>3
<1>16. CASE NextBlock
  <2>1. /\ pc = "stored" /\ blk' \in 1..Blocks /\ pc' \in {"start", "finish"}
        /\ UNCHANGED <<job, th, im, alm, co, vw, r, cleared, out>>
    BY <1>1, <1>5, <1>16 DEF NextBlock
  <2>2. BlockInv'
    BY <1>3, <2>1 DEF BlockInv
  <2> QED BY <1>1, <1>6, <1>7, <2>1, <2>2 DEF CoreInv
<1>17. CASE Finish
  <2>1. pc = "finish" /\ pc' = "next" /\ UNCHANGED <<job, th, im, blk, alm, co, vw, r, cleared>>
    BY <1>17 DEF Finish
  <2>2. BlockInv'
    BY <1>3, <2>1 DEF BlockInv
  <2> QED BY <1>1, <1>6, <1>7, <2>1, <2>2 DEF CoreInv
<1>18. CASE NextOrder
  <2>1. pc = "next" /\ UNCHANGED <<job, blk, alm, co, vw, r, cleared>>
    BY <1>18 DEF NextOrder
  <2>2. imlim \in 0..MMAX /\ \A i \in 0..MMAX : i <= imlim <=> i * MRES <= job.llim
    BY <1>1, LastOrder
  <2>3. CASE ~job.one /\ im + job.nth <= imlim /\ im' = im + job.nth /\ pc' = "order" /\ UNCHANGED <<th, out>>
    <3>1. im' \in 0..MMAX /\ im' * MRES <= job.llim /\ th' \in 0..im' /\ im' = im + job.nth
      BY <1>1, <1>4, <1>5, <2>2, <2>3
    <3>2. Share(job, th, im + job.nth)
      <4>1. PICK k \in 0..im : im = th + k * job.nth
        BY <1>1, <2>3 DEF Share
      <4>2. k + 1 \in 0..(im + job.nth) /\ im + job.nth = th + (k + 1) * job.nth
        BY <1>1, <1>4, <1>5, <4>1
      <4> QED BY <4>2 DEF Share
    <3>3. OrderInv'
      BY <1>1, <2>1, <2>3, <3>1, <3>2 DEF OrderInv
    <3>4. RowInv'
      <4>1. job.kern = "fly" => im' - 1 = im
        BY <1>4, <1>5, <2>3
      <4> QED BY <1>2, <2>1, <2>3, <4>1 DEF RowInv
    <3>5. BlockInv'
      BY <1>3, <2>1, <2>3 DEF BlockInv
    <3> QED BY <3>3, <3>4, <3>5 DEF CoreInv
  <2>4. CASE /\ ~job.one /\ im + job.nth > imlim /\ th + 1 < job.nth /\ th + 1 <= imlim
             /\ th' = th + 1 /\ im' = th + 1 /\ pc' = "order" /\ UNCHANGED out
    <3>1. im' \in 0..MMAX /\ im' * MRES <= job.llim /\ th' \in 0..im' /\ im' = th + 1 /\ th' = th + 1
      <4>1. th + 1 \in 0..MMAX
        BY <1>1, <1>5, <2>2, <2>4
      <4>2. (th + 1) * MRES <= job.llim
        BY <2>2, <2>4, <4>1
      <4> QED BY <2>4, <4>1, <4>2
    <3>2. Share(job, th + 1, th + 1)
      <4>1. 0 \in 0..(th + 1) /\ th + 1 = (th + 1) + 0 * job.nth
        BY <1>1, <1>4
      <4> QED BY <4>1 DEF Share
    <3>3. OrderInv'
      BY <1>1, <2>1, <2>4, <3>1, <3>2 DEF OrderInv
    <3>4. RowInv'
      <4>1. job.kern # "fly"
        BY <1>1, <1>4, <2>4
      <4> QED BY <1>2, <2>1, <2>4, <4>1 DEF RowInv
    <3>5. BlockInv'
      BY <1>3, <2>1, <2>4 DEF BlockInv
    <3> QED BY <3>3, <3>4, <3>5 DEF CoreInv
  <2>5. CASE pc' = "done" /\ UNCHANGED <<th, im>>
    <3>1. BlockInv'
      BY <1>3, <2>1, <2>5 DEF BlockInv
    <3> QED BY <1>1, <1>6, <1>7, <2>1, <2>5, <3>1 DEF CoreInv
  <2> QED BY <1>18, <2>3, <2>4, <2>5 DEF NextOrder
<1>19. CASE UNCHANGED vars
  <2>1. OrderInv'
    BY <1>1, <1>19 DEF OrderInv, CoreInv, vars
  <2>2. RowInv'
    BY <1>2, <1>19 DEF RowInv, vars
  <2>3. BlockInv'
    BY <1>19 DEF BlockInv, CoreInv, vars
  <2> QED BY <2>1, <2>2, <2>3 DEF CoreInv
<1> QED BY <1>8, <1>9, <1>10, <1>11, <1>12, <1>14, <1>15, <1>16, <1>17, <1>18, <1>19 DEF Next

-----------------------------------------------------------------------------
(* What the invariant gives.                                               *)

(* The invariant gives the types. *)
LEMMA CoreType ==
  ASSUME CoreInv
  PROVE  TypeOK
<1>1. /\ job \in Jobs /\ im \in 0..MMAX /\ th \in 0..im /\ blk \in 1..Blocks
      /\ pc \in {"order", "start", "skip", "sum", "stored", "finish", "next", "done"}
      /\ alm \in Nat /\ co \in Int /\ cleared \subseteq 0..(LMAX + 1) /\ r \in RegType
  BY DEF CoreInv, OrderInv, RowInv, BlockInv
<1>2. th \in 0..MMAX
  BY <1>1, SizesAssumption
<1> QED BY <1>1, <1>2 DEF TypeOK, RegType

(* The invariant gives that the sums are right. *)
LEMMA CoreSums ==
  ASSUME CoreInv
  PROVE  SumsRight
<1>1. job \in Jobs /\ im \in 0..MMAX /\ im \in Nat
  BY SizesAssumption DEF CoreInv, OrderInv
<1>2. r \in RegType /\ (pc = "stored" => IF im > 0 THEN StoredOK(job, r) ELSE Stored0OK(job, r))
  BY DEF CoreInv, BlockInv
<1>3. job.llim \in 0..LMAX /\ LMAX \in Nat /\ job.dir \in {"synth", "analys"} /\ job.one \in BOOLEAN
  BY <1>1, JobFacts, SizesAssumption
<1>4. DegreesRight
  <2> SUFFICES ASSUME pc = "stored"
               PROVE  /\ ~r.twice
                      /\ r.terms = IF im = 0 THEN Due0 ELSE IF r.ny < 0 THEN {} ELSE DueFrom(r.first)
    BY DEF DegreesRight
  <2>1. CASE im > 0
    <3>1. r.first \in Int
      BY <1>2 DEF RegType
    <3> QED BY <1>1, <1>2, <2>1, <3>1, DueIsTerms DEF StoredOK
  <2>2. CASE im = 0
    <3>1. Due0 = Terms0(job, job.llim + 1)
      BY <1>3 DEF Due0, Terms0, Synth, SynthOf, Has, HasOf
    <3> QED BY <1>2, <2>2, <3>1 DEF Stored0OK
  <2> QED BY <1>1, <2>1, <2>2
<1>5. InputsRight
  <2> SUFFICES ASSUME pc = "start", im > 0, Synth, Has("V")
               PROVE  vw = [l \in m..(job.llim + 1) |-> Mix(l, job.llim)]
    BY DEF InputsRight
  <2>1. vw = [l \in (im * MRES)..(job.llim + 1) |-> MixOf(im, l, job.llim)]
    BY DEF CoreInv, RowInv, PlaceOK, Synth, SynthOf, Has, HasOf
  <2> QED BY <2>1 DEF Mix, MixOf, m
<1>6. FactorsRight
  <2> SUFFICES ASSUME pc = "stored", r.ny = 0
               PROVE  /\ r.half = IF Synth \/ job.one \/ im = 0 THEN 2 ELSE 1
                      /\ r.nphi = (job.one /\ ~Synth)
                      /\ im > 0 /\ Has("Q") => r.sinQ = 0
                      /\ im > 0 /\ Has("V") =>
                           r.sinV = IF job.magic THEN (IF Synth THEN 0 ELSE -2) ELSE -1
    BY DEF FactorsRight
  <2>1. r.nphi \in BOOLEAN /\ (Synth <=> SynthOf(job))
    BY <1>2 DEF RegType, Synth, SynthOf
  <2>2. CASE im > 0
    <3>1. /\ r.half = IF SynthOf(job) \/ job.one THEN 2 ELSE 1
          /\ r.nphi <=> job.one /\ ~SynthOf(job)
          /\ SinesOK(job, r)
      BY <1>2, <2>2 DEF StoredOK
    <3>2. r.nphi = (job.one /\ ~Synth)
      BY <1>3, <2>1, <3>1 DEF Synth
    <3>3. r.half = IF Synth \/ job.one \/ im = 0 THEN 2 ELSE 1
      BY <1>1, <2>1, <2>2, <3>1
    <3> QED BY <2>1, <3>1, <3>2, <3>3 DEF SinesOK, Has, HasOf
  <2>3. CASE im = 0
    <3>1. r.half = 2 /\ (r.nphi <=> job.one /\ ~SynthOf(job))
      BY <1>2, <2>3 DEF Stored0OK
    <3>2. r.nphi = (job.one /\ ~Synth)
      BY <1>3, <2>1, <3>1 DEF Synth
    <3> QED BY <2>3, <3>1, <3>2
  <2> QED BY <1>1, <2>2, <2>3
<1> QED BY <1>4, <1>5, <1>6 DEF SumsRight

(* The variables keep their types: the registers stay in range for every number of degrees. *)
THEOREM TypeCorrect ==
  ASSUME Callable
  PROVE  Spec => []TypeOK
<1>1. Init => CoreInv
  BY InitCore
<1>2. CoreInv /\ [Next]_vars => CoreInv'
  BY NextCore
<1>3. CoreInv => TypeOK
  BY CoreType
<1> QED BY <1>1, <1>2, <1>3, PTL DEF Spec

(* In every kernel each degree of a sum meets its own coefficient or accumulator once, with *)
(* the parity and the factors it asks for, whatever the truncation, order and block. *)
THEOREM SumsAreRight ==
  ASSUME Callable
  PROVE  Spec => []SumsRight
<1>1. Init => CoreInv
  BY InitCore
<1>2. CoreInv /\ [Next]_vars => CoreInv'
  BY NextCore
<1>3. CoreInv => SumsRight
  BY CoreSums
<1> QED BY <1>1, <1>2, <1>3, PTL DEF Spec

-----------------------------------------------------------------------------
(* The elements of different orders do not meet.                           *)

(* The orders follow each other in a spectral array. *)
LEMMA BeforeGrows ==
  ASSUME NEW i \in 0..MMAX, NEW j \in 0..MMAX, i <= j
  PROVE  Before[i] <= Before[j]
<1> DEFINE P == {d \in Nat : i + d <= MMAX => Before[i] <= Before[i + d]}
<1>1. 0 \in P
  <2>1. Before[i] \in Nat /\ i + 0 = i
    BY Rows
  <2> QED BY <2>1
<1>2. ASSUME NEW d \in Nat, d \in P, i + (d + 1) <= MMAX
      PROVE  Before[i] <= Before[i + (d + 1)]
  <2>1. i + d \in 0..MMAX /\ i + (d + 1) \in 0..MMAX /\ (i + (d + 1)) - 1 = i + d /\ i + (d + 1) # 0
    BY <1>2, Products
  <2>2. Before[i] <= Before[i + d]
    BY <1>2, <2>1
  <2>3. Before[i + (d + 1)] = Before[i + d] + LMAX - (i + d) * MRES + 1
    BY <2>1, BeforeIs
  <2>4. (i + d) * MRES \in 0..LMAX /\ Before[i + d] \in Nat /\ Before[i] \in Nat /\ LMAX \in Nat
    BY <2>1, Products, Rows
  <2> QED BY <2>2, <2>3, <2>4
<1>3. \A d \in Nat : d \in P => d + 1 \in P
  BY <1>2
<1> HIDE DEF P
<1>4. j - i \in P
  BY <1>1, <1>3, SetInduction, Products
<1>5. i + (j - i) = j /\ j <= MMAX
  BY Products
<1> QED BY <1>4, <1>5 DEF P

(* The places of an order come after those of the orders before it. *)
LEMMA OrdersApart ==
  ASSUME NEW i \in 0..MMAX, NEW l \in (i * MRES)..LMAX
  PROVE  /\ Pos(i, l) \in 0..LiM(LMAX, MMAX)
         /\ \A k \in 0..MMAX : /\ k > i => Pos(i, l) < Pos(k, k * MRES)
                               /\ k = i => Pos(i, l) >= Pos(k, k * MRES)
                               /\ k < i => Pos(i, l) > Pos(k, LMAX) /\ Pos(i, l) >= Pos(k, k * MRES)
<1>1. LMAX \in Nat /\ MMAX \in Nat /\ i * MRES \in 0..LMAX /\ Before[i] \in Nat /\ l \in Nat
  BY Products, Rows
<1>2. Pos(i, l) = Before[i] - i * MRES + l
  BY <1>1, Places
<1>3. ASSUME NEW k \in 0..MMAX
      PROVE  /\ Pos(k, k * MRES) = Before[k] /\ Before[k] \in Nat
             /\ Pos(k, LMAX) = Before[k] - k * MRES + LMAX /\ k * MRES \in 0..LMAX
  <2>1. k * MRES \in 0..LMAX /\ Before[k] \in Nat
    BY Products, Rows
  <2> QED BY <1>1, <2>1, Places
<1>4. ASSUME NEW k \in 0..MMAX, NEW n \in 0..MMAX, k < n
      PROVE  Before[k] - k * MRES + LMAX < Before[n]
  <2>1. k + 1 \in 0..MMAX /\ k + 1 <= n /\ (k + 1) - 1 = k /\ k + 1 # 0
    BY <1>1, <1>4
  <2>2. Before[k + 1] = Before[k] + LMAX - k * MRES + 1
    BY <2>1, BeforeIs
  <2>3. Before[k + 1] <= Before[n]
    BY <1>4, <2>1, BeforeGrows
  <2>4. Before[k] \in Nat /\ k * MRES \in Nat /\ Before[n] \in Nat
    BY Products, Rows
  <2> QED BY <1>1, <2>2, <2>3, <2>4
<1>5. Pos(i, l) \in 0..LiM(LMAX, MMAX)
  <2>1. MMAX \in 0..MMAX /\ MMAX * MRES \in 0..LMAX /\ Before[MMAX] \in Nat
    BY <1>1, Products, Rows
  <2>2. LiM(LMAX, MMAX) = Before[MMAX] - MMAX * MRES + LMAX
    BY <1>1, <2>1, Places
  <2>3. CASE i = MMAX
    BY <1>1, <1>2, <2>1, <2>2, <2>3
  <2>4. CASE i < MMAX
    BY <1>1, <1>2, <1>4, <2>1, <2>2, <2>4
  <2> QED BY <1>1, <2>3, <2>4
<1>6. ASSUME NEW k \in 0..MMAX, k > i PROVE Pos(i, l) < Pos(k, k * MRES)
  BY <1>1, <1>2, <1>3, <1>4, <1>6
<1>7. Pos(i, l) >= Pos(i, i * MRES)
  BY <1>1, <1>2, <1>3
<1>8. ASSUME NEW k \in 0..MMAX, k < i PROVE Pos(i, l) > Pos(k, LMAX) /\ Pos(i, l) >= Pos(k, k * MRES)
  <2>1. Before[k] - k * MRES + LMAX < Before[i]
    BY <1>4, <1>8
  <2> QED BY <1>1, <1>2, <1>3, <2>1
<1> QED BY <1>5, <1>6, <1>7, <1>8

-----------------------------------------------------------------------------
(* What the store of an order leaves in the result of an analysis.         *)

ResultOf(j, i, l) ==
  IF l > j.llim THEN Zero
  ELSE [i |-> i, l |-> l,
        v |-> IF ~HasOf(j, "V") \/ (i = 0 /\ l = 0) THEN {}
              ELSE IF i = 0 THEN {<<l, Wrong>>}
              ELSE {<<l, Wrong>>, <<l + 1, 2 * Pos(i, l)>>}
                   \cup (IF l > i * MRES THEN {<<l - 1, 2 * Pos(i, l - 1) + 1>>} ELSE {})]

Place(j, i, l) == IF j.one THEN l - i * MRES ELSE Pos(i, l)

(* A store for an order above 0 sets the elements of that order and no other. *)
LEMMA StoredIs ==
  ASSUME Callable, job \in Jobs, im \in 0..MMAX, im > 0, m <= job.llim, ~SynthOf(job), job.one => im = job.im,
         PlaceOK(job, im, co, vw, cleared), NEW b, ~job.one => b = 2 * LiM(m, im),
         NEW o, NEW s, s = Stored(o, b)
  PROVE  /\ DOMAIN s = DOMAIN o
         /\ \A l \in m..LMAX : Place(job, im, l) \in DOMAIN o => s[Place(job, im, l)] = ResultOf(job, im, l)
         /\ \A p \in DOMAIN o : p - co \notin m..LMAX => s[p] = o[p]
<1>1. LMAX \in Nat /\ m \in 0..LMAX /\ m = im * MRES /\ job.llim \in 0..LMAX /\ job.dir = "analys"
      /\ job.f \in {"Q", "V", "3"}
  BY OrderFacts, JobFacts DEF m, SynthOf
<1>2. DOMAIN s = DOMAIN o
  BY DEF Stored
<1>3. ASSUME NEW p \in DOMAIN o, p - co \notin m..LMAX PROVE s[p] = o[p]
  <2>1. p - co \notin m..job.llim /\ p - co \notin (job.llim + 1)..LMAX
    BY <1>1, <1>3
  <2> QED BY <2>1 DEF Stored
<1>4. ASSUME NEW l \in m..LMAX PROVE Place(job, im, l) - co = l
  <2>1. CASE job.one
    BY <1>1, <2>1 DEF Place, PlaceOK
  <2>2. CASE ~job.one
    <3>1. LiM(0, im) = Before[im] - im * MRES + 0 /\ Pos(im, l) = Before[im] - im * MRES + l
          /\ Before[im] \in Nat
      BY <1>1, Places, Rows
    <3> QED BY <1>1, <2>2, <3>1 DEF Place, PlaceOK
  <2> QED BY <2>1, <2>2
<1>5. ASSUME NEW l \in (job.llim + 1)..LMAX, l >= m, Place(job, im, l) \in DOMAIN o
      PROVE  s[Place(job, im, l)] = ResultOf(job, im, l)
  <2>1. l \in m..LMAX /\ l \notin m..job.llim /\ l > job.llim
    BY <1>1, <1>5
  <2>2. Place(job, im, l) - co = l
    BY <1>4, <2>1
  <2>3. s[Place(job, im, l)] = Zero
    BY <1>5, <2>1, <2>2 DEF Stored
  <2> QED BY <2>1, <2>3 DEF ResultOf
<1>6. ASSUME NEW l \in m..job.llim, Place(job, im, l) \in DOMAIN o
      PROVE  s[Place(job, im, l)] = ResultOf(job, im, l)
  <2> DEFINE p == Place(job, im, l)
             d == l - m
  <2>1. l \in m..LMAX /\ l \in Int /\ d \in Nat /\ m + d = l /\ ~(l > job.llim)
    BY <1>1, <1>6
  <2>2. p - co = l
    BY <1>4, <2>1
  <2>3. d \in cleared
    BY <1>1, <1>6 DEF PlaceOK
  <2>4. Read(d) = l
    BY <2>1, <2>3 DEF Read
  <2> HIDE DEF d
  <2>5. s[p] = [i |-> im, l |-> l, v |-> IF Has("V") THEN Combined(b, d) ELSE {}]
    <3>1. s[p] = [i |-> im, l |-> Read(p - co - m), v |-> IF Has("V") THEN Combined(b, p - co - m) ELSE {}]
      BY <1>6, <2>2 DEF Stored
    <3> QED BY <2>2, <2>4, <3>1 DEF d
  <2>6. CASE ~HasOf(job, "V")
    BY <2>1, <2>5, <2>6 DEF ResultOf, Has, HasOf
  <2>7. CASE HasOf(job, "V")
    <3>1. ~job.one
      BY <1>1, <2>7 DEF Callable, HasOf
    <3>2. cleared = 0..(job.llim + 1 - m)
      BY <1>1, <3>1 DEF PlaceOK
    <3>3. Read(d + 1) = l + 1
      BY <1>1, <1>6, <2>1, <3>2 DEF Read
    <3>4. d > 0 => Read(d - 1) = l - 1
      BY <1>1, <1>6, <2>1, <3>2 DEF Read
    <3>5. b + 2 * d = 2 * Pos(im, l) /\ b + 2 * (d - 1) + 1 = 2 * Pos(im, l - 1) + 1
      <4>1. LiM(m, im) = Before[im] - im * MRES + m /\ Pos(im, l) = Before[im] - im * MRES + l
            /\ Pos(im, l - 1) = Before[im] - im * MRES + (l - 1) /\ Before[im] \in Nat
        BY <1>1, <2>1, Places, Rows
      <4> QED BY <1>1, <2>1, <3>1, <4>1
    <3>6. d > 0 <=> l > im * MRES
      BY <1>1, <2>1
    <3>7. Combined(b, d) = {<<l, Wrong>>, <<l + 1, 2 * Pos(im, l)>>}
                           \cup (IF l > im * MRES THEN {<<l - 1, 2 * Pos(im, l - 1) + 1>>} ELSE {})
      BY <2>4, <3>3, <3>4, <3>5, <3>6 DEF Combined
    <3>8. im # 0
      BY Products
    <3> QED BY <2>1, <2>5, <2>7, <3>7, <3>8 DEF ResultOf, Has, HasOf
  <2> QED BY <2>6, <2>7
<1>7. ASSUME NEW l \in m..LMAX, Place(job, im, l) \in DOMAIN o
      PROVE  s[Place(job, im, l)] = ResultOf(job, im, l)
  <2>1. l \in m..job.llim \/ l \in (job.llim + 1)..LMAX
    BY <1>1
  <2> QED BY <1>1, <1>5, <1>6, <1>7, <2>1
<1> QED BY <1>2, <1>3, <1>7

(* The store of order 0 sets its LMAX+1 elements and no other. *)
LEMMA Stored0Is ==
  ASSUME job \in Jobs, im = 0, ~SynthOf(job), PlaceOK(job, im, co, vw, cleared),
         NEW o, NEW s, s = Stored0(o)
  PROVE  /\ DOMAIN s = DOMAIN o
         /\ \A l \in 0..LMAX : l \in DOMAIN o => s[l] = ResultOf(job, 0, l)
         /\ \A p \in DOMAIN o : p > LMAX => s[p] = o[p]
<1>1. LMAX \in Nat /\ job.llim \in 0..LMAX
  BY SizesAssumption, JobFacts
<1>2. cleared = 0..(job.llim - 1)
  BY DEF PlaceOK
<1>3. DOMAIN s = DOMAIN o
  BY DEF Stored0
<1>4. ASSUME NEW p \in DOMAIN o, p > LMAX PROVE s[p] = o[p]
  <2>1. p # 0 /\ p \notin 1..job.llim /\ p \notin (job.llim + 1)..LMAX
    BY <1>1, <1>4
  <2> QED BY <2>1 DEF Stored0
<1>5. 0 \in DOMAIN o => s[0] = ResultOf(job, 0, 0)
  BY <1>1 DEF Stored0, ResultOf
<1>6. ASSUME NEW l \in 1..job.llim, l \in DOMAIN o PROVE s[l] = ResultOf(job, 0, l)
  <2>1. l # 0 /\ l - 1 \in cleared /\ ~(l > job.llim)
    BY <1>1, <1>2, <1>6
  <2>2. s[l] = [i |-> 0, l |-> l, v |-> IF Has("V") THEN {<<l, Wrong>>} ELSE {}]
    BY <1>6, <2>1 DEF Stored0
  <2> QED BY <2>1, <2>2 DEF ResultOf, Has, HasOf
<1>7. ASSUME NEW l \in (job.llim + 1)..LMAX, l \in DOMAIN o PROVE s[l] = ResultOf(job, 0, l)
  <2>1. l # 0 /\ l \notin 1..job.llim /\ l > job.llim
    BY <1>1, <1>7
  <2> QED BY <1>7, <2>1 DEF Stored0, ResultOf
<1>8. ASSUME NEW l \in 0..LMAX PROVE l = 0 \/ l \in 1..job.llim \/ l \in (job.llim + 1)..LMAX
  BY <1>1
<1> QED BY <1>3, <1>4, <1>5, <1>6, <1>7, <1>8

(* s is o but for the orders from i on, which are zero. *)
Zeroed(s, o, i) ==
  /\ DOMAIN s = DOMAIN o
  /\ \A k \in 0..MMAX : \A l \in (k * MRES)..LMAX :
       s[Pos(k, l)] = IF k >= i THEN Zero ELSE o[Pos(k, l)]

(* Clearing from an order on leaves the orders before it alone. *)
LEMMA ZeroIs ==
  ASSUME NEW i \in 0..MMAX, NEW o, DOMAIN o = 0..LiM(LMAX, MMAX), NEW s, s = ZeroFrom(o, i)
  PROVE  Zeroed(s, o, i)
<1>1. DOMAIN s = DOMAIN o
  BY DEF ZeroFrom
<1>2. ASSUME NEW k \in 0..MMAX, NEW l \in (k * MRES)..LMAX
      PROVE  s[Pos(k, l)] = IF k >= i THEN Zero ELSE o[Pos(k, l)]
  <2>1. Pos(k, l) \in DOMAIN o /\ Pos(k, l) \in Int /\ i * MRES \in Int
    BY OrdersApart, Products
  <2>2. LiM(i * MRES, i) = Pos(i, i * MRES) /\ Pos(i, i * MRES) \in Int
    BY <2>1, Places
  <2>3. k >= i => Pos(k, l) >= LiM(i * MRES, i)
    <3>1. CASE k > i
      BY <2>2, <3>1, OrdersApart
    <3>2. CASE k = i
      BY <2>2, <3>2, OrdersApart
    <3> QED BY <3>1, <3>2
  <2>4. ~(k >= i) => ~(Pos(k, l) >= LiM(i * MRES, i))
    <3>1. k < i => Pos(k, l) < Pos(i, i * MRES)
      BY OrdersApart
    <3> QED BY <2>1, <2>2, <3>1
  <2>5. s[Pos(k, l)] = IF Pos(k, l) >= LiM(i * MRES, i) THEN Zero ELSE o[Pos(k, l)]
    BY <2>1 DEF ZeroFrom
  <2> QED BY <2>3, <2>4, <2>5
<1> QED BY <1>1, <1>2 DEF Zeroed

LastOf(j) == IF MMAX * MRES > j.llim THEN j.llim \div MRES ELSE MMAX

(* When the call finds the order i in its result: thread t is at order n and place p. *)
Filled(j, t, n, p, i) ==
  \/ j.one /\ i = n /\ p \in {"next", "done"}
  \/ /\ ~j.one /\ i <= LastOf(j)
     /\ \/ \E u \in 0..(t - 1) : Share(j, u, i)
        \/ Share(j, t, i) /\ i < n
        \/ i = n /\ p \in {"next", "done"}
  \/ /\ ~j.one /\ i > LastOf(j)
     /\ p = "done" \/ (j.kern # "fly" /\ (n > 0 \/ p \in {"next", "done"}))

Holds(j, o, i) == \A l \in (i * MRES)..LMAX : o[Place(j, i, l)] = ResultOf(j, i, l)

SizeOf(j, n) == 0..(IF j.one THEN LMAX - n * MRES ELSE LiM(LMAX, MMAX))

OutInv ==
  ~SynthOf(job) =>
    /\ DOMAIN out = SizeOf(job, im)
    /\ \A i \in 0..MMAX : Filled(job, th, im, pc, i) => Holds(job, out, i)

EndInv ==
  pc = "done" /\ ~job.one => im + job.nth > LastOf(job) /\ (th + 1 >= job.nth \/ th + 1 > LastOf(job))

(* Orders beyond the truncation are zero. *)
LEMMA BeyondZero ==
  ASSUME job \in Jobs, NEW i \in 0..MMAX, i > LastOf(job), NEW l \in (i * MRES)..LMAX
  PROVE  ResultOf(job, i, l) = Zero
<1>1. imlim = LastOf(job)
  BY DEF imlim, LastOf
<1>2. imlim \in 0..MMAX /\ (i <= imlim <=> i * MRES <= job.llim)
  BY LastOrder
<1>3. job.llim \in 0..LMAX /\ i * MRES \in 0..LMAX /\ LMAX \in Nat
  BY JobFacts, Products
<1>4. l > job.llim
  BY <1>1, <1>2, <1>3
<1> QED BY <1>4 DEF ResultOf

(* What Finish stores. *)
LEMMA FinishStores ==
  ASSUME Callable, job \in Jobs, im \in 0..MMAX, m <= job.llim, ~SynthOf(job), job.one => im = job.im,
         PlaceOK(job, im, co, vw, cleared), DOMAIN out = SizeOf(job, im),
         NEW s, s = Which(FlyAnaStore(out), FlyOneAnaStore(out), OmpAnaStore(out), MicAnaStore(out))
  PROVE  /\ DOMAIN s = DOMAIN out
         /\ Holds(job, s, im)
         /\ ~job.one => \A i \in 0..MMAX :
              IF i > LastOf(job) /\ job.kern # "fly" /\ im = 0 THEN Holds(job, s, i)
              ELSE i # im /\ Holds(job, out, i) => Holds(job, s, i)
<1>1. LMAX \in Nat /\ MMAX \in Nat /\ m \in 0..LMAX /\ m = im * MRES /\ im \in Nat
  BY OrderFacts, Products DEF m
<1>2. job.one \in BOOLEAN /\ job.kern \in {"fly", "omp", "mic"} /\ (job.one => job.kern = "fly")
  BY JobFacts
<1>3. imlim = LastOf(job) /\ imlim \in 0..MMAX
  BY LastOrder DEF imlim, LastOf
<1>4. \A l \in m..LMAX : Place(job, im, l) \in DOMAIN out
  <2>1. CASE job.one
    BY <1>1, <2>1 DEF Place, SizeOf
  <2>2. CASE ~job.one
    BY <1>1, <2>2, OrdersApart DEF Place, SizeOf
  <2> QED BY <2>1, <2>2
<1>5. CASE im > 0
  <2> DEFINE b == 2 * LiM(m, im)
             z == Stored(out, b)
  <2>1. s = z
    BY <1>2, <1>5 DEF Which, FlyAnaStore, FlyOneAnaStore, OmpAnaStore, MicAnaStore
  <2>2. /\ DOMAIN z = DOMAIN out
        /\ \A l \in m..LMAX : Place(job, im, l) \in DOMAIN out => z[Place(job, im, l)] = ResultOf(job, im, l)
        /\ \A p \in DOMAIN out : p - co \notin m..LMAX => z[p] = out[p]
    <3> HIDE DEF b
    <3> QED BY <1>5, StoredIs DEF b
  <2> HIDE DEF z
  <2>3. Holds(job, z, im)
    BY <1>1, <1>4, <2>2 DEF Holds
  <2>4. ASSUME ~job.one, NEW i \in 0..MMAX, i # im, Holds(job, out, i)
        PROVE  Holds(job, z, i)
    <3> SUFFICES ASSUME NEW l \in (i * MRES)..LMAX PROVE z[Pos(i, l)] = ResultOf(job, i, l)
      BY <2>4 DEF Holds, Place
    <3>1. out[Pos(i, l)] = ResultOf(job, i, l)
      BY <2>4 DEF Holds, Place
    <3>2. Pos(i, l) \in DOMAIN out
      BY <2>4, OrdersApart DEF SizeOf
    <3>3. /\ co = Before[im] - m + 0 /\ Pos(im, m) = Before[im] - m + m
          /\ Pos(im, LMAX) = Before[im] - m + LMAX /\ Before[im] \in Nat
      <4>1. co = LiM(0, im)
        BY <2>4 DEF PlaceOK
      <4>2. LiM(0, im) = Before[im] - im * MRES + 0 /\ Before[im] \in Nat
        BY Places, Rows
      <4>3. Pos(im, m) = Before[im] - im * MRES + m /\ Pos(im, LMAX) = Before[im] - im * MRES + LMAX
        BY <1>1, Places
      <4> QED BY <1>1, <4>1, <4>2, <4>3
    <3>4. Pos(i, l) \in Int
      BY Places
    <3>5. i < im => Pos(i, l) < Pos(im, m)
      BY <1>1, OrdersApart
    <3>6. i > im => Pos(i, l) > Pos(im, LMAX)
      BY <1>1, OrdersApart
    <3>7. Pos(i, l) - co \notin m..LMAX
      <4>1. CASE i < im
        BY <1>1, <3>3, <3>4, <3>5, <4>1
      <4>2. CASE i > im
        BY <1>1, <3>3, <3>4, <3>6, <4>2
      <4> QED BY <1>1, <2>4, <4>1, <4>2
    <3> QED BY <2>2, <3>1, <3>2, <3>7
  <2> QED BY <1>5, <2>1, <2>2, <2>3, <2>4
<1>6. CASE im = 0
  <2> DEFINE z == Stored0(out)
  <2>1. s = IF job.kern # "fly" /\ imlim + 1 <= MMAX THEN ZeroFrom(z, imlim + 1) ELSE z
    BY <1>2, <1>6 DEF Which, FlyAnaStore, FlyOneAnaStore, OmpAnaStore, MicAnaStore
  <2>2. /\ DOMAIN z = DOMAIN out
        /\ \A l \in 0..LMAX : l \in DOMAIN out => z[l] = ResultOf(job, 0, l)
        /\ \A p \in DOMAIN out : p > LMAX => z[p] = out[p]
    BY <1>6, Stored0Is
  <2> HIDE DEF z
  <2>3. m = 0 /\ 0 * MRES = 0
    BY <1>6, OrderFacts, SizesAssumption
  <2>4. ASSUME NEW l \in 0..LMAX PROVE Place(job, 0, l) = l
    <3>1. Pos(0, l) = Before[0] - 0 * MRES + l /\ Before[0] = 0
      <4>1. 0 \in 0..MMAX
        BY <1>1
      <4> QED BY <4>1, Places, BeforeIs
    <3> QED BY <2>3, <2>4, <3>1 DEF Place
  <2>5. Holds(job, z, 0)
    BY <1>4, <1>6, <2>2, <2>3, <2>4 DEF Holds
  <2>6. ASSUME ~job.one, NEW i \in 0..MMAX, i # 0, Holds(job, out, i)
        PROVE  Holds(job, z, i)
    <3> SUFFICES ASSUME NEW l \in (i * MRES)..LMAX PROVE z[Pos(i, l)] = ResultOf(job, i, l)
      BY <2>6 DEF Holds, Place
    <3>1. out[Pos(i, l)] = ResultOf(job, i, l)
      BY <2>6 DEF Holds, Place
    <3>2. Pos(i, l) \in DOMAIN out
      BY <2>6, OrdersApart DEF SizeOf
    <3>3. 0 \in 0..MMAX /\ 0 < i /\ LMAX \in 0..LMAX
      BY <1>1, <2>6
    <3>4. Pos(0, LMAX) = LMAX
      BY <2>4, <2>6, <3>3 DEF Place
    <3>5. Pos(i, l) > LMAX
      BY <3>3, <3>4, OrdersApart
    <3> QED BY <2>2, <3>1, <3>2, <3>5
  <2>7. CASE ~(job.kern # "fly" /\ imlim + 1 <= MMAX)
    <3>1. s = z
      BY <2>1, <2>7
    <3>2. job.kern # "fly" => \A i \in 0..MMAX : ~(i > LastOf(job))
      BY <1>1, <1>3, <2>7
    <3> QED BY <1>6, <2>2, <2>5, <2>6, <3>1, <3>2
  <2>8. CASE job.kern # "fly" /\ imlim + 1 <= MMAX
    <3> DEFINE f == imlim + 1
    <3>0. f = imlim + 1
      OBVIOUS
    <3> HIDE DEF f
    <3>1. s = ZeroFrom(z, f) /\ ~job.one
      BY <1>2, <2>1, <2>8, <3>0
    <3>2. DOMAIN z = 0..LiM(LMAX, MMAX) /\ f \in 0..MMAX
      BY <1>1, <1>3, <2>2, <2>8, <3>0, <3>1 DEF SizeOf
    <3>3. Zeroed(s, z, f)
      BY <3>1, <3>2, ZeroIs
    <3>4. ASSUME NEW k \in 0..MMAX, k > LastOf(job)
          PROVE  Holds(job, s, k)
      <4> SUFFICES ASSUME NEW l \in (k * MRES)..LMAX PROVE s[Pos(k, l)] = ResultOf(job, k, l)
        BY <3>1 DEF Holds, Place
      <4>1. k >= f
        BY <1>1, <1>3, <3>0, <3>4
      <4> QED BY <3>3, <3>4, <4>1, BeyondZero DEF Zeroed
    <3>5. ASSUME NEW k \in 0..MMAX, ~(k > LastOf(job)), Holds(job, z, k)
          PROVE  Holds(job, s, k)
      <4> SUFFICES ASSUME NEW l \in (k * MRES)..LMAX PROVE s[Pos(k, l)] = ResultOf(job, k, l)
        BY <3>1 DEF Holds, Place
      <4>1. ~(k >= f)
        BY <1>1, <1>3, <3>0, <3>5
      <4>2. z[Pos(k, l)] = ResultOf(job, k, l)
        BY <3>1, <3>5 DEF Holds, Place
      <4> QED BY <3>3, <4>1, <4>2 DEF Zeroed
    <3>6. ~(0 > LastOf(job)) /\ 0 \in 0..MMAX
      BY <1>1, <1>3
    <3>7. Holds(job, s, im)
      BY <1>6, <2>5, <3>5, <3>6
    <3> QED BY <1>6, <2>2, <2>6, <2>8, <3>1, <3>3, <3>4, <3>5, <3>7 DEF Zeroed
  <2> QED BY <2>7, <2>8
<1> QED BY <1>1, <1>5, <1>6

-----------------------------------------------------------------------------
(* The threads' shares, and the results.                                   *)

(* The next order of a thread is the next one of its share. *)
LEMMA ShareNext ==
  ASSUME job \in Jobs, NEW t \in Nat, NEW n \in Nat, NEW i \in Nat,
         Share(job, t, n), Share(job, t, i), i < n + job.nth
  PROVE  i <= n
<1> DEFINE h == job.nth
<1>1. h \in Nat \ {0}
  BY JobFacts
<1>2. PICK k \in 0..i : i = t + k * h
  BY DEF Share
<1>3. PICK l \in 0..n : n = t + l * h
  BY DEF Share
<1>4. i < n + h
  OBVIOUS
<1> HIDE DEF h
<1>5. k \in Nat /\ l \in Nat /\ k * h \in Nat /\ l * h \in Nat
  BY <1>1
<1>6. CASE l < k
  <2>1. l * h + h <= k * h
    BY <1>1, <1>5, <1>6, Multiples
  <2> QED BY <1>1, <1>2, <1>3, <1>4, <1>5, <2>1
<1>7. CASE k < l
  <2>1. k * h + h <= l * h
    BY <1>1, <1>5, <1>7, Multiples
  <2> QED BY <1>1, <1>2, <1>3, <1>5, <2>1
<1>8. CASE k = l
  BY <1>2, <1>3, <1>5, <1>8
<1> QED BY <1>5, <1>6, <1>7, <1>8

(* No order of a share comes before the thread's own number. *)
LEMMA ShareFrom ==
  ASSUME job \in Jobs, NEW t \in Nat, NEW i \in Nat, Share(job, t, i)
  PROVE  t <= i
<1>1. job.nth \in Nat
  BY JobFacts
<1>2. PICK k \in 0..i : i = t + k * job.nth
  BY DEF Share
<1>3. k * job.nth \in Nat
  BY <1>1, <1>2
<1> QED BY <1>2, <1>3

(* Every number is a remainder and a multiple. *)
LEMMA Remainders ==
  ASSUME NEW h \in Nat \ {0}, NEW i \in Nat
  PROVE  \E t \in 0..(h - 1) : \E k \in 0..i : i = t + k * h
<1> DEFINE t == i % h  k == i \div h
<1>1. t \in 0..(h - 1) /\ k \in Nat /\ i = t + k * h
  OBVIOUS
<1> HIDE DEF t, k
<1>2. k <= k * h
  BY <1>1
<1>3. k \in 0..i
  BY <1>1, <1>2
<1> QED BY <1>1, <1>3

(* Every order is in the share of a thread. *)
LEMMA ShareCovers ==
  ASSUME job \in Jobs, NEW i \in Nat
  PROVE  \E t \in 0..(job.nth - 1) : Share(job, t, i)
<1>1. job.nth \in Nat \ {0}
  BY JobFacts
<1> QED BY <1>1, Remainders DEF Share

(* Before the first order the result is as large as it should be, and empty. *)
LEMMA InitOut ==
  ASSUME Init
  PROVE  OutInv /\ EndInv
<1>1. job \in Jobs /\ th = 0 /\ im = (IF job.one THEN job.im ELSE 0) /\ pc = "order"
  BY DEF Init
<1>2. job.one \in BOOLEAN
  BY <1>1, JobFacts
<1>3. EndInv
  BY <1>1 DEF EndInv
<1>4. ASSUME ~SynthOf(job) PROVE DOMAIN out = SizeOf(job, im)
  <2>1. out = [p \in 0..(IF job.one THEN LMAX - m ELSE LiM(LMAX, MMAX)) |-> Unset]
    BY <1>4 DEF Init, Synth, SynthOf
  <2> QED BY <2>1 DEF SizeOf, m
<1>5. ASSUME NEW i \in 0..MMAX PROVE ~Filled(job, th, im, pc, i)
  <2>1. i \in Nat /\ MMAX \in Nat
    BY Products
  <2>2. CASE job.one
    BY <1>1, <2>2 DEF Filled
  <2>3. CASE ~job.one
    BY <1>1, <2>1, <2>3 DEF Filled
  <2> QED BY <1>2, <2>2, <2>3
<1> QED BY <1>3, <1>4, <1>5 DEF OutInv

(* Within an order nothing is stored. *)
LEMMA WithinOrder ==
  ASSUME OutInv, job' = job, th' = th, im' = im, out' = out,
         pc \notin {"next", "done"}, pc' \notin {"next", "done"}
  PROVE  OutInv' /\ EndInv'
<1>1. \A i : Filled(job, th, im, pc', i) => Filled(job, th, im, pc, i)
  BY DEF Filled
<1>2. EndInv'
  BY DEF EndInv
<1>3. ASSUME ~SynthOf(job), NEW i \in 0..MMAX, Filled(job, th, im, pc', i) PROVE Holds(job, out, i)
  BY <1>1, <1>3 DEF OutInv
<1>4. ~SynthOf(job) => DOMAIN out = SizeOf(job, im)
  BY DEF OutInv
<1> QED BY <1>2, <1>3, <1>4 DEF OutInv

(* Storing an order adds it, and order 0 the ones which the truncation removes. *)
LEMMA FinishOut ==
  ASSUME Callable, CoreInv, OutInv, Finish
  PROVE  OutInv' /\ EndInv'
<1>1. /\ pc = "finish" /\ pc' = "next" /\ job' = job /\ th' = th /\ im' = im
      /\ job \in Jobs /\ im \in 0..MMAX /\ th \in 0..im /\ im * MRES <= job.llim
      /\ job.one => im = job.im
  BY DEF Finish, CoreInv, OrderInv
<1>2. EndInv'
  BY <1>1 DEF EndInv
<1>3. OutInv'
  <2> SUFFICES ASSUME ~SynthOf(job)
               PROVE  /\ DOMAIN out' = SizeOf(job, im)
                      /\ \A i \in 0..MMAX : Filled(job, th, im, "next", i) => Holds(job, out', i)
    BY <1>1 DEF OutInv
  <2>1. DOMAIN out = SizeOf(job, im)
    BY DEF OutInv
  <2>2. \A i \in 0..MMAX : Filled(job, th, im, "finish", i) => Holds(job, out, i)
    BY <1>1 DEF OutInv
  <2>3. out' = Which(FlyAnaStore(out), FlyOneAnaStore(out), OmpAnaStore(out), MicAnaStore(out))
    BY DEF Finish, Synth, SynthOf
  <2>4. PlaceOK(job, im, co, vw, cleared)
    BY <1>1 DEF CoreInv, RowInv
  <2>5. /\ DOMAIN out' = DOMAIN out
        /\ Holds(job, out', im)
        /\ ~job.one => \A i \in 0..MMAX :
             IF i > LastOf(job) /\ job.kern # "fly" /\ im = 0 THEN Holds(job, out', i)
             ELSE i # im /\ Holds(job, out, i) => Holds(job, out', i)
    BY <1>1, <2>1, <2>3, <2>4, FinishStores DEF m
  <2>6. ~(im > LastOf(job)) /\ im \in Nat /\ MMAX \in Nat
    BY <1>1, LastOrder, Products DEF imlim, LastOf
  <2>7. ASSUME NEW i \in 0..MMAX, Filled(job, th, im, "next", i)
        PROVE  Holds(job, out', i)
    <3>1. CASE job.one
      <4>1. i = im
        BY <2>7, <3>1 DEF Filled
      <4> QED BY <2>5, <4>1
    <3>2. CASE i = im
      BY <2>5, <3>2
    <3>3. CASE ~job.one /\ i # im /\ i <= LastOf(job)
      <4>1. ~(i > LastOf(job))
        <5>1. LastOf(job) \in Int
          BY <1>1, LastOrder DEF imlim, LastOf
        <5> QED BY <3>3, <5>1
      <4>2. Filled(job, th, im, "finish", i)
        BY <2>7, <3>3, <4>1 DEF Filled
      <4> QED BY <2>2, <2>5, <3>3, <4>1, <4>2
    <3>4. CASE ~job.one /\ i # im /\ ~(i <= LastOf(job))
      <4>1. i > LastOf(job) /\ job.kern # "fly"
        BY <2>7, <3>4 DEF Filled
      <4>2. CASE im = 0
        BY <2>5, <3>4, <4>1, <4>2
      <4>3. CASE im > 0
        <5>1. Filled(job, th, im, "finish", i)
          BY <3>4, <4>1, <4>3 DEF Filled
        <5> QED BY <2>2, <2>5, <3>4, <4>3, <5>1
      <4> QED BY <2>6, <4>2, <4>3
    <3> QED BY <3>1, <3>2, <3>3, <3>4
  <2> QED BY <2>1, <2>5, <2>7
<1> QED BY <1>2, <1>3

(* A thread's next order, or the next thread's first one, find the results of those before; *)
(* at the end fly clears the orders which the truncation removes. *)
LEMMA NextOrderOut ==
  ASSUME CoreInv, OutInv, NextOrder
  PROVE  OutInv' /\ EndInv'
<1>1. /\ pc = "next" /\ job' = job
      /\ job \in Jobs /\ im \in 0..MMAX /\ th \in 0..im /\ im * MRES <= job.llim
      /\ job.one => im = job.im
      /\ ~job.one => th < job.nth /\ Share(job, th, im)
  BY DEF NextOrder, CoreInv, OrderInv
<1>2. /\ imlim = LastOf(job) /\ imlim \in 0..MMAX /\ im \in Nat /\ th \in Nat /\ MMAX \in Nat
      /\ job.nth \in Nat \ {0} /\ job.one \in BOOLEAN
  BY <1>1, LastOrder, JobFacts, Products DEF imlim, LastOf
<1>3. \A i \in 0..MMAX : i > LastOf(job) <=> ~(i <= LastOf(job))
  BY <1>2
<1>4. ASSUME ~SynthOf(job) PROVE DOMAIN out = SizeOf(job, im)
  BY <1>4 DEF OutInv
<1>5. ASSUME ~SynthOf(job), NEW i \in 0..MMAX, Filled(job, th, im, "next", i) PROVE Holds(job, out, i)
  BY <1>1, <1>5 DEF OutInv
<1>6. CASE ~job.one /\ im + job.nth <= imlim /\ im' = im + job.nth /\ pc' = "order" /\ UNCHANGED <<th, out>>
  <2>1. EndInv'
    BY <1>6 DEF EndInv
  <2>2. ASSUME ~SynthOf(job) PROVE DOMAIN out = SizeOf(job, im + job.nth)
    BY <1>4, <1>6, <2>2 DEF SizeOf
  <2>3. ASSUME NEW i \in 0..MMAX, Filled(job, th, im + job.nth, "order", i)
        PROVE  Filled(job, th, im, "next", i)
    <3>1. CASE i <= LastOf(job)
      <4>1. (\E u \in 0..(th - 1) : Share(job, u, i)) \/ (Share(job, th, i) /\ i < im + job.nth)
        BY <1>3, <1>6, <2>3, <3>1 DEF Filled
      <4>2. CASE \E u \in 0..(th - 1) : Share(job, u, i)
        BY <1>6, <3>1, <4>2 DEF Filled
      <4>3. CASE Share(job, th, i) /\ i < im + job.nth
        <5>1. i <= im
          BY <1>1, <1>2, <1>6, <4>3, ShareNext
        <5>2. i < im \/ i = im
          BY <1>2, <5>1
        <5> QED BY <1>6, <3>1, <4>3, <5>2 DEF Filled
      <4> QED BY <4>1, <4>2, <4>3
    <3>2. CASE ~(i <= LastOf(job))
      BY <1>6, <2>3, <3>2 DEF Filled
    <3> QED BY <3>1, <3>2
  <2> QED BY <1>1, <1>5, <1>6, <2>1, <2>2, <2>3 DEF OutInv
<1>7. CASE /\ ~job.one /\ im + job.nth > imlim /\ th + 1 < job.nth /\ th + 1 <= imlim
           /\ th' = th + 1 /\ im' = th + 1 /\ pc' = "order" /\ UNCHANGED out
  <2>1. EndInv'
    BY <1>7 DEF EndInv
  <2>2. ASSUME ~SynthOf(job) PROVE DOMAIN out = SizeOf(job, th + 1)
    BY <1>4, <1>7, <2>2 DEF SizeOf
  <2>3. ASSUME NEW i \in 0..MMAX, Filled(job, th + 1, th + 1, "order", i)
        PROVE  Filled(job, th, im, "next", i)
    <3>1. CASE i <= LastOf(job)
      <4>1. (\E u \in 0..((th + 1) - 1) : Share(job, u, i)) \/ (Share(job, th + 1, i) /\ i < th + 1)
        BY <1>3, <1>7, <2>3, <3>1 DEF Filled
      <4>2. ~(Share(job, th + 1, i) /\ i < th + 1)
        <5>1. th + 1 \in Nat /\ i \in Nat
          BY <1>2
        <5>2. Share(job, th + 1, i) => th + 1 <= i
          BY <1>1, <5>1, ShareFrom
        <5> QED BY <5>1, <5>2
      <4>3. PICK u \in 0..th : Share(job, u, i)
        BY <1>2, <4>1, <4>2
      <4>4. CASE u = th
        <5>1. i < im + job.nth
          BY <1>2, <1>7, <3>1
        <5>2. i <= im
          BY <1>1, <1>2, <1>7, <4>3, <4>4, <5>1, ShareNext
        <5>3. i < im \/ i = im
          BY <1>2, <5>2
        <5> QED BY <1>7, <3>1, <4>3, <4>4, <5>3 DEF Filled
      <4>5. CASE u # th
        <5>1. u \in 0..(th - 1)
          BY <1>2, <4>5
        <5> QED BY <1>7, <3>1, <4>3, <5>1 DEF Filled
      <4> QED BY <4>4, <4>5
    <3>2. CASE ~(i <= LastOf(job))
      BY <1>7, <2>3, <3>2 DEF Filled
    <3> QED BY <3>1, <3>2
  <2> QED BY <1>1, <1>5, <1>7, <2>1, <2>2, <2>3 DEF OutInv
<1>8. CASE /\ job.one \/ (im + job.nth > imlim /\ (th + 1 >= job.nth \/ th + 1 > imlim))
           /\ pc' = "done"
           /\ out' = (IF Synth \/ job.one \/ job.kern # "fly" THEN out ELSE FlyAnaEnd(out))
           /\ UNCHANGED <<th, im>>
  <2>1. EndInv'
    BY <1>1, <1>2, <1>8 DEF EndInv, LastOf
  <2>2. ASSUME NEW i \in 0..MMAX, Filled(job, th, im, "done", i),
               i <= LastOf(job) \/ job.one \/ job.kern # "fly"
        PROVE  Filled(job, th, im, "next", i)
    <3>1. CASE job.one
      BY <2>2, <3>1 DEF Filled
    <3>2. CASE ~job.one /\ i <= LastOf(job)
      BY <1>3, <2>2, <3>2 DEF Filled
    <3>3. CASE ~job.one /\ ~(i <= LastOf(job))
      BY <1>3, <2>2, <3>3 DEF Filled
    <3> QED BY <1>2, <3>1, <3>2, <3>3
  <2>3. CASE SynthOf(job)
    BY <1>1, <2>1, <2>3 DEF OutInv
  <2>4. CASE ~SynthOf(job) /\ (job.one \/ job.kern # "fly")
    <3>1. out' = out
      BY <1>8, <2>4
    <3> QED BY <1>1, <1>4, <1>5, <1>8, <2>1, <2>2, <2>4, <3>1 DEF OutInv
  <2>5. CASE ~SynthOf(job) /\ ~job.one /\ job.kern = "fly"
    <3>1. out' = FlyAnaEnd(out)
      BY <1>8, <2>5 DEF Synth, SynthOf
    <3>2. DOMAIN out = SizeOf(job, im) /\ DOMAIN out = 0..LiM(LMAX, MMAX)
      BY <1>4, <2>5 DEF SizeOf
    <3>3. CASE imlim < MMAX
      <4> DEFINE f == imlim + 1
      <4>1. f \in 0..MMAX /\ f = LastOf(job) + 1 /\ LastOf(job) \in Nat
        BY <1>2, <3>3
      <4>2. out' = ZeroFrom(out, f)
        BY <3>1, <3>3 DEF FlyAnaEnd
      <4> HIDE DEF f
      <4>3. Zeroed(out', out, f)
        BY <3>2, <4>1, <4>2, ZeroIs
      <4>4. ASSUME NEW i \in 0..MMAX, Filled(job, th, im, "done", i)
            PROVE  Holds(job, out', i)
        <5> SUFFICES ASSUME NEW l \in (i * MRES)..LMAX PROVE out'[Pos(i, l)] = ResultOf(job, i, l)
          BY <2>5 DEF Holds, Place
        <5>1. CASE i <= LastOf(job)
          <6>1. Holds(job, out, i)
            BY <1>5, <2>2, <2>5, <4>4, <5>1
          <6>2. ~(i >= f)
            BY <4>1, <5>1
          <6>3. out[Pos(i, l)] = ResultOf(job, i, l)
            BY <2>5, <6>1 DEF Holds, Place
          <6> QED BY <4>3, <6>2, <6>3 DEF Zeroed
        <5>2. CASE i > LastOf(job)
          <6>1. i >= f
            BY <4>1, <5>2
          <6>2. ResultOf(job, i, l) = Zero
            BY <1>1, <5>2, BeyondZero
          <6> QED BY <4>3, <6>1, <6>2 DEF Zeroed
        <5> QED BY <4>1, <5>1, <5>2
      <4>5. DOMAIN out' = SizeOf(job, im)
        BY <3>2, <4>3 DEF Zeroed
      <4> QED BY <1>1, <1>8, <2>1, <4>4, <4>5 DEF OutInv
    <3>4. CASE ~(imlim < MMAX)
      <4>1. out' = out
        BY <3>1, <3>4 DEF FlyAnaEnd
      <4>2. \A i \in 0..MMAX : i <= LastOf(job)
        BY <1>2, <3>4
      <4> QED BY <1>1, <1>4, <1>5, <1>8, <2>1, <2>2, <2>5, <4>1, <4>2 DEF OutInv
    <3> QED BY <3>3, <3>4
  <2> QED BY <2>3, <2>4, <2>5
<1> QED BY <1>6, <1>7, <1>8 DEF NextOrder

(* Every step keeps the invariant of the results. *)
LEMMA NextOut ==
  ASSUME Callable, CoreInv, OutInv, EndInv, [Next]_vars
  PROVE  OutInv' /\ EndInv'
<1>1. CASE Order0
  BY <1>1, WithinOrder DEF Order0
<1>2. CASE OrderM
  BY <1>2, WithinOrder DEF OrderM
<1>3. CASE Start
  <2>1. pc' \notin {"next", "done"}
    BY <1>3 DEF Start
  <2> QED BY <1>3, <2>1, WithinOrder DEF Start
<1>4. CASE Skip
  BY <1>4, WithinOrder DEF Skip
<1>5. CASE EndSkip
  <2>1. pc' \notin {"next", "done"}
    BY <1>5 DEF EndSkip
  <2> QED BY <1>5, <2>1, WithinOrder DEF EndSkip
<1>6. CASE SumPair
  BY <1>6, WithinOrder DEF SumPair
<1>7. CASE SumTail
  BY <1>7, WithinOrder DEF SumTail
<1>8. CASE NextBlock
  <2>1. pc' \notin {"next", "done"}
    BY <1>8 DEF NextBlock
  <2> QED BY <1>8, <2>1, WithinOrder DEF NextBlock
<1>9. CASE Finish
  BY <1>9, FinishOut
<1>10. CASE NextOrder
  BY <1>10, NextOrderOut
<1>11. CASE UNCHANGED vars
  BY <1>11 DEF vars, OutInv, EndInv
<1> QED BY <1>1, <1>2, <1>3, <1>4, <1>5, <1>6, <1>7, <1>8, <1>9, <1>10, <1>11 DEF Next

(* At the end every order counts as found. *)
LEMMA AllFilled ==
  ASSUME CoreInv, EndInv, pc = "done", ~job.one, NEW i \in 0..MMAX
  PROVE  Filled(job, th, im, pc, i)
<1>1. /\ job \in Jobs /\ im \in 0..MMAX /\ th \in 0..im /\ Share(job, th, im) /\ th < job.nth
  BY DEF CoreInv, OrderInv
<1>2. im \in Nat /\ th \in Nat /\ i \in Nat /\ job.nth \in Nat \ {0} /\ LastOf(job) \in Nat
  BY <1>1, JobFacts, Products, LastOrder DEF imlim, LastOf
<1>3. im + job.nth > LastOf(job) /\ (th + 1 >= job.nth \/ th + 1 > LastOf(job))
  BY DEF EndInv
<1>4. CASE i > LastOf(job)
  BY <1>4 DEF Filled
<1>5. CASE i <= LastOf(job)
  <2>1. PICK t \in 0..(job.nth - 1) : Share(job, t, i)
    BY <1>1, <1>2, ShareCovers
  <2>2. t \in Nat /\ t <= i
    BY <1>1, <1>2, <2>1, ShareFrom
  <2>3. CASE t < th
    <3>1. t \in 0..(th - 1)
      BY <1>2, <2>2, <2>3
    <3> QED BY <1>5, <2>1, <3>1 DEF Filled
  <2>4. CASE t = th
    <3>1. i < im + job.nth
      BY <1>2, <1>3, <1>5
    <3>2. i <= im
      BY <1>1, <1>2, <2>1, <2>4, <3>1, ShareNext
    <3>3. i < im \/ i = im
      BY <1>2, <3>2
    <3> QED BY <1>5, <2>1, <2>4, <3>3 DEF Filled
  <2>5. CASE t > th
    <3>1. t < job.nth
      BY <1>2, <2>1
    <3> QED BY <1>2, <1>3, <1>5, <2>2, <2>5, <3>1
  <2> QED BY <1>2, <2>2, <2>3, <2>4, <2>5
<1> QED BY <1>2, <1>4, <1>5

(* At the end the invariant gives every element of the result. *)
LEMMA OutputsAt ==
  ASSUME CoreInv, OutInv, EndInv
  PROVE  OutputsRight
<1> SUFFICES ASSUME pc = "done", ~Synth
             PROVE  IF job.one THEN \A l \in m..LMAX : out[l - m] = Result(im, l)
                    ELSE \A i \in 0..MMAX : \A l \in (i * MRES)..LMAX : out[Pos(i, l)] = Result(i, l)
  BY DEF OutputsRight
<1>1. \A i, l : Result(i, l) = ResultOf(job, i, l)
  BY DEF Result, ResultOf, Has, HasOf
<1>2. im \in 0..MMAX
  BY DEF CoreInv, OrderInv
<1>3. \A i \in 0..MMAX : Filled(job, th, im, pc, i) => Holds(job, out, i)
  BY DEF OutInv, Synth, SynthOf
<1>4. CASE job.one
  <2>1. Holds(job, out, im)
    BY <1>2, <1>3, <1>4 DEF Filled
  <2> QED BY <1>1, <1>4, <2>1 DEF Holds, Place, m
<1>5. CASE ~job.one
  <2>1. \A i \in 0..MMAX : Holds(job, out, i)
    BY <1>3, <1>5, AllFilled
  <2> QED BY <1>1, <1>5, <2>1 DEF Holds, Place
<1> QED BY <1>4, <1>5

(* When an analysis ends, every element of its result holds its own order and degree, made *)
(* from accumulators that were set, and all beyond the truncation is zero: the stores of *)
(* one order leave the others alone, and the threads' shares cover all orders. *)
THEOREM OutputsAreRight ==
  ASSUME Callable
  PROVE  Spec => []OutputsRight
<1>1. Init => CoreInv /\ OutInv /\ EndInv
  BY InitCore, InitOut
<1>2. CoreInv /\ OutInv /\ EndInv /\ [Next]_vars => (CoreInv /\ OutInv /\ EndInv)'
  BY NextCore, NextOut
<1>3. CoreInv /\ OutInv /\ EndInv => OutputsRight
  BY OutputsAt
<1> QED BY <1>1, <1>2, <1>3, PTL DEF Spec
====
