------------------------ MODULE FourierRows_proofs ------------------------
(***************************************************************************)
(* For any calls: what the stores of synthesis leave in the rows of an     *)
(* order, what analysis finds there, and which weights it reads.           *)
(***************************************************************************)
EXTENDS FourierRows, FiniteSetTheorems, TLAPS

-----------------------------------------------------------------------------
(* Induction over the natural numbers, for sets rather than predicates.     *)

(* A set with 0 and with the successor of each of its numbers has all. *)
LEMMA SetInduction ==
  ASSUME NEW P, 0 \in P, \A e \in Nat : e \in P => e + 1 \in P
  PROVE  Nat \subseteq P
<1> SUFFICES ASSUME NEW n \in Nat, n \notin P PROVE FALSE
  OBVIOUS
<1> DEFINE D == {e \in 0..n : e \notin P}
           f == [e \in D |-> e - 1]
<1>1. IsFiniteSet(0..n)
  BY FS_Interval
<1>2. IsFiniteSet(D)
  BY <1>1, FS_Subset
<1>3. IsFiniteSet(D \ {n}) /\ Cardinality(D \ {n}) = Cardinality(D) - 1 /\ Cardinality(D) \in Nat
  <2>1. n \in D
    OBVIOUS
  <2> QED BY <1>2, <2>1, FS_RemoveElement, FS_CardinalityType
<1>4. \A e \in D : e - 1 \in D \ {n}
  <2> TAKE e \in D
  <2>1. e \in Nat /\ e # 0
    OBVIOUS
  <2>2. e - 1 \in Nat /\ (e - 1) + 1 = e /\ e - 1 \in 0..n /\ e - 1 # n
    BY <2>1
  <2>3. e - 1 \notin P
    BY <2>2
  <2> QED BY <2>2, <2>3
<1>5. f \in Injection(D, D \ {n})
  BY <1>4 DEF Injection, IsInjective
<1>6. Cardinality(D) <= Cardinality(D \ {n})
  BY <1>2, <1>3, <1>5, FS_Injection DEF ExistsInjection
<1> QED BY <1>3, <1>6

(* A set of natural numbers which is not empty has a least element. *)
LEMMA LeastExists ==
  ASSUME NEW S \in SUBSET Nat, S # {}
  PROVE  \E m \in S : \A n \in S : m <= n
<1> SUFFICES ASSUME \A m \in S : \E n \in S : ~(m <= n) PROVE FALSE
  OBVIOUS
<1> DEFINE P == {e \in Nat : \A n \in S : n >= e}
<1>1. 0 \in P
  OBVIOUS
<1>2. \A e \in Nat : e \in P => e + 1 \in P
  <2> SUFFICES ASSUME NEW e \in Nat, e \in P, NEW n \in S, ~(n >= e + 1) PROVE FALSE
    OBVIOUS
  <2>1. n = e
    OBVIOUS
  <2>2. PICK m \in S : ~(n <= m)
    OBVIOUS
  <2> QED BY <2>1, <2>2
<1> HIDE DEF P
<1>3. Nat \subseteq P
  BY <1>1, <1>2, SetInduction
<1>4. PICK n \in S : TRUE
  OBVIOUS
<1>5. n + 1 \in P
  BY <1>3, <1>4
<1> QED BY <1>4, <1>5 DEF P

-----------------------------------------------------------------------------
(* A call of the program. *)
LEMMA CallFacts ==
  ASSUME NEW c \in Calls
  PROVE  /\ c.simd \in Simds /\ c.magic \in BOOLEAN /\ c.kernel \in {"fly", "mic"} /\ c.kind \in {"m0", "m", "fixed"}
         /\ c.nlat \in Nat \ {0} /\ c.nphi \in Nat \ {0} /\ c.im \in Nat /\ c.tm \in Nat /\ c.nway \in Nat \ {0}
         /\ CallExists(c)
BY CallsAssumption DEF CallType

(* Its sizes. *)
LEMMA SizeFacts ==
  ASSUME NEW c \in Calls
  PROVE  /\ VSIZE2(c) \in {1, 2, 4, 8} /\ NLAT_2(c) \in Nat /\ Blocks(c) \in Nat /\ NW(c) \in Nat \ {0}
         /\ NLAT_2(c) <= Blocks(c) * VSIZE2(c) /\ (Blocks(c) - 1) * VSIZE2(c) < NLAT_2(c)
         /\ Blocks(c) >= 2
<1>1. /\ c.simd \in Simds /\ c.nlat \in Nat \ {0} /\ c.nway \in Nat \ {0} /\ c.nlat >= 4 * VSIZE2(c)
  BY CallFacts DEF CallExists, GridAccepted
<1>2. /\ c.simd = "scalar" => VSIZE2(c) = 1
      /\ c.simd = "sse2" => VSIZE2(c) = 2
      /\ c.simd = "avx" => VSIZE2(c) = 4
      /\ c.simd = "avx512" => VSIZE2(c) = 8
  BY DEF VSIZE2
<1> DEFINE V == VSIZE2(c)
<1>3. V \in {1, 2, 4, 8}
  BY <1>1, <1>2 DEF Simds
<1> HIDE DEF V
<1> DEFINE n == NLAT_2(c)
           B == (n + V - 1) \div V
<1>4. n \in Nat /\ n >= 2 * V
  <2> DEFINE x == c.nlat
  <2>1. x \in Nat /\ x >= 4 * V /\ n = (x + 1) \div 2
    BY <1>1 DEF NLAT_2, V
  <2> HIDE DEF x, n
  <2> QED BY <1>3, <2>1
<1> HIDE DEF n
<1>5. B \in Nat /\ n <= B * V /\ (B - 1) * V < n /\ B >= 2
  <2>1. CASE V = 1
    BY <1>4, <2>1
  <2>2. CASE V = 2
    BY <1>4, <2>2
  <2>3. CASE V = 4
    BY <1>4, <2>3
  <2>4. CASE V = 8
    BY <1>4, <2>4
  <2> QED BY <1>3, <2>1, <2>2, <2>3, <2>4
<1>6. B = Blocks(c)
  BY DEF B, Blocks, n, V
<1>7. NW(c) \in Nat \ {0}
  BY <1>1 DEF NW
<1> HIDE DEF B
<1> QED BY <1>3, <1>4, <1>5, <1>6, <1>7 DEF V, n

-----------------------------------------------------------------------------
(* The weights.                                                            *)

(* The first block that analysis sums. *)
Start(c) == IF c.im = 0 THEN 0 ELSE c.tm \div VSIZE2(c)

(* The latitudes before the next block, from the first one, have been read; blocks go on until
   the equator is passed. *)
WeightsInv ==
  /\ call \in Calls
  /\ pc \in {"sums", "done"} =>
       /\ k \in Nat /\ Start(call) <= k /\ k <= Blocks(call) - 1 + NW(call)
       /\ weighed = (Start(call) * VSIZE2(call))..(k * VSIZE2(call) - 1)
       /\ IF pc = "sums" THEN k < Blocks(call) ELSE k >= Blocks(call)
  /\ pc \notin {"sums", "done"} => weighed = {}

(* Sums start before the equator, at or before the polar optimisation. *)
LEMMA StartFacts ==
  ASSUME NEW c \in Calls
  PROVE  /\ Start(c) \in Nat /\ Start(c) < Blocks(c)
         /\ Start(c) * VSIZE2(c) <= (IF c.im = 0 THEN 0 ELSE c.tm)
<1>1. /\ VSIZE2(c) \in {1, 2, 4, 8} /\ NLAT_2(c) \in Nat /\ Blocks(c) \in Nat
      /\ NLAT_2(c) <= Blocks(c) * VSIZE2(c) /\ Blocks(c) >= 2
  BY SizeFacts
<1>2. c.tm \in Nat /\ c.tm < NLAT_2(c) /\ c.im \in Nat
  BY CallFacts DEF CallExists
<1> DEFINE t == c.tm
           V == VSIZE2(c)
           B == Blocks(c)
           s == t \div V
<1>3. V \in {1, 2, 4, 8} /\ t \in Nat /\ B \in Nat /\ t < B * V
  <2> DEFINE x == B * V
  <2>1. x \in Nat
    BY <1>1
  <2> HIDE DEF x
  <2>2. NLAT_2(c) <= x
    BY <1>1 DEF x
  <2>3. t < x
    BY <1>1, <1>2, <2>1, <2>2
  <2> QED BY <1>1, <1>2, <2>3 DEF x
<1> HIDE DEF t, V, B
<1>4. s \in Nat /\ s < B /\ s * V <= t
  <2>1. CASE V = 1
    BY <1>3, <2>1
  <2>2. CASE V = 2
    BY <1>3, <2>2
  <2>3. CASE V = 4
    BY <1>3, <2>3
  <2>4. CASE V = 8
    BY <1>3, <2>4
  <2> QED BY <1>3, <2>1, <2>2, <2>3, <2>4
<1>5. CASE c.im = 0
  BY <1>1, <1>5 DEF Start
<1>6. CASE c.im # 0
  BY <1>4, <1>6 DEF Start, t, V, B
<1> QED BY <1>5, <1>6

(* The latitudes of the next blocks follow those read. *)
LEMMA RangeGrows ==
  ASSUME NEW s \in Nat, NEW x \in Nat, NEW w \in Nat, NEW v \in {1, 2, 4, 8}, s <= x
  PROVE  ((s * v)..(x * v - 1)) \cup ((x * v)..((x + w) * v - 1)) = (s * v)..((x + w) * v - 1)
<1>1. CASE v = 1
  BY <1>1
<1>2. CASE v = 2
  BY <1>2
<1>3. CASE v = 4
  BY <1>3
<1>4. CASE v = 8
  BY <1>4
<1> QED BY <1>1, <1>2, <1>3, <1>4

(* Every step reads the blocks in turn. *)
LEMMA WeightsStep ==
  ASSUME WeightsInv, [Next]_vars
  PROVE  WeightsInv'
<1>1. call \in Calls
  BY DEF WeightsInv
<1>2. CASE UNCHANGED vars
  BY <1>2 DEF WeightsInv, vars, Start, VSIZE2, Blocks, NLAT_2, NW
<1>3. CASE FlyPoles \/ FixedPoles \/ NoPoles \/ FlyBlock \/ MicBlock \/ MicStoreM0 \/ MicStore
  <2>1. call' = call /\ weighed' = weighed /\ pc \notin {"sums", "done"} /\ pc' \notin {"sums", "done"}
    BY <1>3 DEF FlyPoles, FixedPoles, NoPoles, FlyBlock, MicBlock, MicStoreM0, MicStore
  <2> QED BY <1>1, <2>1 DEF WeightsInv
<1>4. CASE Analyse
  <2>1. call' = call /\ weighed' = {} /\ pc' = "sums" /\ k' = Start(call)
    BY <1>4 DEF Analyse, Start, WeightsInv
  <2>2. Start(call) \in Nat /\ Start(call) < Blocks(call) /\ NW(call) \in Nat \ {0} /\ Blocks(call) \in Nat
    BY <1>1, StartFacts, SizeFacts
  <2>3. (Start(call) * VSIZE2(call))..(Start(call) * VSIZE2(call) - 1) = {}
    <3> DEFINE x == Start(call) * VSIZE2(call)
    <3>1. x \in Nat
      BY <1>1, <2>2, SizeFacts
    <3> HIDE DEF x
    <3> QED BY <3>1 DEF x
  <2>4. /\ Start(call)' = Start(call) /\ VSIZE2(call)' = VSIZE2(call) /\ Blocks(call)' = Blocks(call)
        /\ NW(call)' = NW(call)
    BY <2>1 DEF Start, VSIZE2, Blocks, NLAT_2, NW
  <2> QED BY <1>1, <2>1, <2>2, <2>3, <2>4 DEF WeightsInv
<1>5. CASE SumBlock
  <2>1. /\ pc = "sums" /\ call' = call /\ k' = k + NW(call)
        /\ weighed' = weighed \cup (k * VSIZE2(call))..((k + NW(call)) * VSIZE2(call) - 1)
        /\ pc' = (IF k' < Blocks(call) THEN "sums" ELSE "done")
    BY <1>5 DEF SumBlock
  <2>2. /\ VSIZE2(call) \in {1, 2, 4, 8} /\ Blocks(call) \in Nat /\ NW(call) \in Nat \ {0} /\ Start(call) \in Nat
        /\ k \in Nat /\ Start(call) <= k /\ k < Blocks(call)
        /\ weighed = (Start(call) * VSIZE2(call))..(k * VSIZE2(call) - 1)
    BY <1>1, <2>1, SizeFacts, StartFacts DEF WeightsInv
  <2>3. weighed' = (Start(call) * VSIZE2(call))..(k' * VSIZE2(call) - 1)
    <3> DEFINE s == Start(call)
               v == VSIZE2(call)
               w == NW(call)
    <3>1. /\ s \in Nat /\ k \in Nat /\ w \in Nat /\ v \in {1, 2, 4, 8} /\ s <= k
          /\ weighed' = ((s * v)..(k * v - 1)) \cup ((k * v)..((k + w) * v - 1)) /\ k' = k + w
      BY <2>1, <2>2
    <3> HIDE DEF s, v, w
    <3>2. ((s * v)..(k * v - 1)) \cup ((k * v)..((k + w) * v - 1)) = (s * v)..((k + w) * v - 1)
      BY <3>1, RangeGrows
    <3> QED BY <3>1, <3>2 DEF s, v
  <2>4. k' \in Nat /\ Start(call) <= k' /\ k' <= Blocks(call) - 1 + NW(call)
    BY <2>1, <2>2
  <2>5. /\ Start(call)' = Start(call) /\ VSIZE2(call)' = VSIZE2(call) /\ Blocks(call)' = Blocks(call)
        /\ NW(call)' = NW(call)
    BY <2>1 DEF Start, VSIZE2, Blocks, NLAT_2, NW
  <2>6. IF pc' = "sums" THEN k' < Blocks(call) ELSE k' >= Blocks(call)
    BY <2>1, <2>2, <2>4
  <2> QED BY <1>1, <2>1, <2>3, <2>4, <2>5, <2>6 DEF WeightsInv
<1> QED BY <1>2, <1>3, <1>4, <1>5 DEF Next

(* The padding is long enough for blocks of up to 8 vectors. *)
NarrowSums == \A c \in Calls : NW(c) <= 8

(* What has been read is within the weights, and in the end all of them have been read. *)
LEMMA WeightsHold ==
  ASSUME NarrowSums, WeightsInv
  PROVE  WeightsRead
<1>1. call \in Calls
  BY DEF WeightsInv
<1> DEFINE n == NLAT_2(call)
           B == Blocks(call)
           V == VSIZE2(call)
           w == NW(call)
           S == Start(call)
           t == IF call.im = 0 THEN 0 ELSE call.tm
<1>2. V \in {1, 2, 4, 8} /\ n \in Nat /\ B \in Nat /\ w \in Nat /\ n <= B * V /\ (B - 1) * V < n /\ w <= 8
  BY <1>1, SizeFacts DEF NarrowSums
<1>3. S \in Nat /\ t \in Nat /\ S * V <= t
  BY <1>1, StartFacts, CallFacts
<1>4. CASE pc \notin {"sums", "done"}
  BY <1>4 DEF WeightsInv, WeightsRead
<1>5. CASE pc \in {"sums", "done"}
  <2>1. /\ k \in Nat /\ S <= k /\ k <= B - 1 + w /\ weighed = (S * V)..(k * V - 1)
        /\ (pc = "done" => k >= B)
    BY <1>5 DEF WeightsInv
  <2> DEFINE ok == /\ (S * V)..(k * V - 1) \subseteq 0..(n + 8 * V - 2)
                   /\ k >= B => t..(n - 1) \subseteq (S * V)..(k * V - 1)
  <2> HIDE DEF n, B, V, w, S, t
  <2>2. ok
    <3>1. CASE V = 1
      BY <1>2, <1>3, <2>1, <3>1
    <3>2. CASE V = 2
      BY <1>2, <1>3, <2>1, <3>2
    <3>3. CASE V = 4
      BY <1>2, <1>3, <2>1, <3>3
    <3>4. CASE V = 8
      BY <1>2, <1>3, <2>1, <3>4
    <3> QED BY <1>2, <3>1, <3>2, <3>3, <3>4
  <2>3. weighed \subseteq Weights(call)
    BY <2>1, <2>2 DEF Weights, n, V
  <2>4. pc = "done" => t..(n - 1) \subseteq weighed
    BY <2>1, <2>2
  <2> QED BY <2>3, <2>4 DEF WeightsRead, t, n
<1> QED BY <1>4, <1>5

(* However many vectors are taken at a time, up to 8 as in the padding of grid_weights, analysis
   reads no weight past the padding, and the weight of each latitude from the polar optimisation
   to the equator. *)
THEOREM AllWeightsRead ==
  ASSUME NarrowSums
  PROVE  Spec => []WeightsRead
<1>1. Init => WeightsInv
  BY DEF Init, WeightsInv
<1>2. WeightsInv /\ [Next]_vars => WeightsInv'
  BY WeightsStep
<1>3. WeightsInv => WeightsRead
  BY WeightsHold
<1> QED BY <1>1, <1>2, <1>3, PTL DEF Spec

-----------------------------------------------------------------------------
(* Linear forms.                                                           *)

(* A form has no coefficient 0. *)
IsForm(a) == a = [s \in DOMAIN a |-> a[s]] /\ \A s \in DOMAIN a : a[s] \in Int \ {0}

(* A form is given by its coefficients. *)
LEMMA FormsEqual ==
  ASSUME NEW a, NEW b, IsForm(a), IsForm(b), \A s : At(a, s) = At(b, s)
  PROVE  a = b
<1>1. \A s : s \in DOMAIN a <=> At(a, s) # 0
  BY DEF IsForm, At
<1>2. \A s : s \in DOMAIN b <=> At(b, s) # 0
  BY DEF IsForm, At
<1>3. DOMAIN a = DOMAIN b
  BY <1>1, <1>2
<1>4. \A s \in DOMAIN a : a[s] = b[s]
  BY <1>3 DEF At
<1> QED BY <1>3, <1>4 DEF IsForm

(* Coefficients are integers. *)
LEMMA AtInt ==
  ASSUME NEW a, IsForm(a), NEW s
  PROVE  At(a, s) \in Int
BY DEF IsForm, At

(* Sums. *)
LEMMA PlusForm ==
  ASSUME NEW a, NEW b, IsForm(a), IsForm(b)
  PROVE  IsForm(a (+) b) /\ \A s : At(a (+) b, s) = At(a, s) + At(b, s)
<1> DEFINE sum(s) == At(a, s) + At(b, s)
           S == {x \in DOMAIN a \cup DOMAIN b : sum(x) # 0}
<1>1. \A s : At(a, s) \in Int /\ At(b, s) \in Int
  BY AtInt
<1>2. \A s : sum(s) \in Int
  BY <1>1
<1>3. a (+) b = [s \in S |-> sum(s)]
  BY DEF (+)
<1>4. \A s : s \in S <=> (s \in DOMAIN a \/ s \in DOMAIN b) /\ sum(s) # 0
  OBVIOUS
<1>5. \A s : s \notin DOMAIN a /\ s \notin DOMAIN b => sum(s) = 0
  BY DEF At
<1> HIDE DEF S, sum
<1>6. \A s : s \in S <=> sum(s) # 0
  BY <1>4, <1>5
<1>7. IsForm(a (+) b)
  BY <1>2, <1>3, <1>6 DEF IsForm
<1>8. \A s : At(a (+) b, s) = sum(s)
  BY <1>3, <1>6 DEF At
<1> QED BY <1>7, <1>8 DEF sum

(* Multiples. *)
LEMMA TimesForm ==
  ASSUME NEW n \in Int, n # 0, NEW a, IsForm(a)
  PROVE  IsForm(Times(n, a)) /\ \A s : At(Times(n, a), s) = n * At(a, s)
<1>1. Times(n, a) = [s \in DOMAIN a |-> n * a[s]]
  BY DEF Times
<1>2. \A s \in DOMAIN a : a[s] \in Int \ {0} /\ n * a[s] \in Int \ {0}
  BY DEF IsForm
<1>3. IsForm(Times(n, a))
  BY <1>1, <1>2 DEF IsForm
<1>4. ASSUME NEW s PROVE At(Times(n, a), s) = n * At(a, s)
  <2>1. CASE s \in DOMAIN a
    BY <1>1, <2>1 DEF At
  <2>2. CASE s \notin DOMAIN a
    BY <1>1, <2>2 DEF At
  <2> QED BY <2>1, <2>2
<1> QED BY <1>3, <1>4

(* The opposite of a form. *)
LEMMA NegativeForm ==
  ASSUME NEW a, IsForm(a)
  PROVE  IsForm(Times(-1, a)) /\ \A s : At(Times(-1, a), s) = (-1) * At(a, s)
<1>1. Times(-1, a) = [s \in DOMAIN a |-> (-1) * a[s]]
  BY DEF Times
<1>2. \A s \in DOMAIN a : a[s] \in Int \ {0} /\ (-1) * a[s] \in Int \ {0}
  BY DEF IsForm
<1>3. IsForm(Times(-1, a))
  BY <1>1, <1>2 DEF IsForm
<1>4. ASSUME NEW s PROVE At(Times(-1, a), s) = (-1) * At(a, s)
  <2>1. CASE s \in DOMAIN a
    BY <1>1, <2>1 DEF At
  <2>2. CASE s \notin DOMAIN a
    BY <1>1, <2>2 DEF At
  <2> QED BY <2>1, <2>2
<1> QED BY <1>3, <1>4

(* Differences. *)
LEMMA MinusForm ==
  ASSUME NEW a, NEW b, IsForm(a), IsForm(b)
  PROVE  IsForm(a (-) b) /\ \A s : At(a (-) b, s) = At(a, s) - At(b, s)
<1>1. IsForm(Times(-1, b)) /\ \A s : At(Times(-1, b), s) = (-1) * At(b, s)
  BY NegativeForm
<1>2. a (-) b = a (+) Times(-1, b)
  BY DEF (-)
<1>3. IsForm(a (-) b) /\ \A s : At(a (-) b, s) = At(a, s) + At(Times(-1, b), s)
  BY <1>1, <1>2, PlusForm
<1>4. \A s : At(a, s) \in Int /\ At(b, s) \in Int
  BY AtInt
<1>5. ASSUME NEW s PROVE At(a (-) b, s) = At(a, s) - At(b, s)
  <2>1. At(a (-) b, s) = At(a, s) + ((-1) * At(b, s))
    BY <1>1, <1>3
  <2> QED BY <1>4, <2>1
<1> QED BY <1>3, <1>5

(* Nothing. *)
LEMMA ZeroForm == IsForm(Zero) /\ \A s : At(Zero, s) = 0
BY DEF IsForm, Zero, At

(* A symbol. *)
LEMMA OneForm ==
  ASSUME NEW x
  PROVE  IsForm(One(x)) /\ \A s : At(One(x), s) = IF s = x THEN 1 ELSE 0
<1>1. One(x) = [s \in {x} |-> 1]
  BY DEF One
<1> QED BY <1>1 DEF IsForm, At

(* What can be done to forms. *)
LEMMA FormLaws ==
  ASSUME NEW a, NEW b, IsForm(a), IsForm(b)
  PROVE  /\ a (+) b = b (+) a
         /\ a (+) Zero = a /\ a (-) Zero = a
         /\ a (-) Times(-1, b) = a (+) b
<1>1. \A s : At(a, s) \in Int /\ At(b, s) \in Int
  BY AtInt
<1>2. a (+) b = b (+) a
  <2>1. IsForm(a (+) b) /\ IsForm(b (+) a)
        /\ \A s : At(a (+) b, s) = At(a, s) + At(b, s) /\ At(b (+) a, s) = At(b, s) + At(a, s)
    BY PlusForm
  <2>2. \A s : At(a (+) b, s) = At(b (+) a, s)
    BY <1>1, <2>1
  <2> QED BY <2>1, <2>2, FormsEqual
<1>3. a (+) Zero = a
  <2>1. IsForm(a (+) Zero) /\ \A s : At(a (+) Zero, s) = At(a, s) + At(Zero, s)
    BY PlusForm, ZeroForm
  <2>2. \A s : At(a (+) Zero, s) = At(a, s)
    BY <1>1, <2>1, ZeroForm
  <2> QED BY <2>1, <2>2, FormsEqual
<1>4. a (-) Zero = a
  <2>1. IsForm(a (-) Zero) /\ \A s : At(a (-) Zero, s) = At(a, s) - At(Zero, s)
    BY MinusForm, ZeroForm
  <2>2. \A s : At(a (-) Zero, s) = At(a, s)
    BY <1>1, <2>1, ZeroForm
  <2> QED BY <2>1, <2>2, FormsEqual
<1>5. a (-) Times(-1, b) = a (+) b
  <2> DEFINE z == Times(-1, b)
  <2>1. IsForm(z) /\ \A s : At(z, s) = (-1) * At(b, s)
    BY NegativeForm
  <2> HIDE DEF z
  <2>2. IsForm(a (-) z) /\ IsForm(a (+) b)
        /\ \A s : At(a (-) z, s) = At(a, s) - At(z, s) /\ At(a (+) b, s) = At(a, s) + At(b, s)
    BY <2>1, MinusForm, PlusForm
  <2>3. \A s : At(a (-) z, s) = At(a (+) b, s)
    BY <1>1, <2>1, <2>2
  <2>4. a (-) z = a (+) b
    BY <2>2, <2>3, FormsEqual
  <2> QED BY <2>4 DEF z
<1> QED BY <1>2, <1>3, <1>4, <1>5

-----------------------------------------------------------------------------
(* The field.                                                              *)

Even == {"er", "ei"}
Odd == {"od", "oi"}

(* North of the equator, on it, and south of it. *)
LEMMA PartIs ==
  ASSUME NEW c \in Calls, NEW f \in Even \cup Odd, NEW y \in Nat, y < c.nlat
  PROVE  /\ y < c.nlat - 1 - y => Part(c, f, y) = One(<<f, y>>)
         /\ y = c.nlat - 1 - y => Part(c, f, y) = IF f \in Even THEN One(<<f, y>>) ELSE Zero
         /\ y > c.nlat - 1 - y =>
              Part(c, f, y) = IF f \in Even THEN One(<<f, c.nlat - 1 - y>>) ELSE Times(-1, One(<<f, c.nlat - 1 - y>>))
<1> DEFINE L == c.nlat
<1>1. L \in Nat
  BY CallFacts
<1>2. Even \cap Odd = {}
  BY DEF Even, Odd
<1>3. Part(c, f, y) =
        CASE y >= L -> One(<<"junk", y>>)
          [] y = L - 1 - y /\ f \in Odd -> Zero
          [] y < L - 1 - y \/ (y = L - 1 - y /\ f \in Even) -> One(<<f, y>>)
          [] y \in (L - 1 - y + 1)..(L - 1) /\ f \in Even -> One(<<f, L - 1 - y>>)
          [] y \in (L - 1 - y + 1)..(L - 1) /\ f \in Odd -> Times(-1, One(<<f, L - 1 - y>>))
  BY DEF Part, Even, Odd
<1> HIDE DEF L
<1>4. ~(y >= L) /\ (y > L - 1 - y <=> y \in (L - 1 - y + 1)..(L - 1))
  BY <1>1 DEF L
<1>5. CASE y < L - 1 - y
  <2>1. ~(y = L - 1 - y) /\ ~(y > L - 1 - y)
    BY <1>1, <1>5
  <2> QED BY <1>3, <1>4, <1>5, <2>1 DEF L
<1>6. CASE y = L - 1 - y
  <2>1. ~(y < L - 1 - y) /\ ~(y > L - 1 - y)
    BY <1>1, <1>6
  <2> QED BY <1>2, <1>3, <1>4, <1>6, <2>1 DEF L
<1>7. CASE y > L - 1 - y
  <2>1. ~(y < L - 1 - y) /\ ~(y = L - 1 - y)
    BY <1>1, <1>7
  <2> QED BY <1>2, <1>3, <1>4, <1>7, <2>1 DEF L
<1> QED BY <1>1, <1>5, <1>6, <1>7 DEF L

(* Parts are forms; even parts are the same at the mirror image of a latitude, odd parts the opposite. *)
LEMMA PartFacts ==
  ASSUME NEW c \in Calls, NEW f \in Even \cup Odd, NEW y \in Nat, y < c.nlat
  PROVE  /\ IsForm(Part(c, f, y))
         /\ f \in Even => Part(c, f, c.nlat - 1 - y) = Part(c, f, y)
         /\ f \in Odd => Part(c, f, c.nlat - 1 - y) = Times(-1, Part(c, f, y))
<1> DEFINE x == c.nlat - 1 - y
           one(z) == One(<<f, z>>)
<1>1. c.nlat \in Nat /\ x \in Nat /\ x < c.nlat /\ c.nlat - 1 - x = y
  BY CallFacts
<1>2. Even \cap Odd = {}
  BY DEF Even, Odd
<1>3. \A z : IsForm(one(z))
  BY OneForm
<1>4. \A z : IsForm(Times(-1, one(z))) /\ Times(-1, Times(-1, one(z))) = one(z)
  <2> TAKE z
  <2> DEFINE a == one(z)
             b == Times(-1, a)
             d == Times(-1, b)
  <2>1. IsForm(a)
    BY <1>3
  <2> HIDE DEF a
  <2>2. IsForm(b) /\ \A s : At(b, s) = (-1) * At(a, s)
    BY <2>1, NegativeForm
  <2> HIDE DEF b
  <2>3. IsForm(d) /\ \A s : At(d, s) = (-1) * At(b, s)
    BY <2>2, NegativeForm
  <2> HIDE DEF d
  <2>4. \A s : At(a, s) \in Int
    BY <2>1, AtInt
  <2>5. \A s : At(d, s) = At(a, s)
    BY <2>2, <2>3, <2>4
  <2>6. d = a
    BY <2>1, <2>3, <2>5, FormsEqual
  <2> QED BY <2>2, <2>6 DEF d, b, a
<1>5. IsForm(Zero) /\ Times(-1, Zero) = Zero
  <2>1. IsForm(Times(-1, Zero)) /\ \A s : At(Times(-1, Zero), s) = (-1) * At(Zero, s)
    BY ZeroForm, NegativeForm
  <2>2. \A s : At(Times(-1, Zero), s) = At(Zero, s)
    BY <2>1, ZeroForm
  <2> QED BY <2>1, <2>2, ZeroForm, FormsEqual
<1>6. /\ y < x => Part(c, f, y) = one(y)
      /\ y = x => Part(c, f, y) = IF f \in Even THEN one(y) ELSE Zero
      /\ y > x => Part(c, f, y) = IF f \in Even THEN one(x) ELSE Times(-1, one(x))
  BY PartIs
<1>7. /\ x < y => Part(c, f, x) = one(x)
      /\ x > y => Part(c, f, x) = IF f \in Even THEN one(y) ELSE Times(-1, one(y))
  <2> HIDE DEF x
  <2> DEFINE z == x
  <2>1. z \in Nat /\ z < c.nlat /\ c.nlat - 1 - z = y
    BY <1>1
  <2> HIDE DEF z
  <2>2. /\ z < c.nlat - 1 - z => Part(c, f, z) = One(<<f, z>>)
        /\ z > c.nlat - 1 - z =>
             Part(c, f, z) = IF f \in Even THEN One(<<f, c.nlat - 1 - z>>) ELSE Times(-1, One(<<f, c.nlat - 1 - z>>))
    BY <2>1, PartIs
  <2> QED BY <2>1, <2>2 DEF z
<1> HIDE DEF one
<1> DEFINE m == x
<1>8. m \in Nat /\ c.nlat - 1 - y = m
  BY <1>1
<1> HIDE DEF x, m
<1>9. CASE y < m
  BY <1>2, <1>3, <1>4, <1>6, <1>7, <1>8, <1>9 DEF m
<1>10. CASE y = m
  BY <1>2, <1>3, <1>5, <1>6, <1>8, <1>10 DEF m
<1>11. CASE y > m
  BY <1>2, <1>3, <1>4, <1>6, <1>7, <1>8, <1>11 DEF m
<1> QED BY <1>8, <1>9, <1>10, <1>11

(* The field at a latitude, and the same sums and differences of its parts. *)
Real(c, y) == Part(c, "er", y) (+) Part(c, "od", y)
Imag(c, y) == IF c.im = 0 THEN Zero ELSE Part(c, "ei", y) (+) Part(c, "oi", y)

(* The differences of the parts are the field at the mirror image. *)
LEMMA FieldFacts ==
  ASSUME NEW c \in Calls, NEW y \in Nat, y < c.nlat
  PROVE  /\ IsForm(Real(c, y)) /\ IsForm(Imag(c, y)) /\ (c.im = 0 => Imag(c, y) = Zero)
         /\ Part(c, "er", y) (-) Part(c, "od", y) = Real(c, c.nlat - 1 - y)
         /\ (IF c.im = 0 THEN Zero ELSE Part(c, "ei", y) (-) Part(c, "oi", y)) = Imag(c, c.nlat - 1 - y)
<1> DEFINE x == c.nlat - 1 - y
<1>1. "er" \in Even /\ "ei" \in Even /\ "od" \in Odd /\ "oi" \in Odd
  BY DEF Even, Odd
<1>2. /\ IsForm(Part(c, "er", y)) /\ IsForm(Part(c, "ei", y)) /\ IsForm(Part(c, "od", y)) /\ IsForm(Part(c, "oi", y))
      /\ Part(c, "er", x) = Part(c, "er", y) /\ Part(c, "ei", x) = Part(c, "ei", y)
      /\ Part(c, "od", x) = Times(-1, Part(c, "od", y)) /\ Part(c, "oi", x) = Times(-1, Part(c, "oi", y))
  BY <1>1, PartFacts
<1> HIDE DEF x
<1>3. IsForm(Real(c, y))
  BY <1>2, PlusForm DEF Real
<1>4. IsForm(Imag(c, y))
  BY <1>2, PlusForm, ZeroForm DEF Imag
<1>5. Part(c, "er", y) (-) Part(c, "od", y) = Real(c, x)
  BY <1>2 DEF (-), Real
<1>6. (IF c.im = 0 THEN Zero ELSE Part(c, "ei", y) (-) Part(c, "oi", y)) = Imag(c, x)
  BY <1>2 DEF (-), Imag
<1> QED BY <1>3, <1>4, <1>5, <1>6 DEF Imag, x

-----------------------------------------------------------------------------
(* The rows, and vectors stored there.  Addresses are counted from the row *)
(* of the order.                                                           *)

(* What is expected at double d of the row of the order, and of its mirror. *)
Near(c, d) ==
  IF Packed(c) THEN IF d % 2 = 0 THEN Re(c, d) (-) Im(c, d + 1) ELSE Re(c, d) (+) Im(c, d - 1)
  ELSE IF d % 2 = 0 THEN Re(c, d \div 2) ELSE Im(c, d \div 2)
Far(c, d) == IF d % 2 = 0 THEN Re(c, d) (+) Im(c, d + 1) ELSE Re(c, d) (-) Im(c, d - 1)

Expected(c, a) == IF a < RowLen(c) THEN Near(c, a) ELSE Far(c, a - Mirrored(c))
Rows(c) == 0..(RowLen(c) - 1) \cup (IF HasMirror(c) THEN {Mirrored(c) + d : d \in 0..(c.nlat - 1)} ELSE {})

(* What is expected, stored at addresses D. *)
Fill(c, D) == [a \in D |-> Expected(c, a)]
Run(a, n) == a..(a + n - 1)
Join(D, E) == D \cup E

(* The lanes of a vector are what is expected from address a on. *)
Vector(x, n) == DOMAIN x = 0..(n - 1)
LanesAt(c, v, a, n) == a \in Int /\ Vector(v, n) /\ \A j \in 0..(n - 1) : v[j] = Expected(c, a + j)

(* A vector stored. *)
LEMMA PutFills ==
  ASSUME NEW c, NEW a, NEW n \in Nat, NEW v, LanesAt(c, v, a, n)
  PROVE  Put(a, v) = Fill(c, Run(a, n))
<1> DEFINE D == {a + j : j \in 0..(n - 1)}
<1>1. a \in Int /\ DOMAIN v = 0..(n - 1) /\ \A j \in 0..(n - 1) : v[j] = Expected(c, a + j)
  BY DEF LanesAt, Vector
<1>2. Put(a, v) = [d \in D |-> v[d - a]]
  BY <1>1 DEF Put
<1>3. D = Run(a, n)
  <2>1. \A d \in a..(a + n - 1) : d - a \in 0..(n - 1) /\ d = a + (d - a)
    BY <1>1
  <2>2. \A j \in 0..(n - 1) : a + j \in a..(a + n - 1)
    BY <1>1
  <2> QED BY <2>1, <2>2 DEF Run
<1>4. \A d \in D : v[d - a] = Expected(c, d)
  <2> TAKE d \in D
  <2>1. PICK j \in 0..(n - 1) : d = a + j
    OBVIOUS
  <2>2. d - a = j
    BY <1>1, <2>1
  <2> QED BY <1>1, <2>1, <2>2
<1> HIDE DEF D
<1> QED BY <1>2, <1>3, <1>4 DEF Fill

(* One store after another. *)
LEMMA FillOver ==
  ASSUME NEW c, NEW D, NEW E
  PROVE  Fill(c, D) ## Fill(c, E) = Fill(c, Join(D, E))
BY DEF Fill, Join, ##

(* A block of latitudes which can be stored. *)
BlockOK(c, i) ==
  /\ i \in Nat /\ VSIZE2(c) * (i + 1) <= c.nlat
  /\ c.magic => VSIZE2(c) * (i + 1) <= NLAT_2(c)

(* The macros which are wrong are not used. *)
NoneMisplaced == \A c \in Calls : StoresWell(c)

(* The lanes of the sums: the block, and its mirror image. *)
LEMMA SumsFacts ==
  ASSUME NEW c \in Calls, NEW i, BlockOK(c, i)
  PROVE  LET y == VSIZE2(c) * i
             at(x) == c.nlat - 1 - x
             lanes == 0..(VSIZE2(c) - 1)
         IN  /\ Sums(c, i).nr = [j \in lanes |-> Real(c, y + j)]
             /\ Sums(c, i).sr = [j \in lanes |-> Real(c, at(y + j))]
             /\ Sums(c, i).ni = [j \in lanes |-> Imag(c, y + j)]
             /\ Sums(c, i).si = [j \in lanes |-> Imag(c, at(y + j))]
<1> DEFINE V == VSIZE2(c)
           y == V * i
           lanes == 0..(V - 1)
           at(x) == c.nlat - 1 - x
<1>1. V \in Nat /\ c.nlat \in Nat /\ i \in Nat /\ V * (i + 1) <= c.nlat
  BY SizeFacts, CallFacts DEF BlockOK
<1>2. y \in Nat /\ y + V <= c.nlat
  <2>1. V * (i + 1) = V * i + V
    BY <1>1, SizeFacts
  <2> QED BY <1>1, <2>1, SizeFacts
<1> HIDE DEF V
<1>3. \A f : Vec(c, f, i) = [j \in lanes |-> Part(c, f, y + j)]
  BY DEF Vec, V
<1> HIDE DEF y
<1>4. \A j \in lanes : y + j \in Nat /\ y + j < c.nlat
  BY <1>1, <1>2
<1>5. \A j \in lanes : /\ Part(c, "er", y + j) (-) Part(c, "od", y + j) = Real(c, at(y + j))
                       /\ (IF c.im = 0 THEN Zero ELSE Part(c, "ei", y + j) (-) Part(c, "oi", y + j)) = Imag(c, at(y + j))
  BY <1>4, FieldFacts
<1> HIDE DEF lanes, at
<1> DEFINE er == Vec(c, "er", i)
           od == Vec(c, "od", i)
           ei == Vec(c, "ei", i)
           oi == Vec(c, "oi", i)
<1>6. er ++ od = [j \in lanes |-> Real(c, y + j)]
  BY <1>3 DEF ++, Real
<1>7. er -- od = [j \in lanes |-> Real(c, at(y + j))]
  <2>1. er -- od = [j \in lanes |-> Part(c, "er", y + j) (-) Part(c, "od", y + j)]
    BY <1>3 DEF --
  <2> QED BY <1>5, <2>1
<1>8. (IF c.im = 0 THEN Clear(V) ELSE ei ++ oi) = [j \in lanes |-> Imag(c, y + j)]
  BY <1>3 DEF ++, Imag, Clear, lanes
<1>9. (IF c.im = 0 THEN Clear(V) ELSE ei -- oi) = [j \in lanes |-> Imag(c, at(y + j))]
  <2>1. (IF c.im = 0 THEN Clear(V) ELSE ei -- oi)
          = [j \in lanes |-> IF c.im = 0 THEN Zero ELSE Part(c, "ei", y + j) (-) Part(c, "oi", y + j)]
    BY <1>3 DEF --, Clear, lanes
  <2> QED BY <1>5, <2>1
<1>10. Sums(c, i) = [nr |-> er ++ od, sr |-> er -- od,
                     ni |-> IF c.im = 0 THEN Clear(V) ELSE ei ++ oi,
                     si |-> IF c.im = 0 THEN Clear(V) ELSE ei -- oi]
  BY DEF Sums, V
<1> HIDE DEF er, od, ei, oi
<1> QED BY <1>6, <1>7, <1>8, <1>9, <1>10 DEF V, y, lanes, at

-----------------------------------------------------------------------------
(* The layouts: two latitudes to a complex number or one, from north to    *)
(* south or in turn.                                                       *)

(* Sizes of the rows. *)
LEMMA LayoutFacts ==
  ASSUME NEW c \in Calls
  PROVE  /\ Packed(c) \in BOOLEAN /\ HasMirror(c) \in BOOLEAN
         /\ Packed(c) => /\ VSIZE2(c) \in {2, 4, 8} /\ c.nlat % 2 = 0 /\ c.nlat = 2 * NLAT_2(c) /\ RowLen(c) = c.nlat
                         /\ Mirrored(c) \in Nat /\ Mirrored(c) >= c.nlat /\ c.simd # "scalar" /\ c.kind # "fixed"
         /\ ~Packed(c) => RowLen(c) = 2 * c.nlat /\ ~HasMirror(c)
         /\ HasMirror(c) => Packed(c) /\ c.im > 0
         /\ c.simd # "scalar" => VSIZE2(c) \in {2, 4, 8} /\ c.nlat % 2 = 0 /\ c.nlat = 2 * NLAT_2(c)
<1>1. /\ c.simd \in Simds /\ c.nlat \in Nat \ {0} /\ c.nphi \in Nat /\ c.im \in Nat /\ c.nphi > 2 * c.im
      /\ (c.simd # "scalar" => c.nlat % 2 = 0)
      /\ (c.kernel = "mic" => c.simd # "scalar" /\ c.kind # "fixed") /\ c.kernel \in {"fly", "mic"}
  BY CallFacts DEF CallExists, GridAccepted
<1>2. Mirrored(c) \in Nat /\ Mirrored(c) >= c.nlat
  <2> DEFINE x == c.nphi - 2 * c.im
             L == c.nlat
  <2>1. x \in Nat /\ x >= 1 /\ L \in Nat
    BY <1>1
  <2>2. Mirrored(c) = x * L
    BY DEF Mirrored
  <2> HIDE DEF x, L
  <2>3. x * L \in Nat /\ x * L >= L
    BY <2>1
  <2> QED BY <2>2, <2>3 DEF L
<1>3. c.simd # "scalar" => VSIZE2(c) \in {2, 4, 8}
  BY <1>1 DEF Simds, VSIZE2
<1>4. c.nlat % 2 = 0 => c.nlat = 2 * NLAT_2(c)
  BY <1>1 DEF NLAT_2
<1>5. Packed(c) => c.simd # "scalar" /\ c.kind # "fixed"
  BY <1>1 DEF Packed
<1> QED BY <1>1, <1>2, <1>3, <1>4, <1>5 DEF Packed, HasMirror, RowLen

(* Two latitudes in a complex number, from north to south. *)
LEMMA PackedNorthSouth ==
  ASSUME NEW c \in Calls, Packed(c), ~c.magic, NEW d \in Nat, d < c.nlat
  PROVE  /\ d % 2 = 0 => /\ d + 1 < c.nlat
                         /\ Near(c, d) = Real(c, d) (-) Imag(c, d + 1) /\ Far(c, d) = Real(c, d) (+) Imag(c, d + 1)
         /\ d % 2 = 1 => /\ d - 1 \in Nat
                         /\ Near(c, d) = Real(c, d) (+) Imag(c, d - 1) /\ Far(c, d) = Real(c, d) (-) Imag(c, d - 1)
         /\ c.im = 0 => Near(c, d) = Real(c, d)
<1>1. \A p : Re(c, p) = Real(c, p) /\ Im(c, p) = Imag(c, p)
  BY DEF Re, Im, Real, Imag, LatAt
<1>2. c.nlat \in Nat /\ c.nlat % 2 = 0
  BY CallFacts, LayoutFacts
<1>3. CASE d % 2 = 0
  <2>1. d + 1 < c.nlat /\ d + 1 \in Nat
    BY <1>2, <1>3
  <2>2. Near(c, d) = Real(c, d) (-) Imag(c, d + 1) /\ Far(c, d) = Real(c, d) (+) Imag(c, d + 1)
    BY <1>1, <1>3 DEF Near, Far
  <2>3. c.im = 0 => Near(c, d) = Real(c, d)
    BY <2>1, <2>2, FieldFacts, FormLaws
  <2> QED BY <1>3, <2>1, <2>2, <2>3
<1>4. CASE d % 2 = 1
  <2>1. d - 1 \in Nat /\ d - 1 < c.nlat
    BY <1>2, <1>4
  <2>2. Near(c, d) = Real(c, d) (+) Imag(c, d - 1) /\ Far(c, d) = Real(c, d) (-) Imag(c, d - 1)
    BY <1>1, <1>4 DEF Near, Far
  <2>3. c.im = 0 => Near(c, d) = Real(c, d)
    BY <2>1, <2>2, FieldFacts, FormLaws
  <2> QED BY <1>4, <2>1, <2>2, <2>3
<1> QED BY <1>3, <1>4

(* Two latitudes in a complex number, one of the north and its mirror image. *)
LEMMA PackedInTurn ==
  ASSUME NEW c \in Calls, Packed(c), c.magic, NEW x \in Nat, x < c.nlat
  PROVE  LET z == c.nlat - 1 - x
         IN  /\ Near(c, 2 * x) = Real(c, x) (-) Imag(c, z) /\ Near(c, 2 * x + 1) = Real(c, z) (+) Imag(c, x)
             /\ Far(c, 2 * x) = Real(c, x) (+) Imag(c, z) /\ Far(c, 2 * x + 1) = Real(c, z) (-) Imag(c, x)
             /\ c.im = 0 => Near(c, 2 * x) = Real(c, x) /\ Near(c, 2 * x + 1) = Real(c, z)
<1> DEFINE z == c.nlat - 1 - x
           d == 2 * x
           e == 2 * x + 1
<1>1. c.nlat \in Nat /\ z \in Nat /\ z < c.nlat
  BY CallFacts
<1>2. d % 2 = 0 /\ e % 2 = 1 /\ d \div 2 = x /\ e \div 2 = x /\ d + 1 = e /\ e - 1 = d
  OBVIOUS
<1> HIDE DEF d, e
<1>3. LatAt(c, d) = x /\ LatAt(c, e) = z
  BY <1>2 DEF LatAt
<1> HIDE DEF z
<1>4. /\ Re(c, d) = Real(c, x) /\ Im(c, d) = Imag(c, x)
      /\ Re(c, e) = Real(c, z) /\ Im(c, e) = Imag(c, z)
  BY <1>3 DEF Re, Im, Real, Imag
<1>5. /\ Near(c, d) = Real(c, x) (-) Imag(c, z) /\ Near(c, e) = Real(c, z) (+) Imag(c, x)
      /\ Far(c, d) = Real(c, x) (+) Imag(c, z) /\ Far(c, e) = Real(c, z) (-) Imag(c, x)
  BY <1>2, <1>4 DEF Near, Far
<1>6. c.im = 0 => Near(c, d) = Real(c, x) /\ Near(c, e) = Real(c, z)
  BY <1>1, <1>5, FieldFacts, FormLaws
<1> QED BY <1>5, <1>6 DEF d, e, z

(* One latitude in a complex number, from north to south. *)
LEMMA PlainNorthSouth ==
  ASSUME NEW c \in Calls, ~Packed(c), ~c.magic, NEW x \in Nat
  PROVE  Near(c, 2 * x) = Real(c, x) /\ Near(c, 2 * x + 1) = Imag(c, x)
<1> DEFINE d == 2 * x
           e == 2 * x + 1
<1>1. d % 2 = 0 /\ e % 2 = 1 /\ d \div 2 = x /\ e \div 2 = x
  OBVIOUS
<1> HIDE DEF d, e
<1>2. Near(c, d) = Re(c, x) /\ Near(c, e) = Im(c, x)
  BY <1>1 DEF Near
<1>3. Re(c, x) = Real(c, x) /\ Im(c, x) = Imag(c, x)
  BY DEF Re, Im, Real, Imag, LatAt
<1> QED BY <1>2, <1>3 DEF d, e

(* One latitude in a complex number, north and south in turn. *)
LEMMA PlainInTurn ==
  ASSUME NEW c \in Calls, ~Packed(c), c.magic, NEW x \in Nat
  PROVE  LET z == c.nlat - 1 - x
         IN  /\ Near(c, 4 * x) = Real(c, x) /\ Near(c, 4 * x + 1) = Imag(c, x)
             /\ Near(c, 4 * x + 2) = Real(c, z) /\ Near(c, 4 * x + 3) = Imag(c, z)
<1> DEFINE z == c.nlat - 1 - x
           d == 4 * x
           e == 2 * x
           f == 2 * x + 1
<1>1. /\ d % 2 = 0 /\ (d + 1) % 2 = 1 /\ (d + 2) % 2 = 0 /\ (d + 3) % 2 = 1
      /\ d \div 2 = e /\ (d + 1) \div 2 = e /\ (d + 2) \div 2 = f /\ (d + 3) \div 2 = f
      /\ e % 2 = 0 /\ f % 2 = 1 /\ e \div 2 = x /\ f \div 2 = x
  OBVIOUS
<1> HIDE DEF d, e, f
<1>2. /\ Near(c, d) = Re(c, e) /\ Near(c, d + 1) = Im(c, e)
      /\ Near(c, d + 2) = Re(c, f) /\ Near(c, d + 3) = Im(c, f)
  BY <1>1 DEF Near
<1>3. LatAt(c, e) = x /\ LatAt(c, f) = z
  BY <1>1 DEF LatAt
<1> HIDE DEF z
<1>4. /\ Re(c, e) = Real(c, x) /\ Im(c, e) = Imag(c, x)
      /\ Re(c, f) = Real(c, z) /\ Im(c, f) = Imag(c, z)
  BY <1>3 DEF Re, Im, Real, Imag
<1> QED BY <1>2, <1>4 DEF d, z

-----------------------------------------------------------------------------
(* The lanes of the vectors.                                               *)

(* The other lane of a pair. *)
Partner(j) == IF j % 2 = 0 THEN j + 1 ELSE j - 1

(* What the macros make of the sums. *)
NorthPlus(s) == vxchg(s.ni) ++ s.nr
NorthMinus(s) == s.nr -- vxchg(s.ni)
SouthPlus(s) == vxchg(s.sr) ++ s.si
SouthMinus(s) == vxchg(s.sr) -- s.si

(* Instructions, lane by lane. *)
LEMMA Exchanged ==
  ASSUME NEW n \in {2, 4, 8}, NEW x, Vector(x, n)
  PROVE  /\ Vector(vxchg(x), n)
         /\ \A j \in 0..(n - 1) : Partner(j) \in 0..(n - 1) /\ vxchg(x)[j] = x[Partner(j)]
<1>1. vxchg(x) = [i \in 0..(n - 1) |-> x[IF i % 2 = 0 THEN i + 1 ELSE i - 1]]
  BY DEF vxchg, Vector
<1>2. \A j \in 0..(n - 1) : Partner(j) \in 0..(n - 1) /\ Partner(j) = (IF j % 2 = 0 THEN j + 1 ELSE j - 1)
  BY DEF Partner
<1> QED BY <1>1, <1>2 DEF Vector

(* Sums, differences and mixtures, lane by lane. *)
LEMMA Added ==
  ASSUME NEW n \in Nat, NEW x, NEW z, Vector(x, n), Vector(z, n)
  PROVE  /\ Vector(x ++ z, n) /\ Vector(x -- z, n) /\ Vector(Mix(x, z), n)
         /\ \A j \in 0..(n - 1) : /\ (x ++ z)[j] = x[j] (+) z[j] /\ (x -- z)[j] = x[j] (-) z[j]
                                  /\ Mix(x, z)[j] = (IF j % 2 = 0 THEN x[j] ELSE z[j])
<1>1. /\ x ++ z = [i \in 0..(n - 1) |-> x[i] (+) z[i]]
      /\ x -- z = [i \in 0..(n - 1) |-> x[i] (-) z[i]]
      /\ Mix(x, z) = [i \in 0..(n - 1) |-> IF i % 2 = 0 THEN x[i] ELSE z[i]]
  BY DEF ++, --, Mix, Vector
<1> QED BY <1>1 DEF Vector

(* Interleavings, lane by lane. *)
LEMMA Unpacked ==
  ASSUME NEW n \in Nat, NEW x, NEW z, Vector(x, n), Vector(z, n)
  PROVE  /\ Vector(unpacklo(x, z), n) /\ Vector(unpackhi(x, z), n)
         /\ \A j \in 0..(n - 1) : /\ unpacklo(x, z)[j] = (IF j % 2 = 0 THEN x[j] ELSE z[j - 1])
                                  /\ unpackhi(x, z)[j] = (IF j % 2 = 0 THEN x[j + 1] ELSE z[j])
<1>1. /\ unpacklo(x, z) = [i \in 0..(n - 1) |-> IF i % 2 = 0 THEN x[i] ELSE z[i - 1]]
      /\ unpackhi(x, z) = [i \in 0..(n - 1) |-> IF i % 2 = 0 THEN x[i + 1] ELSE z[i]]
  BY DEF unpacklo, unpackhi, Vector
<1> QED BY <1>1 DEF Vector

(* From north to south: the vectors which the macros make have, lane by lane, what is expected. *)
LEMMA Crossed ==
  ASSUME NEW c \in Calls, Packed(c), ~c.magic, NEW i, BlockOK(c, i)
  PROVE  LET s == Sums(c, i)
             V == VSIZE2(c)
             y == V * i
             m(j) == c.nlat - 1 - y - Partner(j)
             k1 == Mix(NorthMinus(s), NorthPlus(s))
             k2 == Mix(NorthPlus(s), NorthMinus(s))
             k3 == Mix(SouthMinus(s), SouthPlus(s))
             k4 == Mix(SouthPlus(s), SouthMinus(s))
         IN  /\ Vector(k1, V) /\ Vector(k2, V) /\ Vector(k3, V) /\ Vector(k4, V)
             /\ Vector(s.nr, V) /\ Vector(vxchg(s.sr), V) /\ Vector(s.sr, V)
             /\ \A j \in 0..(V - 1) :
                  /\ k1[j] = Near(c, y + j) /\ k2[j] = Far(c, y + j)
                  /\ k3[j] = Near(c, m(j)) /\ k4[j] = Far(c, m(j))
                  /\ c.im = 0 => s.nr[j] = Near(c, y + j) /\ vxchg(s.sr)[j] = Near(c, m(j))
                                 /\ s.sr[j] = Near(c, c.nlat - 1 - y - j)
<1> DEFINE s == Sums(c, i)
           V == VSIZE2(c)
           y == V * i
           L == c.nlat
           k1 == Mix(NorthMinus(s), NorthPlus(s))
           k2 == Mix(NorthPlus(s), NorthMinus(s))
           k3 == Mix(SouthMinus(s), SouthPlus(s))
           k4 == Mix(SouthPlus(s), SouthMinus(s))
           ix == vxchg(s.ni)
           rx == vxchg(s.sr)
<1>1. V \in {2, 4, 8} /\ L \in Nat /\ L % 2 = 0 /\ i \in Nat /\ V * (i + 1) <= L
  BY LayoutFacts, CallFacts DEF BlockOK
<1>2. y \in Nat /\ y % 2 = 0 /\ y + V <= L
  <2> HIDE DEF V
  <2> QED BY <1>1
<1>3. /\ s.nr = [j \in 0..(V - 1) |-> Real(c, y + j)]
      /\ s.sr = [j \in 0..(V - 1) |-> Real(c, L - 1 - (y + j))]
      /\ s.ni = [j \in 0..(V - 1) |-> Imag(c, y + j)]
      /\ s.si = [j \in 0..(V - 1) |-> Imag(c, L - 1 - (y + j))]
  BY SumsFacts
<1> HIDE DEF s, V, y, L
<1>4. Vector(s.nr, V) /\ Vector(s.sr, V) /\ Vector(s.ni, V) /\ Vector(s.si, V)
  BY <1>3 DEF Vector
<1>5. /\ Vector(ix, V) /\ Vector(rx, V)
      /\ \A j \in 0..(V - 1) : ix[j] = s.ni[Partner(j)] /\ rx[j] = s.sr[Partner(j)] /\ Partner(j) \in 0..(V - 1)
  BY <1>1, <1>4, Exchanged
<1> HIDE DEF ix, rx
<1> DEFINE a == ix ++ s.nr
           b == s.nr -- ix
           e == rx ++ s.si
           f == rx -- s.si
<1>6. /\ Vector(a, V) /\ Vector(b, V) /\ Vector(e, V) /\ Vector(f, V)
      /\ \A j \in 0..(V - 1) : /\ a[j] = ix[j] (+) s.nr[j] /\ b[j] = s.nr[j] (-) ix[j]
                               /\ e[j] = rx[j] (+) s.si[j] /\ f[j] = rx[j] (-) s.si[j]
  BY <1>1, <1>4, <1>5, Added
<1>7. NorthPlus(s) = a /\ NorthMinus(s) = b /\ SouthPlus(s) = e /\ SouthMinus(s) = f
  BY DEF NorthPlus, NorthMinus, SouthPlus, SouthMinus, ix, rx
<1> HIDE DEF a, b, e, f
<1>8. /\ Vector(k1, V) /\ Vector(k2, V) /\ Vector(k3, V) /\ Vector(k4, V)
      /\ \A j \in 0..(V - 1) :
           /\ k1[j] = (IF j % 2 = 0 THEN b[j] ELSE a[j]) /\ k2[j] = (IF j % 2 = 0 THEN a[j] ELSE b[j])
           /\ k3[j] = (IF j % 2 = 0 THEN f[j] ELSE e[j]) /\ k4[j] = (IF j % 2 = 0 THEN e[j] ELSE f[j])
  BY <1>1, <1>6, <1>7, Added
<1> HIDE DEF k1, k2, k3, k4
<1>9. ASSUME NEW j \in 0..(V - 1)
      PROVE  /\ k1[j] = Near(c, y + j) /\ k2[j] = Far(c, y + j)
             /\ k3[j] = Near(c, L - 1 - y - Partner(j)) /\ k4[j] = Far(c, L - 1 - y - Partner(j))
             /\ c.im = 0 => s.nr[j] = Near(c, y + j) /\ rx[j] = Near(c, L - 1 - y - Partner(j))
                            /\ s.sr[j] = Near(c, L - 1 - y - j)
  <2> DEFINE p == Partner(j)
             d == y + j
             q == y + p
             g == L - 1 - y - p
             h == L - 1 - y - j
  <2>1. p \in 0..(V - 1) /\ p = (IF j % 2 = 0 THEN j + 1 ELSE j - 1)
    BY <1>5 DEF Partner
  <2> HIDE DEF p
  <2>2. /\ d \in Nat /\ d < L /\ q \in Nat /\ q < L /\ g \in Nat /\ g < L /\ h \in Nat /\ h < L
        /\ L - 1 - (y + j) = h /\ L - 1 - (y + p) = g
        /\ (j % 2 = 0 => d % 2 = 0 /\ d + 1 = q /\ g % 2 = 0 /\ g + 1 = h)
        /\ (j % 2 # 0 => d % 2 = 1 /\ d - 1 = q /\ g % 2 = 1 /\ g - 1 = h)
    BY <1>1, <1>2, <2>1
  <2>3. /\ s.nr[j] = Real(c, d) /\ rx[j] = Real(c, g) /\ ix[j] = Imag(c, q) /\ s.si[j] = Imag(c, h) /\ s.sr[j] = Real(c, h)
    <3>1. s.nr[j] = Real(c, d) /\ s.si[j] = Imag(c, h) /\ s.sr[j] = Real(c, h)
      BY <1>3, <2>2
    <3>2. ix[j] = s.ni[p] /\ rx[j] = s.sr[p]
      BY <1>5 DEF p
    <3>3. s.ni[p] = Imag(c, q) /\ s.sr[p] = Real(c, g)
      BY <1>3, <2>1, <2>2
    <3> QED BY <3>1, <3>2, <3>3
  <2>4. /\ a[j] = Imag(c, q) (+) Real(c, d) /\ b[j] = Real(c, d) (-) Imag(c, q)
        /\ e[j] = Real(c, g) (+) Imag(c, h) /\ f[j] = Real(c, g) (-) Imag(c, h)
    BY <1>6, <2>3
  <2> HIDE DEF d, q, g, h
  <2>5. Imag(c, q) (+) Real(c, d) = Real(c, d) (+) Imag(c, q)
    BY <2>2, FieldFacts, FormLaws DEF L
  <2>6. CASE j % 2 = 0
    <3>1. /\ Near(c, d) = Real(c, d) (-) Imag(c, q) /\ Far(c, d) = Real(c, d) (+) Imag(c, q)
          /\ Near(c, g) = Real(c, g) (-) Imag(c, h) /\ Far(c, g) = Real(c, g) (+) Imag(c, h)
      BY <2>2, <2>6, PackedNorthSouth DEF L
    <3>2. k1[j] = b[j] /\ k2[j] = a[j] /\ k3[j] = f[j] /\ k4[j] = e[j]
      BY <1>8, <2>6
    <3>3. c.im = 0 => Near(c, d) = Real(c, d) /\ Near(c, g) = Real(c, g) /\ Near(c, h) = Real(c, h)
      BY <2>2, PackedNorthSouth DEF L
    <3> QED BY <2>3, <2>4, <2>5, <3>1, <3>2, <3>3 DEF d, g, h, p
  <2>7. CASE j % 2 # 0
    <3>1. /\ Near(c, d) = Real(c, d) (+) Imag(c, q) /\ Far(c, d) = Real(c, d) (-) Imag(c, q)
          /\ Near(c, g) = Real(c, g) (+) Imag(c, h) /\ Far(c, g) = Real(c, g) (-) Imag(c, h)
      BY <2>2, <2>7, PackedNorthSouth DEF L
    <3>2. k1[j] = a[j] /\ k2[j] = b[j] /\ k3[j] = e[j] /\ k4[j] = f[j]
      BY <1>8, <2>7
    <3>3. c.im = 0 => Near(c, d) = Real(c, d) /\ Near(c, g) = Real(c, g) /\ Near(c, h) = Real(c, h)
      BY <2>2, PackedNorthSouth DEF L
    <3> QED BY <2>3, <2>4, <2>5, <3>1, <3>2, <3>3 DEF d, g, h, p
  <2> QED BY <2>6, <2>7
<1> QED BY <1>4, <1>5, <1>8, <1>9 DEF s, V, y, L, k1, k2, k3, k4, rx

(* North and south in turn, two latitudes to a complex number. *)
LEMMA Turned ==
  ASSUME NEW c \in Calls, Packed(c), c.magic, NEW i, BlockOK(c, i)
  PROVE  LET s == Sums(c, i)
             V == VSIZE2(c)
             y == V * i
             k1 == s.nr -- s.si
             k2 == s.sr ++ s.ni
             k3 == s.nr ++ s.si
             k4 == s.sr -- s.ni
         IN  /\ Vector(k1, V) /\ Vector(k2, V) /\ Vector(k3, V) /\ Vector(k4, V)
             /\ Vector(s.nr, V) /\ Vector(s.sr, V)
             /\ \A j \in 0..(V - 1) :
                  /\ k1[j] = Near(c, 2 * (y + j)) /\ k2[j] = Near(c, 2 * (y + j) + 1)
                  /\ k3[j] = Far(c, 2 * (y + j)) /\ k4[j] = Far(c, 2 * (y + j) + 1)
                  /\ c.im = 0 => s.nr[j] = Near(c, 2 * (y + j)) /\ s.sr[j] = Near(c, 2 * (y + j) + 1)
<1> DEFINE s == Sums(c, i)
           V == VSIZE2(c)
           y == V * i
           L == c.nlat
           k1 == s.nr -- s.si
           k2 == s.sr ++ s.ni
           k3 == s.nr ++ s.si
           k4 == s.sr -- s.ni
<1>1. V \in {2, 4, 8} /\ L \in Nat /\ i \in Nat /\ V * (i + 1) <= L
  BY LayoutFacts, CallFacts DEF BlockOK
<1>2. y \in Nat /\ y + V <= L
  <2> HIDE DEF V
  <2> QED BY <1>1
<1>3. /\ s.nr = [j \in 0..(V - 1) |-> Real(c, y + j)]
      /\ s.sr = [j \in 0..(V - 1) |-> Real(c, L - 1 - (y + j))]
      /\ s.ni = [j \in 0..(V - 1) |-> Imag(c, y + j)]
      /\ s.si = [j \in 0..(V - 1) |-> Imag(c, L - 1 - (y + j))]
  BY SumsFacts
<1> HIDE DEF s, V, y, L
<1>4. Vector(s.nr, V) /\ Vector(s.sr, V) /\ Vector(s.ni, V) /\ Vector(s.si, V)
  BY <1>3 DEF Vector
<1>5. /\ Vector(k1, V) /\ Vector(k2, V) /\ Vector(k3, V) /\ Vector(k4, V)
      /\ \A j \in 0..(V - 1) : /\ k1[j] = s.nr[j] (-) s.si[j] /\ k2[j] = s.sr[j] (+) s.ni[j]
                               /\ k3[j] = s.nr[j] (+) s.si[j] /\ k4[j] = s.sr[j] (-) s.ni[j]
  BY <1>1, <1>4, Added
<1> HIDE DEF k1, k2, k3, k4
<1>6. ASSUME NEW j \in 0..(V - 1)
      PROVE  /\ k1[j] = Near(c, 2 * (y + j)) /\ k2[j] = Near(c, 2 * (y + j) + 1)
             /\ k3[j] = Far(c, 2 * (y + j)) /\ k4[j] = Far(c, 2 * (y + j) + 1)
             /\ c.im = 0 => s.nr[j] = Near(c, 2 * (y + j)) /\ s.sr[j] = Near(c, 2 * (y + j) + 1)
  <2> DEFINE x == y + j
             z == L - 1 - x
  <2>1. x \in Nat /\ x < L
    BY <1>1, <1>2
  <2>2. s.nr[j] = Real(c, x) /\ s.sr[j] = Real(c, z) /\ s.ni[j] = Imag(c, x) /\ s.si[j] = Imag(c, z)
    BY <1>3
  <2> HIDE DEF x
  <2>3. /\ Near(c, 2 * x) = Real(c, x) (-) Imag(c, z) /\ Near(c, 2 * x + 1) = Real(c, z) (+) Imag(c, x)
        /\ Far(c, 2 * x) = Real(c, x) (+) Imag(c, z) /\ Far(c, 2 * x + 1) = Real(c, z) (-) Imag(c, x)
        /\ c.im = 0 => Near(c, 2 * x) = Real(c, x) /\ Near(c, 2 * x + 1) = Real(c, z)
    BY <2>1, PackedInTurn DEF L
  <2> QED BY <1>5, <2>2, <2>3 DEF x
<1> QED BY <1>4, <1>5, <1>6 DEF s, V, y, k1, k2, k3, k4

(* One latitude to a complex number. *)
LEMMA Plain ==
  ASSUME NEW c \in Calls, ~Packed(c), NEW i, BlockOK(c, i)
  PROVE  LET s == Sums(c, i)
             V == VSIZE2(c)
             y == V * i
         IN  /\ Vector(s.nr, V) /\ Vector(s.sr, V) /\ Vector(s.ni, V) /\ Vector(s.si, V)
             /\ \A j \in 0..(V - 1) :
                  /\ ~c.magic => /\ s.nr[j] = Near(c, 2 * (y + j)) /\ s.ni[j] = Near(c, 2 * (y + j) + 1)
                                 /\ s.sr[j] = Near(c, 2 * (c.nlat - 1 - y - j))
                                 /\ s.si[j] = Near(c, 2 * (c.nlat - 1 - y - j) + 1)
                  /\ c.magic => /\ s.nr[j] = Near(c, 4 * (y + j)) /\ s.ni[j] = Near(c, 4 * (y + j) + 1)
                                /\ s.sr[j] = Near(c, 4 * (y + j) + 2) /\ s.si[j] = Near(c, 4 * (y + j) + 3)
<1> DEFINE s == Sums(c, i)
           V == VSIZE2(c)
           y == V * i
           L == c.nlat
<1>1. V \in {1, 2, 4, 8} /\ L \in Nat /\ i \in Nat /\ V * (i + 1) <= L
  BY SizeFacts, CallFacts DEF BlockOK
<1>2. y \in Nat /\ y + V <= L
  <2> HIDE DEF V
  <2> QED BY <1>1
<1>3. /\ s.nr = [j \in 0..(V - 1) |-> Real(c, y + j)]
      /\ s.sr = [j \in 0..(V - 1) |-> Real(c, L - 1 - (y + j))]
      /\ s.ni = [j \in 0..(V - 1) |-> Imag(c, y + j)]
      /\ s.si = [j \in 0..(V - 1) |-> Imag(c, L - 1 - (y + j))]
  BY SumsFacts
<1> HIDE DEF s, V, y, L
<1>4. Vector(s.nr, V) /\ Vector(s.sr, V) /\ Vector(s.ni, V) /\ Vector(s.si, V)
  BY <1>3 DEF Vector
<1>5. ASSUME NEW j \in 0..(V - 1)
      PROVE  /\ ~c.magic => /\ s.nr[j] = Near(c, 2 * (y + j)) /\ s.ni[j] = Near(c, 2 * (y + j) + 1)
                            /\ s.sr[j] = Near(c, 2 * (L - 1 - y - j)) /\ s.si[j] = Near(c, 2 * (L - 1 - y - j) + 1)
             /\ c.magic => /\ s.nr[j] = Near(c, 4 * (y + j)) /\ s.ni[j] = Near(c, 4 * (y + j) + 1)
                           /\ s.sr[j] = Near(c, 4 * (y + j) + 2) /\ s.si[j] = Near(c, 4 * (y + j) + 3)
  <2> DEFINE x == y + j
             z == L - 1 - y - j
  <2>1. x \in Nat /\ z \in Nat /\ L - 1 - x = z
    BY <1>1, <1>2
  <2>2. s.nr[j] = Real(c, x) /\ s.sr[j] = Real(c, z) /\ s.ni[j] = Imag(c, x) /\ s.si[j] = Imag(c, z)
    BY <1>3, <2>1
  <2> HIDE DEF x, z
  <2>3. CASE ~c.magic
    <3>1. Near(c, 2 * x) = Real(c, x) /\ Near(c, 2 * x + 1) = Imag(c, x)
      BY <2>1, <2>3, PlainNorthSouth
    <3>2. Near(c, 2 * z) = Real(c, z) /\ Near(c, 2 * z + 1) = Imag(c, z)
      BY <2>1, <2>3, PlainNorthSouth
    <3> QED BY <2>2, <2>3, <3>1, <3>2 DEF x, z
  <2>4. CASE c.magic
    <3>1. /\ Near(c, 4 * x) = Real(c, x) /\ Near(c, 4 * x + 1) = Imag(c, x)
          /\ Near(c, 4 * x + 2) = Real(c, z) /\ Near(c, 4 * x + 3) = Imag(c, z)
      BY <2>1, <2>4, PlainInTurn DEF L
    <3> QED BY <2>2, <2>4, <3>1 DEF x
  <2>5. c.magic \in BOOLEAN
    BY CallFacts
  <2> QED BY <2>3, <2>4, <2>5
<1> QED BY <1>4, <1>5 DEF s, V, y, L

-----------------------------------------------------------------------------
(* The macros.                                                             *)

(* The doubles of the row of the order which belong to a block of latitudes and its mirror image,
   and those of both rows. *)
Span(c, i) ==
  LET y == VSIZE2(c) * i
      V == VSIZE2(c)
      b == IF Packed(c) THEN 1 ELSE 2
  IN  IF c.magic THEN (2 * b * y)..(2 * b * (y + V) - 1)
      ELSE (b * y)..(b * (y + V) - 1) \cup (b * (c.nlat - y - V))..(b * (c.nlat - y) - 1)
Touched(c, i) == Span(c, i) \cup (IF HasMirror(c) THEN {Mirrored(c) + d : d \in Span(c, i)} ELSE {})

(* A macro stores what is expected at all places of its block, and nowhere else. *)
Stored(c, i, w) == w = Fill(c, Touched(c, i))

(* Lanes of the row of the order. *)
LEMMA NearLanes ==
  ASSUME NEW c \in Calls, NEW v, NEW a \in Nat, NEW n \in Nat, Vector(v, n), a + n <= RowLen(c),
         \A j \in 0..(n - 1) : v[j] = Near(c, a + j)
  PROVE  LanesAt(c, v, a, n)
<1>1. RowLen(c) \in Nat
  BY CallFacts DEF RowLen
<1>2. \A j \in 0..(n - 1) : v[j] = Expected(c, a + j)
  <2> TAKE j \in 0..(n - 1)
  <2>1. a + j < RowLen(c)
    BY <1>1
  <2> QED BY <2>1 DEF Expected
<1> QED BY <1>2 DEF LanesAt

(* Lanes of its mirror row. *)
LEMMA FarLanes ==
  ASSUME NEW c \in Calls, Packed(c), NEW v, NEW a \in Nat, NEW n \in Nat, Vector(v, n),
         \A j \in 0..(n - 1) : v[j] = Far(c, a + j)
  PROVE  LanesAt(c, v, Mirrored(c) + a, n)
<1> DEFINE M == Mirrored(c)
           b == M + a
<1>1. M \in Nat /\ M >= RowLen(c) /\ RowLen(c) \in Nat
  BY LayoutFacts, CallFacts
<1> HIDE DEF M
<1>2. \A j \in 0..(n - 1) : v[j] = Expected(c, b + j)
  <2> TAKE j \in 0..(n - 1)
  <2>1. ~(b + j < RowLen(c)) /\ (b + j) - M = a + j
    BY <1>1
  <2>2. Expected(c, b + j) = Far(c, (b + j) - M)
    BY <2>1 DEF Expected, M
  <2> QED BY <2>1, <2>2
<1>3. b \in Int
  BY <1>1
<1> HIDE DEF b
<1>4. LanesAt(c, v, b, n)
  BY <1>2, <1>3 DEF LanesAt
<1> QED BY <1>4 DEF b, M

(* Two lanes. *)
LEMMA TwoLanes ==
  ASSUME NEW c \in Calls, NEW v, NEW a \in Nat, Vector(v, 2)
  PROVE  /\ v[0] = Near(c, a) /\ v[1] = Near(c, a + 1) /\ a + 2 <= RowLen(c) => LanesAt(c, v, a, 2)
         /\ Packed(c) /\ v[0] = Far(c, a) /\ v[1] = Far(c, a + 1) => LanesAt(c, v, Mirrored(c) + a, 2)
<1> DEFINE n == 2
<1>1. n \in Nat /\ Vector(v, n)
  OBVIOUS
<1>2. ASSUME NEW j \in 0..(n - 1)
      PROVE  \/ v[j] = v[0] /\ Near(c, a + j) = Near(c, a) /\ Far(c, a + j) = Far(c, a)
             \/ v[j] = v[1] /\ Near(c, a + j) = Near(c, a + 1) /\ Far(c, a + j) = Far(c, a + 1)
  <2>1. CASE j = 0
    <3>1. a + j = a
      BY <2>1
    <3> QED BY <2>1, <3>1
  <2>2. CASE j = 1
    BY <2>2
  <2>3. j = 0 \/ j = 1
    OBVIOUS
  <2> QED BY <2>1, <2>2, <2>3
<1> HIDE DEF n
<1>3. ASSUME v[0] = Near(c, a), v[1] = Near(c, a + 1), a + 2 <= RowLen(c) PROVE LanesAt(c, v, a, n)
  <2>1. \A j \in 0..(n - 1) : v[j] = Near(c, a + j)
    BY <1>2, <1>3
  <2>2. a + n <= RowLen(c)
    BY <1>3 DEF n
  <2> QED BY <1>1, <2>1, <2>2, NearLanes
<1>4. ASSUME Packed(c), v[0] = Far(c, a), v[1] = Far(c, a + 1) PROVE LanesAt(c, v, Mirrored(c) + a, n)
  <2>1. \A j \in 0..(n - 1) : v[j] = Far(c, a + j)
    BY <1>2, <1>4
  <2> QED BY <1>1, <1>4, <2>1, FarLanes
<1> QED BY <1>3, <1>4 DEF n

(* What a block's size and place are. *)
LEMMA BlockFacts ==
  ASSUME NEW c \in Calls, NEW i, BlockOK(c, i)
  PROVE  /\ c.nlat \in Nat /\ i \in Nat /\ NLAT_2(c) \in Nat
         /\ c.simd = "scalar" => VSIZE2(c) = 1 /\ i + 1 <= c.nlat
         /\ c.simd = "sse2" => VSIZE2(c) = 2 /\ 2 * i + 2 <= c.nlat
         /\ c.simd = "avx" => VSIZE2(c) = 4 /\ 4 * i + 4 <= c.nlat
         /\ c.simd = "avx512" => VSIZE2(c) = 8 /\ 8 * i + 8 <= c.nlat
         /\ c.magic => 2 * (VSIZE2(c) * i + VSIZE2(c)) <= (IF c.simd = "scalar" THEN c.nlat + 1 ELSE c.nlat)
         /\ c.simd # "scalar" => c.nlat % 2 = 0 /\ c.nlat = 2 * NLAT_2(c)
<1> DEFINE V == VSIZE2(c)
<1>1. /\ c.nlat \in Nat /\ i \in Nat /\ V * (i + 1) <= c.nlat /\ NLAT_2(c) \in Nat /\ V \in {1, 2, 4, 8}
      /\ (c.magic => V * (i + 1) <= NLAT_2(c))
      /\ c.simd # "scalar" => c.nlat % 2 = 0 /\ c.nlat = 2 * NLAT_2(c)
  BY CallFacts, LayoutFacts, SizeFacts DEF BlockOK
<1>2. /\ c.simd = "scalar" => V = 1
      /\ c.simd = "sse2" => V = 2
      /\ c.simd = "avx" => V = 4
      /\ c.simd = "avx512" => V = 8
  BY DEF VSIZE2
<1>3. NLAT_2(c) = (c.nlat + 1) \div 2
  BY DEF NLAT_2
<1> HIDE DEF V
<1>4. /\ V = 1 => i + 1 <= c.nlat
      /\ V = 2 => 2 * i + 2 <= c.nlat
      /\ V = 4 => 4 * i + 4 <= c.nlat
      /\ V = 8 => 8 * i + 8 <= c.nlat
  BY <1>1
<1>5. c.magic => 2 * (V * i + V) <= (IF c.simd = "scalar" THEN c.nlat + 1 ELSE c.nlat)
  <2>1. V * i + V = V * (i + 1)
    BY <1>1
  <2> DEFINE x == V * (i + 1)
  <2>2. x \in Nat
    BY <1>1
  <2> HIDE DEF x
  <2>3. c.magic => x <= NLAT_2(c)
    BY <1>1 DEF x
  <2>4. c.magic => 2 * x <= (IF c.simd = "scalar" THEN c.nlat + 1 ELSE c.nlat)
    BY <1>1, <1>3, <2>2, <2>3
  <2> QED BY <2>1, <2>4 DEF x
<1> QED BY <1>1, <1>2, <1>4, <1>5 DEF V

(* An interval moved. *)
LEMMA Moved ==
  ASSUME NEW S, NEW M \in Int
  PROVE  \A x \in Int : x \in {M + d : d \in S \cap Int} <=> x - M \in S
<1> TAKE x \in Int
<1>1. x = M + (x - M) /\ x - M \in Int /\ \A d \in Int : x = M + d => d = x - M
  OBVIOUS
<1> QED BY <1>1

(* The first latitude of a block. *)
Base(c, i) == VSIZE2(c) * i

(* The places of a block, by layout. *)
LEMMA SpanIs ==
  ASSUME NEW c \in Calls, NEW i, BlockOK(c, i)
  PROVE  /\ Base(c, i) \in Nat /\ Span(c, i) \subseteq Int
         /\ \A d \in Int :
              /\ Packed(c) /\ ~c.magic =>
                   (d \in Span(c, i) <=> \/ d \in Base(c, i)..(Base(c, i) + VSIZE2(c) - 1)
                                         \/ d \in (c.nlat - Base(c, i) - VSIZE2(c))..(c.nlat - Base(c, i) - 1))
              /\ Packed(c) /\ c.magic => (d \in Span(c, i) <=> d \in (2 * Base(c, i))..(2 * Base(c, i) + 2 * VSIZE2(c) - 1))
              /\ ~Packed(c) /\ ~c.magic =>
                   (d \in Span(c, i) <=> \/ d \in (2 * Base(c, i))..(2 * Base(c, i) + 2 * VSIZE2(c) - 1)
                                         \/ d \in (2 * (c.nlat - Base(c, i) - VSIZE2(c)))..(2 * (c.nlat - Base(c, i)) - 1))
              /\ ~Packed(c) /\ c.magic => (d \in Span(c, i) <=> d \in (4 * Base(c, i))..(4 * Base(c, i) + 4 * VSIZE2(c) - 1))
<1> DEFINE y == Base(c, i)
           V == VSIZE2(c)
           L == c.nlat
           b == IF Packed(c) THEN 1 ELSE 2
           S == Span(c, i)
<1>1. V \in {1, 2, 4, 8} /\ L \in Nat /\ i \in Nat
  BY SizeFacts, CallFacts DEF BlockOK
<1>2. S = IF c.magic THEN (2 * b * y)..(2 * b * (y + V) - 1)
          ELSE (b * y)..(b * (y + V) - 1) \cup (b * (L - y - V))..(b * (L - y) - 1)
  BY DEF Span, Base
<1> HIDE DEF S, L
<1>3. y \in Nat
  BY <1>1 DEF Base
<1> HIDE DEF y, V
<1>4. S \subseteq Int
  BY <1>1, <1>2, <1>3
<1>5. \A d \in Int :
        /\ Packed(c) /\ ~c.magic => (d \in S <=> d \in y..(y + V - 1) \/ d \in (L - y - V)..(L - y - 1))
        /\ Packed(c) /\ c.magic => (d \in S <=> d \in (2 * y)..(2 * y + 2 * V - 1))
        /\ ~Packed(c) /\ ~c.magic =>
             (d \in S <=> d \in (2 * y)..(2 * y + 2 * V - 1) \/ d \in (2 * (L - y - V))..(2 * (L - y) - 1))
        /\ ~Packed(c) /\ c.magic => (d \in S <=> d \in (4 * y)..(4 * y + 4 * V - 1))
  BY <1>1, <1>2, <1>3
<1> QED BY <1>3, <1>4, <1>5 DEF y, V, L, S

(* The mirror row has the same places. *)
LEMMA TouchedIs ==
  ASSUME NEW c \in Calls, NEW i, BlockOK(c, i)
  PROVE  /\ Touched(c, i) \subseteq Int
         /\ \A d \in Int : /\ HasMirror(c) => (d \in Touched(c, i) <=> d \in Span(c, i) \/ d - Mirrored(c) \in Span(c, i))
                           /\ ~HasMirror(c) => (d \in Touched(c, i) <=> d \in Span(c, i))
<1> DEFINE M == Mirrored(c)
           S == Span(c, i)
           T == Touched(c, i)
<1>1. HasMirror(c) => M \in Nat
  BY LayoutFacts
<1>2. T = S \cup (IF HasMirror(c) THEN {M + d : d \in S} ELSE {})
  BY DEF Touched
<1>3. S \subseteq Int /\ S \cap Int = S
  <2>1. S \subseteq Int
    BY SpanIs
  <2> QED BY <2>1
<1> HIDE DEF M, S, T
<1>4. CASE HasMirror(c)
  <2>1. \A d \in Int : d \in {M + e : e \in S} <=> d - M \in S
    BY <1>1, <1>3, <1>4, Moved
  <2>2. {M + e : e \in S} \subseteq Int
    BY <1>1, <1>3, <1>4
  <2> QED BY <1>2, <1>3, <1>4, <2>1, <2>2 DEF M, S, T
<1>5. CASE ~HasMirror(c)
  BY <1>2, <1>3, <1>5 DEF M, S, T
<1> QED BY <1>4, <1>5

(* The lanes of two vectors in turn. *)
LEMMA UnpackTwo ==
  ASSUME NEW x, NEW z, Vector(x, 2), Vector(z, 2)
  PROVE  /\ Vector(unpacklo(x, z), 2) /\ unpacklo(x, z)[0] = x[0] /\ unpacklo(x, z)[1] = z[0]
         /\ Vector(unpackhi(x, z), 2) /\ unpackhi(x, z)[0] = x[1] /\ unpackhi(x, z)[1] = z[1]
BY DEF Vector, unpacklo, unpackhi

(* Halves of a vector. *)
LEMMA Halved ==
  ASSUME NEW n \in {2, 4}, NEW x, Vector(x, 2 * n)
  PROVE  /\ Vector(Half(x, 0), n) /\ Vector(Half(x, 1), n)
         /\ \A j \in 0..(n - 1) : Half(x, 0)[j] = x[j] /\ Half(x, 1)[j] = x[n + j]
<1>1. DOMAIN x = 0..(2 * n - 1)
  BY DEF Vector
<1>2. IsFiniteSet(0..(2 * n - 1)) /\ Cardinality(0..(2 * n - 1)) = 2 * n
  <2> DEFINE m == 2 * n - 1
  <2>1. m \in Int /\ 0 \in Int /\ m + 1 = 2 * n /\ m >= 0
    OBVIOUS
  <2> HIDE DEF m
  <2>2. IsFiniteSet(0..m) /\ Cardinality(0..m) = IF 0 > m THEN 0 ELSE m - 0 + 1
    BY <2>1, FS_Interval
  <2> QED BY <2>1, <2>2 DEF m
<1>3. (2 * n) \div 2 = n
  OBVIOUS
<1>4. /\ Half(x, 0) = [i \in 0..(n - 1) |-> x[(0 * n) + i]]
      /\ Half(x, 1) = [i \in 0..(n - 1) |-> x[(1 * n) + i]]
  BY <1>1, <1>2, <1>3 DEF Half
<1>5. \A j \in 0..(n - 1) : (0 * n) + j = j /\ (1 * n) + j = n + j
  OBVIOUS
<1> QED BY <1>4, <1>5 DEF Vector

(* The halves of two vectors of four lanes in turn. *)
LEMMA UnpackFour ==
  ASSUME NEW x, NEW z, Vector(x, 4), Vector(z, 4)
  PROVE  LET lo == unpacklo(x, z)
             hi == unpackhi(x, z)
         IN  /\ Vector(Half(lo, 0), 2) /\ Half(lo, 0)[0] = x[0] /\ Half(lo, 0)[1] = z[0]
             /\ Vector(Half(lo, 1), 2) /\ Half(lo, 1)[0] = x[2] /\ Half(lo, 1)[1] = z[2]
             /\ Vector(Half(hi, 0), 2) /\ Half(hi, 0)[0] = x[1] /\ Half(hi, 0)[1] = z[1]
             /\ Vector(Half(hi, 1), 2) /\ Half(hi, 1)[0] = x[3] /\ Half(hi, 1)[1] = z[3]
<1> DEFINE lo == unpacklo(x, z)
           hi == unpackhi(x, z)
           n == 2
<1>1. /\ Vector(lo, 4) /\ lo[0] = x[0] /\ lo[1] = z[0] /\ lo[2] = x[2] /\ lo[3] = z[2]
      /\ Vector(hi, 4) /\ hi[0] = x[1] /\ hi[1] = z[1] /\ hi[2] = x[3] /\ hi[3] = z[3]
  BY DEF Vector, unpacklo, unpackhi
<1> HIDE DEF lo, hi
<1>2. n \in {2, 4} /\ n = 2 /\ Vector(lo, 2 * n) /\ Vector(hi, 2 * n)
  BY <1>1
<1> HIDE DEF n
<1>3. /\ Vector(Half(lo, 0), n) /\ Vector(Half(lo, 1), n)
      /\ \A j \in 0..(n - 1) : Half(lo, 0)[j] = lo[j] /\ Half(lo, 1)[j] = lo[n + j]
  BY <1>2, Halved
<1>4. /\ Vector(Half(hi, 0), n) /\ Vector(Half(hi, 1), n)
      /\ \A j \in 0..(n - 1) : Half(hi, 0)[j] = hi[j] /\ Half(hi, 1)[j] = hi[n + j]
  BY <1>2, Halved
<1>5. 0 \in 0..(n - 1) /\ 1 \in 0..(n - 1) /\ n + 0 = 2 /\ n + 1 = 3
  BY <1>2
<1> QED BY <1>1, <1>2, <1>3, <1>4, <1>5 DEF lo, hi

(* SSE2, one order. *)
LEMMA Sse2CStore2Right ==
  ASSUME NEW c \in Calls, ~Packed(c), ~c.magic, c.simd = "sse2", NEW i, BlockOK(c, i)
  PROVE  Stored(c, i, Sse2CStore2(c, i, Sums(c, i)))
<1> DEFINE s == Sums(c, i)
           L == c.nlat
           y == 2 * i
           a1 == 2 * (L - 2 - 2 * i)
           a2 == 2 * (L - 1 - 2 * i)
           a3 == 2 * (2 * i + 1)
           a4 == 2 * (2 * i)
           v1 == unpackhi(s.sr, s.si)
           v2 == unpacklo(s.sr, s.si)
           v3 == unpackhi(s.nr, s.ni)
           v4 == unpacklo(s.nr, s.ni)
<1>1. /\ L \in Nat /\ i \in Nat /\ y \in Nat /\ y + 2 <= L /\ VSIZE2(c) = 2 /\ Base(c, i) = y /\ RowLen(c) = 2 * L
      /\ 2 * NLAT_2(c) = L
      /\ ~HasMirror(c)
      /\ a1 \in Nat /\ a1 + 2 <= 2 * L
      /\ a2 \in Nat /\ a2 + 2 <= 2 * L
      /\ a3 \in Nat /\ a3 + 2 <= 2 * L
      /\ a4 \in Nat /\ a4 + 2 <= 2 * L
  <2>1. VSIZE2(c) * i = 2 * i
    BY BlockFacts
  <2>2. L \in Nat /\ i \in Nat /\ y + 2 <= L /\ VSIZE2(c) = 2 /\ RowLen(c) = 2 * L /\ 2 * NLAT_2(c) = L /\ ~HasMirror(c)
    BY BlockFacts, LayoutFacts DEF HasMirror
  <2> HIDE DEF L
  <2> QED BY <2>1, <2>2 DEF Base
<1>2. /\ Vector(s.nr, 2) /\ Vector(s.ni, 2) /\ Vector(s.sr, 2) /\ Vector(s.si, 2)
      /\ \A j \in 0..1 : /\ s.nr[j] = Near(c, 2 * (y + j))
                         /\ s.ni[j] = Near(c, 2 * (y + j) + 1)
                         /\ s.sr[j] = Near(c, 2 * (L - 1 - y - j))
                         /\ s.si[j] = Near(c, 2 * (L - 1 - y - j) + 1)
  BY <1>1, Plain
<1>3. Touched(c, i) \subseteq Int /\ \A d \in Int : d \in Span(c, i) <=> d \in (2 * y)..(2 * y + 2 * 2 - 1) \/ d \in (2 * (L - y - 2))..(2 * (L - y) - 1)
  BY <1>1, TouchedIs, SpanIs
<1>4. /\ Vector(v1, 2) /\ v1[0] = s.sr[1] /\ v1[1] = s.si[1]
      /\ Vector(v2, 2) /\ v2[0] = s.sr[0] /\ v2[1] = s.si[0]
      /\ Vector(v3, 2) /\ v3[0] = s.nr[1] /\ v3[1] = s.ni[1]
      /\ Vector(v4, 2) /\ v4[0] = s.nr[0] /\ v4[1] = s.ni[0]
  BY <1>2, UnpackTwo
<1> HIDE DEF s, L, v1, v2, v3, v4
<1>5. /\ v1[0] = Near(c, a1) /\ v1[1] = Near(c, a1 + 1)
      /\ v2[0] = Near(c, a2) /\ v2[1] = Near(c, a2 + 1)
      /\ v3[0] = Near(c, a3) /\ v3[1] = Near(c, a3 + 1)
      /\ v4[0] = Near(c, a4) /\ v4[1] = Near(c, a4 + 1)
  BY <1>1, <1>2, <1>4
<1> HIDE DEF a1, a2, a3, a4
<1>6. /\ LanesAt(c, v1, a1, 2)
      /\ LanesAt(c, v2, a2, 2)
      /\ LanesAt(c, v3, a3, 2)
      /\ LanesAt(c, v4, a4, 2)
  BY <1>1, <1>4, <1>5, TwoLanes DEF L
<1>7. /\ LanesAt(c, v1, a1, 2) /\ a1 \in Int
      /\ LanesAt(c, v2, a2, 2) /\ a2 \in Int
      /\ LanesAt(c, v3, a3, 2) /\ a3 \in Int
      /\ LanesAt(c, v4, a4, 2) /\ a4 \in Int
  BY <1>6 DEF LanesAt
<1>8. /\ Put(a1, v1) = Fill(c, Run(a1, 2))
      /\ Put(a2, v2) = Fill(c, Run(a2, 2))
      /\ Put(a3, v3) = Fill(c, Run(a3, 2))
      /\ Put(a4, v4) = Fill(c, Run(a4, 2))
  BY <1>7, PutFills
<1>9. Sse2CStore2(c, i, s) = Put(a1, v1) ## Put(a2, v2) ## Put(a3, v3) ## Put(a4, v4)
  BY <1>1 DEF Sse2CStore2, a1, a2, a3, a4, v1, v2, v3, v4, L
<1>10. Sse2CStore2(c, i, s) = Fill(c, Join(Join(Join(Run(a1, 2), Run(a2, 2)), Run(a3, 2)), Run(a4, 2)))
  BY <1>8, <1>9, FillOver
<1>11. Join(Join(Join(Run(a1, 2), Run(a2, 2)), Run(a3, 2)), Run(a4, 2)) = Touched(c, i)
  <2>1. \A d \in Int : d \in Touched(c, i) <=> d \in Span(c, i)
    <3>1. ~HasMirror(c)
      BY <1>1
    <3> QED BY <3>1, TouchedIs
  <2>2. \A d : d \in Join(Join(Join(Run(a1, 2), Run(a2, 2)), Run(a3, 2)), Run(a4, 2)) <=> d \in Int /\ (d \in (a1)..(a1 + 1) \/ d \in (a2)..(a2 + 1) \/ d \in (a3)..(a3 + 1) \/ d \in (a4)..(a4 + 1))
    BY <1>1, <1>7 DEF Join, Run, LanesAt
  <2> DEFINE J == Join(Join(Join(Run(a1, 2), Run(a2, 2)), Run(a3, 2)), Run(a4, 2))
  <2> HIDE DEF J
  <2>3. \A d \in Int : d \in J <=> d \in Touched(c, i)
    BY <1>1, <1>3, <2>1, <2>2 DEF J, a1, a2, a3, a4
  <2>4. \A d : d \in J <=> d \in Touched(c, i)
    BY <1>3, <2>2, <2>3 DEF J
  <2> QED BY <2>4 DEF J
<1> QED BY <1>10, <1>11 DEF Stored, s

(* SSE2, SHTNS4MAGIC, row 0. *)
LEMMA Sse2MagicStoreRight ==
  ASSUME NEW c \in Calls, Packed(c), c.magic, c.simd = "sse2", c.im = 0, NEW i, BlockOK(c, i)
  PROVE  Stored(c, i, Sse2MagicStore(c, i, Sums(c, i)))
<1> DEFINE s == Sums(c, i)
           L == c.nlat
           y == 2 * i
           a1 == 2 * (2 * i)
           a2 == 2 * (2 * i + 1)
           v1 == unpacklo(s.nr, s.sr)
           v2 == unpackhi(s.nr, s.sr)
<1>1. /\ L \in Nat /\ i \in Nat /\ y \in Nat /\ y + 2 <= L /\ VSIZE2(c) = 2 /\ Base(c, i) = y /\ RowLen(c) = L
      /\ 2 * NLAT_2(c) = L
      /\ ~HasMirror(c)
      /\ a1 \in Nat /\ a1 + 2 <= L
      /\ a2 \in Nat /\ a2 + 2 <= L
  <2>1. VSIZE2(c) * i = 2 * i
    BY BlockFacts
  <2>2. L \in Nat /\ i \in Nat /\ y + 2 <= L /\ VSIZE2(c) = 2 /\ RowLen(c) = L /\ 2 * NLAT_2(c) = L /\ ~HasMirror(c)
    BY BlockFacts, LayoutFacts DEF HasMirror
  <2>3. 2 * y + 4 <= L
    BY <2>1, BlockFacts
  <2> HIDE DEF L
  <2> QED BY <2>1, <2>2, <2>3 DEF Base
<1>2. /\ Vector(s.nr, 2) /\ Vector(s.sr, 2)
      /\ \A j \in 0..1 : /\ s.nr[j] = Near(c, 2 * (y + j))
                         /\ s.sr[j] = Near(c, 2 * (y + j) + 1)
  BY <1>1, Turned
<1>3. Touched(c, i) \subseteq Int /\ \A d \in Int : d \in Span(c, i) <=> d \in (2 * y)..(2 * y + 2 * 2 - 1)
  BY <1>1, TouchedIs, SpanIs
<1>4. /\ Vector(v1, 2) /\ v1[0] = s.nr[0] /\ v1[1] = s.sr[0]
      /\ Vector(v2, 2) /\ v2[0] = s.nr[1] /\ v2[1] = s.sr[1]
  BY <1>2, UnpackTwo
<1> HIDE DEF s, L, v1, v2
<1>5. /\ v1[0] = Near(c, a1) /\ v1[1] = Near(c, a1 + 1)
      /\ v2[0] = Near(c, a2) /\ v2[1] = Near(c, a2 + 1)
  BY <1>1, <1>2, <1>4
<1> HIDE DEF a1, a2
<1>6. /\ LanesAt(c, v1, a1, 2)
      /\ LanesAt(c, v2, a2, 2)
  BY <1>1, <1>4, <1>5, TwoLanes DEF L
<1>7. /\ LanesAt(c, v1, a1, 2) /\ a1 \in Int
      /\ LanesAt(c, v2, a2, 2) /\ a2 \in Int
  BY <1>6 DEF LanesAt
<1>8. /\ Put(a1, v1) = Fill(c, Run(a1, 2))
      /\ Put(a2, v2) = Fill(c, Run(a2, 2))
  BY <1>7, PutFills
<1>9. Sse2MagicStore(c, i, s) = Put(a1, v1) ## Put(a2, v2)
  BY <1>1 DEF Sse2MagicStore, a1, a2, v1, v2, L
<1>10. Sse2MagicStore(c, i, s) = Fill(c, Join(Run(a1, 2), Run(a2, 2)))
  BY <1>8, <1>9, FillOver
<1>11. Join(Run(a1, 2), Run(a2, 2)) = Touched(c, i)
  <2>1. \A d \in Int : d \in Touched(c, i) <=> d \in Span(c, i)
    <3>1. ~HasMirror(c)
      BY <1>1
    <3> QED BY <3>1, TouchedIs
  <2>2. \A d : d \in Join(Run(a1, 2), Run(a2, 2)) <=> d \in Int /\ (d \in (a1)..(a1 + 1) \/ d \in (a2)..(a2 + 1))
    BY <1>1, <1>7 DEF Join, Run, LanesAt
  <2> DEFINE J == Join(Run(a1, 2), Run(a2, 2))
  <2> HIDE DEF J
  <2>3. \A d \in Int : d \in J <=> d \in Touched(c, i)
    BY <1>1, <1>3, <2>1, <2>2 DEF J, a1, a2
  <2>4. \A d : d \in J <=> d \in Touched(c, i)
    BY <1>3, <2>2, <2>3 DEF J
  <2> QED BY <2>4 DEF J
<1> QED BY <1>10, <1>11 DEF Stored, s

(* SSE2, SHTNS4MAGIC, other rows. *)
LEMMA Sse2MagicCStoreRight ==
  ASSUME NEW c \in Calls, Packed(c), c.magic, c.simd = "sse2", c.im > 0, NEW i, BlockOK(c, i)
  PROVE  Stored(c, i, Sse2MagicCStore(c, i, Sums(c, i)))
<1> DEFINE s == Sums(c, i)
           L == c.nlat
           M == Mirrored(c)
           y == 2 * i
           p == s.nr -- s.si
           q == s.sr ++ s.ni
           r == s.nr ++ s.si
           t == s.sr -- s.ni
           a1 == 4 * i
           a2 == 4 * i + 2
           b1 == M + a1
           b2 == M + a2
           v1 == unpacklo(p, q)
           v2 == unpacklo(r, t)
           v3 == unpackhi(p, q)
           v4 == unpackhi(r, t)
<1>1. /\ L \in Nat /\ i \in Nat /\ y \in Nat /\ y + 2 <= L /\ VSIZE2(c) = 2 /\ Base(c, i) = y /\ RowLen(c) = L
      /\ 2 * NLAT_2(c) = L
      /\ M \in Nat /\ HasMirror(c)
      /\ a1 \in Nat /\ a1 + 2 <= L
      /\ a2 \in Nat /\ a2 + 2 <= L
  <2>1. VSIZE2(c) * i = 2 * i
    BY BlockFacts
  <2>2. L \in Nat /\ i \in Nat /\ y + 2 <= L /\ VSIZE2(c) = 2 /\ RowLen(c) = L /\ 2 * NLAT_2(c) = L /\ M \in Nat /\ HasMirror(c)
    BY BlockFacts, LayoutFacts DEF HasMirror
  <2>3. 2 * y + 4 <= L
    BY <2>1, BlockFacts
  <2> HIDE DEF L, M
  <2> QED BY <2>1, <2>2, <2>3 DEF Base
<1>2. /\ Vector(p, 2) /\ Vector(q, 2) /\ Vector(r, 2) /\ Vector(t, 2)
      /\ \A j \in 0..1 : /\ p[j] = Near(c, 2 * (y + j))
                         /\ q[j] = Near(c, 2 * (y + j) + 1)
                         /\ r[j] = Far(c, 2 * (y + j))
                         /\ t[j] = Far(c, 2 * (y + j) + 1)
  BY <1>1, Turned
<1>3. Touched(c, i) \subseteq Int /\ \A d \in Int : d \in Span(c, i) <=> d \in (2 * y)..(2 * y + 2 * 2 - 1)
  BY <1>1, TouchedIs, SpanIs
<1>4. /\ Vector(v1, 2) /\ v1[0] = p[0] /\ v1[1] = q[0]
      /\ Vector(v2, 2) /\ v2[0] = r[0] /\ v2[1] = t[0]
      /\ Vector(v3, 2) /\ v3[0] = p[1] /\ v3[1] = q[1]
      /\ Vector(v4, 2) /\ v4[0] = r[1] /\ v4[1] = t[1]
  BY <1>2, UnpackTwo
<1> HIDE DEF s, L, M, v1, v2, v3, v4, p, q, r, t
<1>5. /\ v1[0] = Near(c, a1) /\ v1[1] = Near(c, a1 + 1)
      /\ v2[0] = Far(c, a1) /\ v2[1] = Far(c, a1 + 1)
      /\ v3[0] = Near(c, a2) /\ v3[1] = Near(c, a2 + 1)
      /\ v4[0] = Far(c, a2) /\ v4[1] = Far(c, a2 + 1)
  BY <1>1, <1>2, <1>4
<1> HIDE DEF a1, a2
<1>6. /\ LanesAt(c, v1, a1, 2)
      /\ LanesAt(c, v2, b1, 2)
      /\ LanesAt(c, v3, a2, 2)
      /\ LanesAt(c, v4, b2, 2)
  BY <1>1, <1>4, <1>5, TwoLanes DEF L, M
<1> HIDE DEF b1, b2
<1>7. /\ LanesAt(c, v1, a1, 2) /\ a1 \in Int
      /\ LanesAt(c, v2, b1, 2) /\ b1 \in Int
      /\ LanesAt(c, v3, a2, 2) /\ a2 \in Int
      /\ LanesAt(c, v4, b2, 2) /\ b2 \in Int
  BY <1>6 DEF LanesAt
<1>8. /\ Put(a1, v1) = Fill(c, Run(a1, 2))
      /\ Put(b1, v2) = Fill(c, Run(b1, 2))
      /\ Put(a2, v3) = Fill(c, Run(a2, 2))
      /\ Put(b2, v4) = Fill(c, Run(b2, 2))
  BY <1>7, PutFills
<1>9. Sse2MagicCStore(c, i, s) = Put(a1, v1) ## Put(b1, v2) ## Put(a2, v3) ## Put(b2, v4)
  BY <1>1 DEF Sse2MagicCStore, a1, a2, b1, b2, v1, v2, v3, v4, L, M, p, q, r, t
<1>10. Sse2MagicCStore(c, i, s) = Fill(c, Join(Join(Join(Run(a1, 2), Run(b1, 2)), Run(a2, 2)), Run(b2, 2)))
  BY <1>8, <1>9, FillOver
<1>11. Join(Join(Join(Run(a1, 2), Run(b1, 2)), Run(a2, 2)), Run(b2, 2)) = Touched(c, i)
  <2>1. \A d \in Int : d \in Touched(c, i) <=> d \in Span(c, i) \/ d - M \in Span(c, i)
    <3>1. HasMirror(c)
      BY <1>1
    <3> HIDE DEF M
    <3> TAKE d \in Int
    <3> QED BY <3>1, TouchedIs DEF M
  <2>2. \A d : d \in Join(Join(Join(Run(a1, 2), Run(b1, 2)), Run(a2, 2)), Run(b2, 2)) <=> d \in Int /\ (d \in (a1)..(a1 + 1) \/ d \in (b1)..(b1 + 1) \/ d \in (a2)..(a2 + 1) \/ d \in (b2)..(b2 + 1))
    BY <1>1, <1>7 DEF Join, Run, LanesAt
  <2> DEFINE J == Join(Join(Join(Run(a1, 2), Run(b1, 2)), Run(a2, 2)), Run(b2, 2))
  <2> HIDE DEF J
  <2>3. \A d \in Int : d \in J <=> d \in Touched(c, i)
    BY <1>1, <1>3, <2>1, <2>2 DEF J, a1, a2, b1, b2
  <2>4. \A d : d \in J <=> d \in Touched(c, i)
    BY <1>3, <2>2, <2>3 DEF J
  <2> QED BY <2>4 DEF J
<1> QED BY <1>10, <1>11 DEF Stored, s

(* SSE2, SHTNS4MAGIC, one order. *)
LEMMA Sse2MagicCStore2Right ==
  ASSUME NEW c \in Calls, ~Packed(c), c.magic, c.simd = "sse2", NEW i, BlockOK(c, i)
  PROVE  Stored(c, i, Sse2MagicCStore2(c, i, Sums(c, i)))
<1> DEFINE s == Sums(c, i)
           L == c.nlat
           y == 2 * i
           a1 == 8 * i
           a2 == 8 * i + 2
           a3 == 8 * i + 4
           a4 == 8 * i + 6
           v1 == unpacklo(s.nr, s.ni)
           v2 == unpacklo(s.sr, s.si)
           v3 == unpackhi(s.nr, s.ni)
           v4 == unpackhi(s.sr, s.si)
<1>1. /\ L \in Nat /\ i \in Nat /\ y \in Nat /\ y + 2 <= L /\ VSIZE2(c) = 2 /\ Base(c, i) = y /\ RowLen(c) = 2 * L
      /\ 2 * NLAT_2(c) = L
      /\ ~HasMirror(c)
      /\ a1 \in Nat /\ a1 + 2 <= 2 * L
      /\ a2 \in Nat /\ a2 + 2 <= 2 * L
      /\ a3 \in Nat /\ a3 + 2 <= 2 * L
      /\ a4 \in Nat /\ a4 + 2 <= 2 * L
  <2>1. VSIZE2(c) * i = 2 * i
    BY BlockFacts
  <2>2. L \in Nat /\ i \in Nat /\ y + 2 <= L /\ VSIZE2(c) = 2 /\ RowLen(c) = 2 * L /\ 2 * NLAT_2(c) = L /\ ~HasMirror(c)
    BY BlockFacts, LayoutFacts DEF HasMirror
  <2>3. 2 * y + 4 <= L
    BY <2>1, BlockFacts
  <2> HIDE DEF L
  <2> QED BY <2>1, <2>2, <2>3 DEF Base
<1>2. /\ Vector(s.nr, 2) /\ Vector(s.ni, 2) /\ Vector(s.sr, 2) /\ Vector(s.si, 2)
      /\ \A j \in 0..1 : /\ s.nr[j] = Near(c, 4 * (y + j))
                         /\ s.ni[j] = Near(c, 4 * (y + j) + 1)
                         /\ s.sr[j] = Near(c, 4 * (y + j) + 2)
                         /\ s.si[j] = Near(c, 4 * (y + j) + 3)
  BY <1>1, Plain
<1>3. Touched(c, i) \subseteq Int /\ \A d \in Int : d \in Span(c, i) <=> d \in (4 * y)..(4 * y + 4 * 2 - 1)
  BY <1>1, TouchedIs, SpanIs
<1>4. /\ Vector(v1, 2) /\ v1[0] = s.nr[0] /\ v1[1] = s.ni[0]
      /\ Vector(v2, 2) /\ v2[0] = s.sr[0] /\ v2[1] = s.si[0]
      /\ Vector(v3, 2) /\ v3[0] = s.nr[1] /\ v3[1] = s.ni[1]
      /\ Vector(v4, 2) /\ v4[0] = s.sr[1] /\ v4[1] = s.si[1]
  BY <1>2, UnpackTwo
<1> HIDE DEF s, L, v1, v2, v3, v4
<1>5. /\ v1[0] = Near(c, a1) /\ v1[1] = Near(c, a1 + 1)
      /\ v2[0] = Near(c, a2) /\ v2[1] = Near(c, a2 + 1)
      /\ v3[0] = Near(c, a3) /\ v3[1] = Near(c, a3 + 1)
      /\ v4[0] = Near(c, a4) /\ v4[1] = Near(c, a4 + 1)
  BY <1>1, <1>2, <1>4
<1> HIDE DEF a1, a2, a3, a4
<1>6. /\ LanesAt(c, v1, a1, 2)
      /\ LanesAt(c, v2, a2, 2)
      /\ LanesAt(c, v3, a3, 2)
      /\ LanesAt(c, v4, a4, 2)
  BY <1>1, <1>4, <1>5, TwoLanes DEF L
<1>7. /\ LanesAt(c, v1, a1, 2) /\ a1 \in Int
      /\ LanesAt(c, v2, a2, 2) /\ a2 \in Int
      /\ LanesAt(c, v3, a3, 2) /\ a3 \in Int
      /\ LanesAt(c, v4, a4, 2) /\ a4 \in Int
  BY <1>6 DEF LanesAt
<1>8. /\ Put(a1, v1) = Fill(c, Run(a1, 2))
      /\ Put(a2, v2) = Fill(c, Run(a2, 2))
      /\ Put(a3, v3) = Fill(c, Run(a3, 2))
      /\ Put(a4, v4) = Fill(c, Run(a4, 2))
  BY <1>7, PutFills
<1>9. Sse2MagicCStore2(c, i, s) = Put(a1, v1) ## Put(a2, v2) ## Put(a3, v3) ## Put(a4, v4)
  BY <1>1 DEF Sse2MagicCStore2, a1, a2, a3, a4, v1, v2, v3, v4, L
<1>10. Sse2MagicCStore2(c, i, s) = Fill(c, Join(Join(Join(Run(a1, 2), Run(a2, 2)), Run(a3, 2)), Run(a4, 2)))
  BY <1>8, <1>9, FillOver
<1>11. Join(Join(Join(Run(a1, 2), Run(a2, 2)), Run(a3, 2)), Run(a4, 2)) = Touched(c, i)
  <2>1. \A d \in Int : d \in Touched(c, i) <=> d \in Span(c, i)
    <3>1. ~HasMirror(c)
      BY <1>1
    <3> QED BY <3>1, TouchedIs
  <2>2. \A d : d \in Join(Join(Join(Run(a1, 2), Run(a2, 2)), Run(a3, 2)), Run(a4, 2)) <=> d \in Int /\ (d \in (a1)..(a1 + 1) \/ d \in (a2)..(a2 + 1) \/ d \in (a3)..(a3 + 1) \/ d \in (a4)..(a4 + 1))
    BY <1>1, <1>7 DEF Join, Run, LanesAt
  <2> DEFINE J == Join(Join(Join(Run(a1, 2), Run(a2, 2)), Run(a3, 2)), Run(a4, 2))
  <2> HIDE DEF J
  <2>3. \A d \in Int : d \in J <=> d \in Touched(c, i)
    BY <1>1, <1>3, <2>1, <2>2 DEF J, a1, a2, a3, a4
  <2>4. \A d : d \in J <=> d \in Touched(c, i)
    BY <1>3, <2>2, <2>3 DEF J
  <2> QED BY <2>4 DEF J
<1> QED BY <1>10, <1>11 DEF Stored, s

(* AVX, one order. *)
LEMMA AvxCStore2Right ==
  ASSUME NEW c \in Calls, ~Packed(c), ~c.magic, c.simd = "avx", NEW i, BlockOK(c, i)
  PROVE  Stored(c, i, AvxCStore2(c, i, Sums(c, i)))
<1> DEFINE s == Sums(c, i)
           L == c.nlat
           y == 4 * i
           a1 == 2 * (L - 1 - 3 - 4 * i)
           a2 == 2 * (L - 1 - 2 - 4 * i)
           a3 == 2 * (L - 1 - 1 - 4 * i)
           a4 == 2 * (L - 1 - 0 - 4 * i)
           a5 == 2 * (4 * i + 3)
           a6 == 2 * (4 * i + 2)
           a7 == 2 * (4 * i + 1)
           a8 == 2 * (4 * i + 0)
           v1 == Half(unpackhi(s.sr, s.si), 1)
           v2 == Half(unpacklo(s.sr, s.si), 1)
           v3 == Half(unpackhi(s.sr, s.si), 0)
           v4 == Half(unpacklo(s.sr, s.si), 0)
           v5 == Half(unpackhi(s.nr, s.ni), 1)
           v6 == Half(unpacklo(s.nr, s.ni), 1)
           v7 == Half(unpackhi(s.nr, s.ni), 0)
           v8 == Half(unpacklo(s.nr, s.ni), 0)
<1>1. /\ L \in Nat /\ i \in Nat /\ y \in Nat /\ y + 4 <= L /\ VSIZE2(c) = 4 /\ Base(c, i) = y /\ RowLen(c) = 2 * L
      /\ 2 * NLAT_2(c) = L
      /\ ~HasMirror(c)
      /\ a1 \in Nat /\ a1 + 2 <= 2 * L
      /\ a2 \in Nat /\ a2 + 2 <= 2 * L
      /\ a3 \in Nat /\ a3 + 2 <= 2 * L
      /\ a4 \in Nat /\ a4 + 2 <= 2 * L
      /\ a5 \in Nat /\ a5 + 2 <= 2 * L
      /\ a6 \in Nat /\ a6 + 2 <= 2 * L
      /\ a7 \in Nat /\ a7 + 2 <= 2 * L
      /\ a8 \in Nat /\ a8 + 2 <= 2 * L
  <2>1. VSIZE2(c) * i = 4 * i
    BY BlockFacts
  <2>2. L \in Nat /\ i \in Nat /\ y + 4 <= L /\ VSIZE2(c) = 4 /\ RowLen(c) = 2 * L /\ 2 * NLAT_2(c) = L /\ ~HasMirror(c)
    BY BlockFacts, LayoutFacts DEF HasMirror
  <2> HIDE DEF L
  <2> QED BY <2>1, <2>2 DEF Base
<1>2. /\ Vector(s.nr, 4) /\ Vector(s.ni, 4) /\ Vector(s.sr, 4) /\ Vector(s.si, 4)
      /\ \A j \in 0..3 : /\ s.nr[j] = Near(c, 2 * (y + j))
                         /\ s.ni[j] = Near(c, 2 * (y + j) + 1)
                         /\ s.sr[j] = Near(c, 2 * (L - 1 - y - j))
                         /\ s.si[j] = Near(c, 2 * (L - 1 - y - j) + 1)
  BY <1>1, Plain
<1>3. Touched(c, i) \subseteq Int /\ \A d \in Int : d \in Span(c, i) <=> d \in (2 * y)..(2 * y + 2 * 4 - 1) \/ d \in (2 * (L - y - 4))..(2 * (L - y) - 1)
  BY <1>1, TouchedIs, SpanIs
<1>4. /\ Vector(v1, 2) /\ v1[0] = s.sr[3] /\ v1[1] = s.si[3]
      /\ Vector(v2, 2) /\ v2[0] = s.sr[2] /\ v2[1] = s.si[2]
      /\ Vector(v3, 2) /\ v3[0] = s.sr[1] /\ v3[1] = s.si[1]
      /\ Vector(v4, 2) /\ v4[0] = s.sr[0] /\ v4[1] = s.si[0]
      /\ Vector(v5, 2) /\ v5[0] = s.nr[3] /\ v5[1] = s.ni[3]
      /\ Vector(v6, 2) /\ v6[0] = s.nr[2] /\ v6[1] = s.ni[2]
      /\ Vector(v7, 2) /\ v7[0] = s.nr[1] /\ v7[1] = s.ni[1]
      /\ Vector(v8, 2) /\ v8[0] = s.nr[0] /\ v8[1] = s.ni[0]
  BY <1>2, UnpackFour
<1> HIDE DEF s, L, v1, v2, v3, v4, v5, v6, v7, v8
<1>5. /\ v1[0] = Near(c, a1) /\ v1[1] = Near(c, a1 + 1)
      /\ v2[0] = Near(c, a2) /\ v2[1] = Near(c, a2 + 1)
      /\ v3[0] = Near(c, a3) /\ v3[1] = Near(c, a3 + 1)
      /\ v4[0] = Near(c, a4) /\ v4[1] = Near(c, a4 + 1)
      /\ v5[0] = Near(c, a5) /\ v5[1] = Near(c, a5 + 1)
      /\ v6[0] = Near(c, a6) /\ v6[1] = Near(c, a6 + 1)
      /\ v7[0] = Near(c, a7) /\ v7[1] = Near(c, a7 + 1)
      /\ v8[0] = Near(c, a8) /\ v8[1] = Near(c, a8 + 1)
  BY <1>1, <1>2, <1>4
<1> HIDE DEF a1, a2, a3, a4, a5, a6, a7, a8
<1>6. /\ LanesAt(c, v1, a1, 2)
      /\ LanesAt(c, v2, a2, 2)
      /\ LanesAt(c, v3, a3, 2)
      /\ LanesAt(c, v4, a4, 2)
      /\ LanesAt(c, v5, a5, 2)
      /\ LanesAt(c, v6, a6, 2)
      /\ LanesAt(c, v7, a7, 2)
      /\ LanesAt(c, v8, a8, 2)
  BY <1>1, <1>4, <1>5, TwoLanes DEF L
<1>7. /\ LanesAt(c, v1, a1, 2) /\ a1 \in Int
      /\ LanesAt(c, v2, a2, 2) /\ a2 \in Int
      /\ LanesAt(c, v3, a3, 2) /\ a3 \in Int
      /\ LanesAt(c, v4, a4, 2) /\ a4 \in Int
      /\ LanesAt(c, v5, a5, 2) /\ a5 \in Int
      /\ LanesAt(c, v6, a6, 2) /\ a6 \in Int
      /\ LanesAt(c, v7, a7, 2) /\ a7 \in Int
      /\ LanesAt(c, v8, a8, 2) /\ a8 \in Int
  BY <1>6 DEF LanesAt
<1>8. /\ Put(a1, v1) = Fill(c, Run(a1, 2))
      /\ Put(a2, v2) = Fill(c, Run(a2, 2))
      /\ Put(a3, v3) = Fill(c, Run(a3, 2))
      /\ Put(a4, v4) = Fill(c, Run(a4, 2))
      /\ Put(a5, v5) = Fill(c, Run(a5, 2))
      /\ Put(a6, v6) = Fill(c, Run(a6, 2))
      /\ Put(a7, v7) = Fill(c, Run(a7, 2))
      /\ Put(a8, v8) = Fill(c, Run(a8, 2))
  BY <1>7, PutFills
<1>9. AvxCStore2(c, i, s) = Put(a1, v1) ## Put(a2, v2) ## Put(a3, v3) ## Put(a4, v4) ## Put(a5, v5) ## Put(a6, v6) ## Put(a7, v7) ## Put(a8, v8)
  BY <1>1 DEF AvxCStore2, a1, a2, a3, a4, a5, a6, a7, a8, v1, v2, v3, v4, v5, v6, v7, v8, L
<1>10. AvxCStore2(c, i, s) = Fill(c, Join(Join(Join(Join(Join(Join(Join(Run(a1, 2), Run(a2, 2)), Run(a3, 2)), Run(a4, 2)), Run(a5, 2)), Run(a6, 2)), Run(a7, 2)), Run(a8, 2)))
  BY <1>8, <1>9, FillOver
<1>11. Join(Join(Join(Join(Join(Join(Join(Run(a1, 2), Run(a2, 2)), Run(a3, 2)), Run(a4, 2)), Run(a5, 2)), Run(a6, 2)), Run(a7, 2)), Run(a8, 2)) = Touched(c, i)
  <2>1. \A d \in Int : d \in Touched(c, i) <=> d \in Span(c, i)
    <3>1. ~HasMirror(c)
      BY <1>1
    <3> QED BY <3>1, TouchedIs
  <2>2. \A d : d \in Join(Join(Join(Join(Join(Join(Join(Run(a1, 2), Run(a2, 2)), Run(a3, 2)), Run(a4, 2)), Run(a5, 2)), Run(a6, 2)), Run(a7, 2)), Run(a8, 2)) <=> d \in Int /\ (d \in (a1)..(a1 + 1) \/ d \in (a2)..(a2 + 1) \/ d \in (a3)..(a3 + 1) \/ d \in (a4)..(a4 + 1) \/ d \in (a5)..(a5 + 1) \/ d \in (a6)..(a6 + 1) \/ d \in (a7)..(a7 + 1) \/ d \in (a8)..(a8 + 1))
    BY <1>1, <1>7 DEF Join, Run, LanesAt
  <2> DEFINE J == Join(Join(Join(Join(Join(Join(Join(Run(a1, 2), Run(a2, 2)), Run(a3, 2)), Run(a4, 2)), Run(a5, 2)), Run(a6, 2)), Run(a7, 2)), Run(a8, 2))
  <2> HIDE DEF J
  <2>3. \A d \in Int : d \in J <=> d \in Touched(c, i)
    BY <1>1, <1>3, <2>1, <2>2 DEF J, a1, a2, a3, a4, a5, a6, a7, a8
  <2>4. \A d : d \in J <=> d \in Touched(c, i)
    BY <1>3, <2>2, <2>3 DEF J
  <2> QED BY <2>4 DEF J
<1> QED BY <1>10, <1>11 DEF Stored, s

(* AVX, SHTNS4MAGIC, row 0. *)
LEMMA AvxMagicStoreRight ==
  ASSUME NEW c \in Calls, Packed(c), c.magic, c.simd = "avx", c.im = 0, NEW i, BlockOK(c, i)
  PROVE  Stored(c, i, AvxMagicStore(c, i, Sums(c, i)))
<1> DEFINE s == Sums(c, i)
           L == c.nlat
           y == 4 * i
           a1 == 8 * i
           a2 == 8 * i + 2
           a3 == 8 * i + 4
           a4 == 8 * i + 6
           v1 == Half(unpacklo(s.nr, s.sr), 0)
           v2 == Half(unpackhi(s.nr, s.sr), 0)
           v3 == Half(unpacklo(s.nr, s.sr), 1)
           v4 == Half(unpackhi(s.nr, s.sr), 1)
<1>1. /\ L \in Nat /\ i \in Nat /\ y \in Nat /\ y + 4 <= L /\ VSIZE2(c) = 4 /\ Base(c, i) = y /\ RowLen(c) = L
      /\ 2 * NLAT_2(c) = L
      /\ ~HasMirror(c)
      /\ a1 \in Nat /\ a1 + 2 <= L
      /\ a2 \in Nat /\ a2 + 2 <= L
      /\ a3 \in Nat /\ a3 + 2 <= L
      /\ a4 \in Nat /\ a4 + 2 <= L
  <2>1. VSIZE2(c) * i = 4 * i
    BY BlockFacts
  <2>2. L \in Nat /\ i \in Nat /\ y + 4 <= L /\ VSIZE2(c) = 4 /\ RowLen(c) = L /\ 2 * NLAT_2(c) = L /\ ~HasMirror(c)
    BY BlockFacts, LayoutFacts DEF HasMirror
  <2>3. 2 * y + 8 <= L
    BY <2>1, BlockFacts
  <2> HIDE DEF L
  <2> QED BY <2>1, <2>2, <2>3 DEF Base
<1>2. /\ Vector(s.nr, 4) /\ Vector(s.sr, 4)
      /\ \A j \in 0..3 : /\ s.nr[j] = Near(c, 2 * (y + j))
                         /\ s.sr[j] = Near(c, 2 * (y + j) + 1)
  BY <1>1, Turned
<1>3. Touched(c, i) \subseteq Int /\ \A d \in Int : d \in Span(c, i) <=> d \in (2 * y)..(2 * y + 2 * 4 - 1)
  BY <1>1, TouchedIs, SpanIs
<1>4. /\ Vector(v1, 2) /\ v1[0] = s.nr[0] /\ v1[1] = s.sr[0]
      /\ Vector(v2, 2) /\ v2[0] = s.nr[1] /\ v2[1] = s.sr[1]
      /\ Vector(v3, 2) /\ v3[0] = s.nr[2] /\ v3[1] = s.sr[2]
      /\ Vector(v4, 2) /\ v4[0] = s.nr[3] /\ v4[1] = s.sr[3]
  BY <1>2, UnpackFour
<1> HIDE DEF s, L, v1, v2, v3, v4
<1>5. /\ v1[0] = Near(c, a1) /\ v1[1] = Near(c, a1 + 1)
      /\ v2[0] = Near(c, a2) /\ v2[1] = Near(c, a2 + 1)
      /\ v3[0] = Near(c, a3) /\ v3[1] = Near(c, a3 + 1)
      /\ v4[0] = Near(c, a4) /\ v4[1] = Near(c, a4 + 1)
  BY <1>1, <1>2, <1>4
<1> HIDE DEF a1, a2, a3, a4
<1>6. /\ LanesAt(c, v1, a1, 2)
      /\ LanesAt(c, v2, a2, 2)
      /\ LanesAt(c, v3, a3, 2)
      /\ LanesAt(c, v4, a4, 2)
  BY <1>1, <1>4, <1>5, TwoLanes DEF L
<1>7. /\ LanesAt(c, v1, a1, 2) /\ a1 \in Int
      /\ LanesAt(c, v2, a2, 2) /\ a2 \in Int
      /\ LanesAt(c, v3, a3, 2) /\ a3 \in Int
      /\ LanesAt(c, v4, a4, 2) /\ a4 \in Int
  BY <1>6 DEF LanesAt
<1>8. /\ Put(a1, v1) = Fill(c, Run(a1, 2))
      /\ Put(a2, v2) = Fill(c, Run(a2, 2))
      /\ Put(a3, v3) = Fill(c, Run(a3, 2))
      /\ Put(a4, v4) = Fill(c, Run(a4, 2))
  BY <1>7, PutFills
<1>9. AvxMagicStore(c, i, s) = Put(a1, v1) ## Put(a2, v2) ## Put(a3, v3) ## Put(a4, v4)
  BY <1>1 DEF AvxMagicStore, a1, a2, a3, a4, v1, v2, v3, v4, L
<1>10. AvxMagicStore(c, i, s) = Fill(c, Join(Join(Join(Run(a1, 2), Run(a2, 2)), Run(a3, 2)), Run(a4, 2)))
  BY <1>8, <1>9, FillOver
<1>11. Join(Join(Join(Run(a1, 2), Run(a2, 2)), Run(a3, 2)), Run(a4, 2)) = Touched(c, i)
  <2>1. \A d \in Int : d \in Touched(c, i) <=> d \in Span(c, i)
    <3>1. ~HasMirror(c)
      BY <1>1
    <3> QED BY <3>1, TouchedIs
  <2>2. \A d : d \in Join(Join(Join(Run(a1, 2), Run(a2, 2)), Run(a3, 2)), Run(a4, 2)) <=> d \in Int /\ (d \in (a1)..(a1 + 1) \/ d \in (a2)..(a2 + 1) \/ d \in (a3)..(a3 + 1) \/ d \in (a4)..(a4 + 1))
    BY <1>1, <1>7 DEF Join, Run, LanesAt
  <2> DEFINE J == Join(Join(Join(Run(a1, 2), Run(a2, 2)), Run(a3, 2)), Run(a4, 2))
  <2> HIDE DEF J
  <2>3. \A d \in Int : d \in J <=> d \in Touched(c, i)
    BY <1>1, <1>3, <2>1, <2>2 DEF J, a1, a2, a3, a4
  <2>4. \A d : d \in J <=> d \in Touched(c, i)
    BY <1>3, <2>2, <2>3 DEF J
  <2> QED BY <2>4 DEF J
<1> QED BY <1>10, <1>11 DEF Stored, s

(* AVX, SHTNS4MAGIC, other rows. *)
LEMMA AvxMagicCStoreRight ==
  ASSUME NEW c \in Calls, Packed(c), c.magic, c.simd = "avx", c.im > 0, NEW i, BlockOK(c, i)
  PROVE  Stored(c, i, AvxMagicCStore(c, i, Sums(c, i)))
<1> DEFINE s == Sums(c, i)
           L == c.nlat
           M == Mirrored(c)
           y == 4 * i
           p == s.nr -- s.si
           q == s.sr ++ s.ni
           r == s.nr ++ s.si
           t == s.sr -- s.ni
           a1 == 8 * i
           a2 == 8 * i + 2
           a3 == 8 * i + 4
           a4 == 8 * i + 6
           b1 == M + a1
           b2 == M + a2
           b3 == M + a3
           b4 == M + a4
           v1 == Half(unpacklo(p, q), 0)
           v2 == Half(unpackhi(p, q), 0)
           v3 == Half(unpacklo(p, q), 1)
           v4 == Half(unpackhi(p, q), 1)
           v5 == Half(unpacklo(r, t), 0)
           v6 == Half(unpackhi(r, t), 0)
           v7 == Half(unpacklo(r, t), 1)
           v8 == Half(unpackhi(r, t), 1)
<1>1. /\ L \in Nat /\ i \in Nat /\ y \in Nat /\ y + 4 <= L /\ VSIZE2(c) = 4 /\ Base(c, i) = y /\ RowLen(c) = L
      /\ 2 * NLAT_2(c) = L
      /\ M \in Nat /\ HasMirror(c)
      /\ a1 \in Nat /\ a1 + 2 <= L
      /\ a2 \in Nat /\ a2 + 2 <= L
      /\ a3 \in Nat /\ a3 + 2 <= L
      /\ a4 \in Nat /\ a4 + 2 <= L
  <2>1. VSIZE2(c) * i = 4 * i
    BY BlockFacts
  <2>2. L \in Nat /\ i \in Nat /\ y + 4 <= L /\ VSIZE2(c) = 4 /\ RowLen(c) = L /\ 2 * NLAT_2(c) = L /\ M \in Nat /\ HasMirror(c)
    BY BlockFacts, LayoutFacts DEF HasMirror
  <2>3. 2 * y + 8 <= L
    BY <2>1, BlockFacts
  <2> HIDE DEF L, M
  <2> QED BY <2>1, <2>2, <2>3 DEF Base
<1>2. /\ Vector(p, 4) /\ Vector(q, 4) /\ Vector(r, 4) /\ Vector(t, 4)
      /\ \A j \in 0..3 : /\ p[j] = Near(c, 2 * (y + j))
                         /\ q[j] = Near(c, 2 * (y + j) + 1)
                         /\ r[j] = Far(c, 2 * (y + j))
                         /\ t[j] = Far(c, 2 * (y + j) + 1)
  BY <1>1, Turned
<1>3. Touched(c, i) \subseteq Int /\ \A d \in Int : d \in Span(c, i) <=> d \in (2 * y)..(2 * y + 2 * 4 - 1)
  BY <1>1, TouchedIs, SpanIs
<1>4. /\ Vector(v1, 2) /\ v1[0] = p[0] /\ v1[1] = q[0]
      /\ Vector(v2, 2) /\ v2[0] = p[1] /\ v2[1] = q[1]
      /\ Vector(v3, 2) /\ v3[0] = p[2] /\ v3[1] = q[2]
      /\ Vector(v4, 2) /\ v4[0] = p[3] /\ v4[1] = q[3]
      /\ Vector(v5, 2) /\ v5[0] = r[0] /\ v5[1] = t[0]
      /\ Vector(v6, 2) /\ v6[0] = r[1] /\ v6[1] = t[1]
      /\ Vector(v7, 2) /\ v7[0] = r[2] /\ v7[1] = t[2]
      /\ Vector(v8, 2) /\ v8[0] = r[3] /\ v8[1] = t[3]
  BY <1>2, UnpackFour
<1> HIDE DEF s, L, M, v1, v2, v3, v4, v5, v6, v7, v8, p, q, r, t
<1>5. /\ v1[0] = Near(c, a1) /\ v1[1] = Near(c, a1 + 1)
      /\ v2[0] = Near(c, a2) /\ v2[1] = Near(c, a2 + 1)
      /\ v3[0] = Near(c, a3) /\ v3[1] = Near(c, a3 + 1)
      /\ v4[0] = Near(c, a4) /\ v4[1] = Near(c, a4 + 1)
      /\ v5[0] = Far(c, a1) /\ v5[1] = Far(c, a1 + 1)
      /\ v6[0] = Far(c, a2) /\ v6[1] = Far(c, a2 + 1)
      /\ v7[0] = Far(c, a3) /\ v7[1] = Far(c, a3 + 1)
      /\ v8[0] = Far(c, a4) /\ v8[1] = Far(c, a4 + 1)
  BY <1>1, <1>2, <1>4
<1> HIDE DEF a1, a2, a3, a4
<1>6. /\ LanesAt(c, v1, a1, 2)
      /\ LanesAt(c, v2, a2, 2)
      /\ LanesAt(c, v3, a3, 2)
      /\ LanesAt(c, v4, a4, 2)
      /\ LanesAt(c, v5, b1, 2)
      /\ LanesAt(c, v6, b2, 2)
      /\ LanesAt(c, v7, b3, 2)
      /\ LanesAt(c, v8, b4, 2)
  BY <1>1, <1>4, <1>5, TwoLanes DEF L, M
<1> HIDE DEF b1, b2, b3, b4
<1>7. /\ LanesAt(c, v1, a1, 2) /\ a1 \in Int
      /\ LanesAt(c, v2, a2, 2) /\ a2 \in Int
      /\ LanesAt(c, v3, a3, 2) /\ a3 \in Int
      /\ LanesAt(c, v4, a4, 2) /\ a4 \in Int
      /\ LanesAt(c, v5, b1, 2) /\ b1 \in Int
      /\ LanesAt(c, v6, b2, 2) /\ b2 \in Int
      /\ LanesAt(c, v7, b3, 2) /\ b3 \in Int
      /\ LanesAt(c, v8, b4, 2) /\ b4 \in Int
  BY <1>6 DEF LanesAt
<1>8. /\ Put(a1, v1) = Fill(c, Run(a1, 2))
      /\ Put(a2, v2) = Fill(c, Run(a2, 2))
      /\ Put(a3, v3) = Fill(c, Run(a3, 2))
      /\ Put(a4, v4) = Fill(c, Run(a4, 2))
      /\ Put(b1, v5) = Fill(c, Run(b1, 2))
      /\ Put(b2, v6) = Fill(c, Run(b2, 2))
      /\ Put(b3, v7) = Fill(c, Run(b3, 2))
      /\ Put(b4, v8) = Fill(c, Run(b4, 2))
  BY <1>7, PutFills
<1>9. AvxMagicCStore(c, i, s) = (Put(a1, v1) ## Put(a2, v2) ## Put(a3, v3) ## Put(a4, v4)) ## (Put(b1, v5) ## Put(b2, v6) ## Put(b3, v7) ## Put(b4, v8))
  BY <1>1 DEF AvxMagicCStore, a1, a2, a3, a4, b1, b2, b3, b4, v1, v2, v3, v4, v5, v6, v7, v8, L, M, p, q, r, t
<1>10. AvxMagicCStore(c, i, s) = Fill(c, Join(Join(Join(Join(Run(a1, 2), Run(a2, 2)), Run(a3, 2)), Run(a4, 2)), Join(Join(Join(Run(b1, 2), Run(b2, 2)), Run(b3, 2)), Run(b4, 2))))
  BY <1>8, <1>9, FillOver
<1>11. Join(Join(Join(Join(Run(a1, 2), Run(a2, 2)), Run(a3, 2)), Run(a4, 2)), Join(Join(Join(Run(b1, 2), Run(b2, 2)), Run(b3, 2)), Run(b4, 2))) = Touched(c, i)
  <2>1. \A d \in Int : d \in Touched(c, i) <=> d \in Span(c, i) \/ d - M \in Span(c, i)
    <3>1. HasMirror(c)
      BY <1>1
    <3> HIDE DEF M
    <3> TAKE d \in Int
    <3> QED BY <3>1, TouchedIs DEF M
  <2>2. \A d : d \in Join(Join(Join(Join(Run(a1, 2), Run(a2, 2)), Run(a3, 2)), Run(a4, 2)), Join(Join(Join(Run(b1, 2), Run(b2, 2)), Run(b3, 2)), Run(b4, 2))) <=> d \in Int /\ (d \in (a1)..(a1 + 1) \/ d \in (a2)..(a2 + 1) \/ d \in (a3)..(a3 + 1) \/ d \in (a4)..(a4 + 1) \/ d \in (b1)..(b1 + 1) \/ d \in (b2)..(b2 + 1) \/ d \in (b3)..(b3 + 1) \/ d \in (b4)..(b4 + 1))
    BY <1>1, <1>7 DEF Join, Run, LanesAt
  <2> DEFINE J == Join(Join(Join(Join(Run(a1, 2), Run(a2, 2)), Run(a3, 2)), Run(a4, 2)), Join(Join(Join(Run(b1, 2), Run(b2, 2)), Run(b3, 2)), Run(b4, 2)))
  <2> HIDE DEF J
  <2>3. \A d \in Int : d \in J <=> d \in Touched(c, i)
    BY <1>1, <1>3, <2>1, <2>2 DEF J, a1, a2, a3, a4, b1, b2, b3, b4
  <2>4. \A d : d \in J <=> d \in Touched(c, i)
    BY <1>3, <2>2, <2>3 DEF J
  <2> QED BY <2>4 DEF J
<1> QED BY <1>10, <1>11 DEF Stored, s

(* AVX, SHTNS4MAGIC, one order. *)
LEMMA AvxMagicCStore2Right ==
  ASSUME NEW c \in Calls, ~Packed(c), c.magic, c.simd = "avx", NEW i, BlockOK(c, i)
  PROVE  Stored(c, i, AvxMagicCStore2(c, i, Sums(c, i)))
<1> DEFINE s == Sums(c, i)
           L == c.nlat
           y == 4 * i
           a1 == 16 * i
           a2 == 16 * i + 2
           a3 == 16 * i + 4
           a4 == 16 * i + 6
           a5 == 16 * i + 8
           a6 == 16 * i + 10
           a7 == 16 * i + 12
           a8 == 16 * i + 14
           v1 == Half(unpacklo(s.nr, s.ni), 0)
           v2 == Half(unpacklo(s.sr, s.si), 0)
           v3 == Half(unpackhi(s.nr, s.ni), 0)
           v4 == Half(unpackhi(s.sr, s.si), 0)
           v5 == Half(unpacklo(s.nr, s.ni), 1)
           v6 == Half(unpacklo(s.sr, s.si), 1)
           v7 == Half(unpackhi(s.nr, s.ni), 1)
           v8 == Half(unpackhi(s.sr, s.si), 1)
<1>1. /\ L \in Nat /\ i \in Nat /\ y \in Nat /\ y + 4 <= L /\ VSIZE2(c) = 4 /\ Base(c, i) = y /\ RowLen(c) = 2 * L
      /\ 2 * NLAT_2(c) = L
      /\ ~HasMirror(c)
      /\ a1 \in Nat /\ a1 + 2 <= 2 * L
      /\ a2 \in Nat /\ a2 + 2 <= 2 * L
      /\ a3 \in Nat /\ a3 + 2 <= 2 * L
      /\ a4 \in Nat /\ a4 + 2 <= 2 * L
      /\ a5 \in Nat /\ a5 + 2 <= 2 * L
      /\ a6 \in Nat /\ a6 + 2 <= 2 * L
      /\ a7 \in Nat /\ a7 + 2 <= 2 * L
      /\ a8 \in Nat /\ a8 + 2 <= 2 * L
  <2>1. VSIZE2(c) * i = 4 * i
    BY BlockFacts
  <2>2. L \in Nat /\ i \in Nat /\ y + 4 <= L /\ VSIZE2(c) = 4 /\ RowLen(c) = 2 * L /\ 2 * NLAT_2(c) = L /\ ~HasMirror(c)
    BY BlockFacts, LayoutFacts DEF HasMirror
  <2>3. 2 * y + 8 <= L
    BY <2>1, BlockFacts
  <2> HIDE DEF L
  <2> QED BY <2>1, <2>2, <2>3 DEF Base
<1>2. /\ Vector(s.nr, 4) /\ Vector(s.ni, 4) /\ Vector(s.sr, 4) /\ Vector(s.si, 4)
      /\ \A j \in 0..3 : /\ s.nr[j] = Near(c, 4 * (y + j))
                         /\ s.ni[j] = Near(c, 4 * (y + j) + 1)
                         /\ s.sr[j] = Near(c, 4 * (y + j) + 2)
                         /\ s.si[j] = Near(c, 4 * (y + j) + 3)
  BY <1>1, Plain
<1>3. Touched(c, i) \subseteq Int /\ \A d \in Int : d \in Span(c, i) <=> d \in (4 * y)..(4 * y + 4 * 4 - 1)
  BY <1>1, TouchedIs, SpanIs
<1>4. /\ Vector(v1, 2) /\ v1[0] = s.nr[0] /\ v1[1] = s.ni[0]
      /\ Vector(v2, 2) /\ v2[0] = s.sr[0] /\ v2[1] = s.si[0]
      /\ Vector(v3, 2) /\ v3[0] = s.nr[1] /\ v3[1] = s.ni[1]
      /\ Vector(v4, 2) /\ v4[0] = s.sr[1] /\ v4[1] = s.si[1]
      /\ Vector(v5, 2) /\ v5[0] = s.nr[2] /\ v5[1] = s.ni[2]
      /\ Vector(v6, 2) /\ v6[0] = s.sr[2] /\ v6[1] = s.si[2]
      /\ Vector(v7, 2) /\ v7[0] = s.nr[3] /\ v7[1] = s.ni[3]
      /\ Vector(v8, 2) /\ v8[0] = s.sr[3] /\ v8[1] = s.si[3]
  BY <1>2, UnpackFour
<1> HIDE DEF s, L, v1, v2, v3, v4, v5, v6, v7, v8
<1>5. /\ v1[0] = Near(c, a1) /\ v1[1] = Near(c, a1 + 1)
      /\ v2[0] = Near(c, a2) /\ v2[1] = Near(c, a2 + 1)
      /\ v3[0] = Near(c, a3) /\ v3[1] = Near(c, a3 + 1)
      /\ v4[0] = Near(c, a4) /\ v4[1] = Near(c, a4 + 1)
      /\ v5[0] = Near(c, a5) /\ v5[1] = Near(c, a5 + 1)
      /\ v6[0] = Near(c, a6) /\ v6[1] = Near(c, a6 + 1)
      /\ v7[0] = Near(c, a7) /\ v7[1] = Near(c, a7 + 1)
      /\ v8[0] = Near(c, a8) /\ v8[1] = Near(c, a8 + 1)
  BY <1>1, <1>2, <1>4
<1> HIDE DEF a1, a2, a3, a4, a5, a6, a7, a8
<1>6. /\ LanesAt(c, v1, a1, 2)
      /\ LanesAt(c, v2, a2, 2)
      /\ LanesAt(c, v3, a3, 2)
      /\ LanesAt(c, v4, a4, 2)
      /\ LanesAt(c, v5, a5, 2)
      /\ LanesAt(c, v6, a6, 2)
      /\ LanesAt(c, v7, a7, 2)
      /\ LanesAt(c, v8, a8, 2)
  BY <1>1, <1>4, <1>5, TwoLanes DEF L
<1>7. /\ LanesAt(c, v1, a1, 2) /\ a1 \in Int
      /\ LanesAt(c, v2, a2, 2) /\ a2 \in Int
      /\ LanesAt(c, v3, a3, 2) /\ a3 \in Int
      /\ LanesAt(c, v4, a4, 2) /\ a4 \in Int
      /\ LanesAt(c, v5, a5, 2) /\ a5 \in Int
      /\ LanesAt(c, v6, a6, 2) /\ a6 \in Int
      /\ LanesAt(c, v7, a7, 2) /\ a7 \in Int
      /\ LanesAt(c, v8, a8, 2) /\ a8 \in Int
  BY <1>6 DEF LanesAt
<1>8. /\ Put(a1, v1) = Fill(c, Run(a1, 2))
      /\ Put(a2, v2) = Fill(c, Run(a2, 2))
      /\ Put(a3, v3) = Fill(c, Run(a3, 2))
      /\ Put(a4, v4) = Fill(c, Run(a4, 2))
      /\ Put(a5, v5) = Fill(c, Run(a5, 2))
      /\ Put(a6, v6) = Fill(c, Run(a6, 2))
      /\ Put(a7, v7) = Fill(c, Run(a7, 2))
      /\ Put(a8, v8) = Fill(c, Run(a8, 2))
  BY <1>7, PutFills
<1>9. AvxMagicCStore2(c, i, s) = Put(a1, v1) ## Put(a2, v2) ## Put(a3, v3) ## Put(a4, v4) ## Put(a5, v5) ## Put(a6, v6) ## Put(a7, v7) ## Put(a8, v8)
  BY <1>1 DEF AvxMagicCStore2, a1, a2, a3, a4, a5, a6, a7, a8, v1, v2, v3, v4, v5, v6, v7, v8, L
<1>10. AvxMagicCStore2(c, i, s) = Fill(c, Join(Join(Join(Join(Join(Join(Join(Run(a1, 2), Run(a2, 2)), Run(a3, 2)), Run(a4, 2)), Run(a5, 2)), Run(a6, 2)), Run(a7, 2)), Run(a8, 2)))
  BY <1>8, <1>9, FillOver
<1>11. Join(Join(Join(Join(Join(Join(Join(Run(a1, 2), Run(a2, 2)), Run(a3, 2)), Run(a4, 2)), Run(a5, 2)), Run(a6, 2)), Run(a7, 2)), Run(a8, 2)) = Touched(c, i)
  <2>1. \A d \in Int : d \in Touched(c, i) <=> d \in Span(c, i)
    <3>1. ~HasMirror(c)
      BY <1>1
    <3> QED BY <3>1, TouchedIs
  <2>2. \A d : d \in Join(Join(Join(Join(Join(Join(Join(Run(a1, 2), Run(a2, 2)), Run(a3, 2)), Run(a4, 2)), Run(a5, 2)), Run(a6, 2)), Run(a7, 2)), Run(a8, 2)) <=> d \in Int /\ (d \in (a1)..(a1 + 1) \/ d \in (a2)..(a2 + 1) \/ d \in (a3)..(a3 + 1) \/ d \in (a4)..(a4 + 1) \/ d \in (a5)..(a5 + 1) \/ d \in (a6)..(a6 + 1) \/ d \in (a7)..(a7 + 1) \/ d \in (a8)..(a8 + 1))
    BY <1>1, <1>7 DEF Join, Run, LanesAt
  <2> DEFINE J == Join(Join(Join(Join(Join(Join(Join(Run(a1, 2), Run(a2, 2)), Run(a3, 2)), Run(a4, 2)), Run(a5, 2)), Run(a6, 2)), Run(a7, 2)), Run(a8, 2))
  <2> HIDE DEF J
  <2>3. \A d \in Int : d \in J <=> d \in Touched(c, i)
    BY <1>1, <1>3, <2>1, <2>2 DEF J, a1, a2, a3, a4, a5, a6, a7, a8
  <2>4. \A d : d \in J <=> d \in Touched(c, i)
    BY <1>3, <2>2, <2>3 DEF J
  <2> QED BY <2>4 DEF J
<1> QED BY <1>10, <1>11 DEF Stored, s

-----------------------------------------------------------------------------
(* The macros which go from the poles to the equator in both hemispheres.  *)

(* A block of the south, in pairs which have been exchanged, for the row and for its mirror row;
   and in the order of the lanes. *)
CrossNear(c, x, y, n) == Vector(x, n) /\ \A j \in 0..(n - 1) : x[j] = Near(c, c.nlat - 1 - y - Partner(j))
CrossFar(c, x, y, n) == Vector(x, n) /\ \A j \in 0..(n - 1) : x[j] = Far(c, c.nlat - 1 - y - Partner(j))
BackNear(c, x, y, n) == Vector(x, n) /\ \A j \in 0..(n - 1) : x[j] = Near(c, c.nlat - 1 - y - j)

(* The vectors of these macros: those of the north have their place, those of the south are turned. *)
LEMMA CrossedLanes ==
  ASSUME NEW c \in Calls, Packed(c), ~c.magic, NEW i, BlockOK(c, i)
  PROVE  LET s == Sums(c, i)
             V == VSIZE2(c)
             y == Base(c, i)
         IN  /\ LanesAt(c, Mix(NorthMinus(s), NorthPlus(s)), y, V)
             /\ LanesAt(c, Mix(NorthPlus(s), NorthMinus(s)), Mirrored(c) + y, V)
             /\ CrossNear(c, Mix(SouthMinus(s), SouthPlus(s)), y, V)
             /\ CrossFar(c, Mix(SouthPlus(s), SouthMinus(s)), y, V)
             /\ c.im = 0 => LanesAt(c, s.nr, y, V) /\ CrossNear(c, vxchg(s.sr), y, V) /\ BackNear(c, s.sr, y, V)
<1> DEFINE s == Sums(c, i)
           V == VSIZE2(c)
           y == V * i
           L == c.nlat
           k1 == Mix(NorthMinus(s), NorthPlus(s))
           k2 == Mix(NorthPlus(s), NorthMinus(s))
           k3 == Mix(SouthMinus(s), SouthPlus(s))
           k4 == Mix(SouthPlus(s), SouthMinus(s))
           r == s.nr
           x == vxchg(s.sr)
           z == s.sr
<1>1. /\ Vector(k1, V) /\ Vector(k2, V) /\ Vector(k3, V) /\ Vector(k4, V) /\ Vector(r, V) /\ Vector(x, V) /\ Vector(z, V)
      /\ \A j \in 0..(V - 1) :
           /\ k1[j] = Near(c, y + j) /\ k2[j] = Far(c, y + j)
           /\ k3[j] = Near(c, L - 1 - y - Partner(j)) /\ k4[j] = Far(c, L - 1 - y - Partner(j))
           /\ c.im = 0 => r[j] = Near(c, y + j) /\ x[j] = Near(c, L - 1 - y - Partner(j)) /\ z[j] = Near(c, L - 1 - y - j)
  BY Crossed
<1>2. V \in Nat /\ y \in Nat /\ y + V <= RowLen(c)
  <2>1. V \in {2, 4, 8} /\ L \in Nat /\ i \in Nat /\ V * (i + 1) <= L /\ RowLen(c) = L
    BY LayoutFacts, CallFacts DEF BlockOK
  <2> HIDE DEF V, L
  <2> QED BY <2>1
<1> HIDE DEF k1, k2, k3, k4, r, x, z, L
<1> DEFINE b == y
<1>3. /\ b \in Nat /\ b + V <= RowLen(c)
      /\ \A j \in 0..(V - 1) : k1[j] = Near(c, b + j) /\ k2[j] = Far(c, b + j) /\ (c.im = 0 => r[j] = Near(c, b + j))
      /\ \A j \in 0..(V - 1) : k3[j] = Near(c, L - 1 - b - Partner(j)) /\ k4[j] = Far(c, L - 1 - b - Partner(j))
      /\ c.im = 0 => \A j \in 0..(V - 1) : x[j] = Near(c, L - 1 - b - Partner(j)) /\ z[j] = Near(c, L - 1 - b - j)
  BY <1>1, <1>2
<1> HIDE DEF b, V
<1>4. LanesAt(c, k1, b, V)
  BY <1>1, <1>2, <1>3, NearLanes
<1>5. LanesAt(c, k2, Mirrored(c) + b, V)
  BY <1>1, <1>2, <1>3, FarLanes
<1>6. c.im = 0 => LanesAt(c, r, b, V)
  BY <1>1, <1>2, <1>3, NearLanes
<1>7. CrossNear(c, k3, b, V) /\ CrossFar(c, k4, b, V)
  BY <1>1, <1>3 DEF CrossNear, CrossFar, L
<1>8. c.im = 0 => CrossNear(c, x, b, V) /\ BackNear(c, z, b, V)
  BY <1>1, <1>3 DEF CrossNear, BackNear, L
<1>9. b = Base(c, i)
  BY DEF b, V, Base
<1> QED BY <1>4, <1>5, <1>6, <1>7, <1>8, <1>9 DEF k1, k2, k3, k4, r, x, z, V

(* Two lanes of the south. *)
LEMMA SouthTwo ==
  ASSUME NEW c \in Calls, Packed(c), NEW x, NEW y \in Nat, y + 2 <= c.nlat
  PROVE  /\ CrossNear(c, x, y, 2) => LanesAt(c, x, c.nlat - 2 - y, 2)
         /\ CrossFar(c, x, y, 2) => LanesAt(c, x, Mirrored(c) + (c.nlat - 2 - y), 2)
<1> DEFINE z == c.nlat - 2 - y
<1>1. c.nlat \in Nat /\ RowLen(c) = c.nlat
  BY CallFacts, LayoutFacts
<1>2. /\ z \in Nat /\ z + 2 <= RowLen(c) /\ 0 \in 0..(2 - 1) /\ 1 \in 0..(2 - 1)
      /\ c.nlat - 1 - y - Partner(0) = z /\ c.nlat - 1 - y - Partner(1) = z + 1
  BY <1>1 DEF Partner
<1> HIDE DEF z
<1>3. ASSUME CrossNear(c, x, y, 2) PROVE LanesAt(c, x, z, 2)
  <2>1. Vector(x, 2) /\ x[0] = Near(c, z) /\ x[1] = Near(c, z + 1)
    BY <1>2, <1>3 DEF CrossNear
  <2> QED BY <1>2, <2>1, TwoLanes
<1>4. ASSUME CrossFar(c, x, y, 2) PROVE LanesAt(c, x, Mirrored(c) + z, 2)
  <2>1. Vector(x, 2) /\ x[0] = Far(c, z) /\ x[1] = Far(c, z + 1)
    BY <1>2, <1>4 DEF CrossFar
  <2> QED BY <1>2, <2>1, TwoLanes
<1> QED BY <1>3, <1>4 DEF z

(* Two by two. *)
LEMMA SouthFour ==
  ASSUME NEW c \in Calls, Packed(c), NEW x, NEW y \in Nat, y + 4 <= c.nlat
  PROVE  /\ CrossNear(c, x, y, 4) => /\ LanesAt(c, Half(x, 0), c.nlat - 2 - y, 2)
                                     /\ LanesAt(c, Half(x, 1), c.nlat - 4 - y, 2)
         /\ CrossFar(c, x, y, 4) => /\ LanesAt(c, Half(x, 0), Mirrored(c) + (c.nlat - 2 - y), 2)
                                    /\ LanesAt(c, Half(x, 1), Mirrored(c) + (c.nlat - 4 - y), 2)
<1> DEFINE z == c.nlat - 2 - y
           w == c.nlat - 4 - y
           u == Half(x, 0)
           v == Half(x, 1)
           n == 2
<1>1. c.nlat \in Nat /\ RowLen(c) = c.nlat
  BY CallFacts, LayoutFacts
<1>2. /\ z \in Nat /\ z + 2 <= RowLen(c) /\ w \in Nat /\ w + 2 <= RowLen(c)
      /\ c.nlat - 1 - y - Partner(0) = z /\ c.nlat - 1 - y - Partner(1) = z + 1
      /\ c.nlat - 1 - y - Partner(2) = w /\ c.nlat - 1 - y - Partner(3) = w + 1
  BY <1>1 DEF Partner
<1> HIDE DEF z, w
<1>3. Vector(x, 4) => /\ Vector(u, 2) /\ u[0] = x[0] /\ u[1] = x[1]
                      /\ Vector(v, 2) /\ v[0] = x[2] /\ v[1] = x[3]
  <2> SUFFICES ASSUME Vector(x, 4)
               PROVE  /\ Vector(u, 2) /\ u[0] = x[0] /\ u[1] = x[1]
                      /\ Vector(v, 2) /\ v[0] = x[2] /\ v[1] = x[3]
    OBVIOUS
  <2>1. n \in {2, 4} /\ Vector(x, 2 * n)
    OBVIOUS
  <2> HIDE DEF n
  <2>2. Vector(u, n) /\ Vector(v, n) /\ \A j \in 0..(n - 1) : u[j] = x[j] /\ v[j] = x[n + j]
    BY <2>1, Halved
  <2>3. n = 2
    BY DEF n
  <2> QED BY <2>2, <2>3
<1> HIDE DEF u, v
<1>4. ASSUME CrossNear(c, x, y, 4) PROVE LanesAt(c, u, z, 2) /\ LanesAt(c, v, w, 2)
  <2>1. Vector(x, 4) /\ x[0] = Near(c, z) /\ x[1] = Near(c, z + 1) /\ x[2] = Near(c, w) /\ x[3] = Near(c, w + 1)
    BY <1>2, <1>4 DEF CrossNear
  <2> QED BY <1>2, <1>3, <2>1, TwoLanes
<1>5. ASSUME CrossFar(c, x, y, 4) PROVE LanesAt(c, u, Mirrored(c) + z, 2) /\ LanesAt(c, v, Mirrored(c) + w, 2)
  <2>1. Vector(x, 4) /\ x[0] = Far(c, z) /\ x[1] = Far(c, z + 1) /\ x[2] = Far(c, w) /\ x[3] = Far(c, w + 1)
    BY <1>2, <1>5 DEF CrossFar
  <2> QED BY <1>2, <1>3, <2>1, TwoLanes
<1> QED BY <1>4, <1>5 DEF z, w, u, v

(* Four by four, in each of two groups of four lanes the pairs exchanged once more. *)
LEMMA SouthEight ==
  ASSUME NEW c \in Calls, Packed(c), NEW x, NEW y \in Nat, y + 8 <= c.nlat
  PROVE  LET u == permutex(x, <<2, 3, 0, 1>>)
         IN  /\ CrossNear(c, x, y, 8) => /\ LanesAt(c, Half(u, 0), c.nlat - 4 - y, 4)
                                         /\ LanesAt(c, Half(u, 1), c.nlat - 8 - y, 4)
             /\ CrossFar(c, x, y, 8) => /\ LanesAt(c, Half(u, 0), Mirrored(c) + (c.nlat - 4 - y), 4)
                                        /\ LanesAt(c, Half(u, 1), Mirrored(c) + (c.nlat - 8 - y), 4)
<1> DEFINE z == c.nlat - 4 - y
           w == c.nlat - 8 - y
           p == <<2, 3, 0, 1>>
           u == permutex(x, p)
           a == Half(u, 0)
           b == Half(u, 1)
           n == 4
<1>1. c.nlat \in Nat /\ RowLen(c) = c.nlat
  BY CallFacts, LayoutFacts
<1>2. /\ z \in Nat /\ z + 4 <= RowLen(c) /\ w \in Nat /\ w + 4 <= RowLen(c)
      /\ c.nlat - 1 - y - Partner(2) = z + 0 /\ c.nlat - 1 - y - Partner(3) = z + 1
      /\ c.nlat - 1 - y - Partner(0) = z + 2 /\ c.nlat - 1 - y - Partner(1) = z + 3
      /\ c.nlat - 1 - y - Partner(6) = w + 0 /\ c.nlat - 1 - y - Partner(7) = w + 1
      /\ c.nlat - 1 - y - Partner(4) = w + 2 /\ c.nlat - 1 - y - Partner(5) = w + 3
  BY <1>1 DEF Partner
<1> HIDE DEF z, w
<1>3. ASSUME Vector(x, 8)
      PROVE  /\ Vector(a, 4) /\ a[0] = x[2] /\ a[1] = x[3] /\ a[2] = x[0] /\ a[3] = x[1]
             /\ Vector(b, 4) /\ b[0] = x[6] /\ b[1] = x[7] /\ b[2] = x[4] /\ b[3] = x[5]
  <2>1. DOMAIN x = 0..7 /\ p[1] = 2 /\ p[2] = 3 /\ p[3] = 0 /\ p[4] = 1
    BY <1>3 DEF Vector
  <2> HIDE DEF p
  <2>2. u = [j \in 0..7 |-> x[(4 * (j \div 4)) + p[(j % 4) + 1]]]
    BY <2>1 DEF permutex
  <2>3. /\ u[0] = x[2] /\ u[1] = x[3] /\ u[2] = x[0] /\ u[3] = x[1]
        /\ u[4] = x[6] /\ u[5] = x[7] /\ u[6] = x[4] /\ u[7] = x[5]
    BY <2>1, <2>2
  <2>4. n \in {2, 4} /\ Vector(u, 2 * n) /\ n = 4
    BY <2>2 DEF Vector
  <2> HIDE DEF u, n
  <2>5. Vector(a, n) /\ Vector(b, n) /\ \A j \in 0..(n - 1) : a[j] = u[j] /\ b[j] = u[n + j]
    BY <2>4, Halved
  <2>6. /\ 0 \in 0..(n - 1) /\ 1 \in 0..(n - 1) /\ 2 \in 0..(n - 1) /\ 3 \in 0..(n - 1)
        /\ n + 0 = 4 /\ n + 1 = 5 /\ n + 2 = 6 /\ n + 3 = 7
    BY <2>4
  <2>7. /\ a[0] = u[0] /\ a[1] = u[1] /\ a[2] = u[2] /\ a[3] = u[3]
        /\ b[0] = u[4] /\ b[1] = u[5] /\ b[2] = u[6] /\ b[3] = u[7]
    BY <2>5, <2>6
  <2> QED BY <2>3, <2>4, <2>5, <2>7
<1> HIDE DEF a, b, u, p
<1>4. n \in Nat /\ n = 4 /\ \A j \in 0..(n - 1) : j = 0 \/ j = 1 \/ j = 2 \/ j = 3
  OBVIOUS
<1> HIDE DEF n
<1>5. ASSUME CrossNear(c, x, y, 8) PROVE LanesAt(c, a, z, 4) /\ LanesAt(c, b, w, 4)
  <2>1. /\ Vector(x, 8)
        /\ x[2] = Near(c, z + 0) /\ x[3] = Near(c, z + 1) /\ x[0] = Near(c, z + 2) /\ x[1] = Near(c, z + 3)
        /\ x[6] = Near(c, w + 0) /\ x[7] = Near(c, w + 1) /\ x[4] = Near(c, w + 2) /\ x[5] = Near(c, w + 3)
    <3>1. Vector(x, 8) /\ \A j \in 0..7 : x[j] = Near(c, c.nlat - 1 - y - Partner(j))
      BY <1>5 DEF CrossNear
    <3> QED BY <1>2, <3>1
  <2>2. Vector(a, n) /\ \A j \in 0..(n - 1) : a[j] = Near(c, z + j)
    BY <1>3, <1>4, <2>1
  <2>3. Vector(b, n) /\ \A j \in 0..(n - 1) : b[j] = Near(c, w + j)
    BY <1>3, <1>4, <2>1
  <2>4. z + n <= RowLen(c) /\ w + n <= RowLen(c)
    BY <1>2, <1>4
  <2>5. LanesAt(c, a, z, n) /\ LanesAt(c, b, w, n)
    BY <1>2, <1>4, <2>2, <2>3, <2>4, NearLanes
  <2> QED BY <1>4, <2>5
<1>6. ASSUME CrossFar(c, x, y, 8) PROVE LanesAt(c, a, Mirrored(c) + z, 4) /\ LanesAt(c, b, Mirrored(c) + w, 4)
  <2>1. /\ Vector(x, 8)
        /\ x[2] = Far(c, z + 0) /\ x[3] = Far(c, z + 1) /\ x[0] = Far(c, z + 2) /\ x[1] = Far(c, z + 3)
        /\ x[6] = Far(c, w + 0) /\ x[7] = Far(c, w + 1) /\ x[4] = Far(c, w + 2) /\ x[5] = Far(c, w + 3)
    <3>1. Vector(x, 8) /\ \A j \in 0..7 : x[j] = Far(c, c.nlat - 1 - y - Partner(j))
      BY <1>6 DEF CrossFar
    <3> QED BY <1>2, <3>1
  <2>2. Vector(a, n) /\ \A j \in 0..(n - 1) : a[j] = Far(c, z + j)
    BY <1>3, <1>4, <2>1
  <2>3. Vector(b, n) /\ \A j \in 0..(n - 1) : b[j] = Far(c, w + j)
    BY <1>3, <1>4, <2>1
  <2>5. LanesAt(c, a, Mirrored(c) + z, n) /\ LanesAt(c, b, Mirrored(c) + w, n)
    BY <1>2, <1>4, <2>2, <2>3, FarLanes
  <2> QED BY <1>4, <2>5
<1> QED BY <1>5, <1>6 DEF z, w, a, b, u, p

(* Eight lanes of the south, each of two groups of four in reverse order. *)
LEMMA SouthBack ==
  ASSUME NEW c \in Calls, Packed(c), NEW x, NEW y \in Nat, y + 8 <= c.nlat, BackNear(c, x, y, 8)
  PROVE  LET u == permutex(x, <<3, 2, 1, 0>>)
         IN  /\ LanesAt(c, Half(u, 0), c.nlat - 4 - y, 4)
             /\ LanesAt(c, Half(u, 1), c.nlat - 8 - y, 4)
<1> DEFINE z == c.nlat - 4 - y
           w == c.nlat - 8 - y
           p == <<3, 2, 1, 0>>
           u == permutex(x, p)
           a == Half(u, 0)
           b == Half(u, 1)
           n == 4
<1>1. c.nlat \in Nat /\ RowLen(c) = c.nlat
  BY CallFacts, LayoutFacts
<1>2. /\ z \in Nat /\ z + 4 <= RowLen(c) /\ w \in Nat /\ w + 4 <= RowLen(c)
      /\ c.nlat - 1 - y - 3 = z + 0 /\ c.nlat - 1 - y - 2 = z + 1
      /\ c.nlat - 1 - y - 1 = z + 2 /\ c.nlat - 1 - y - 0 = z + 3
      /\ c.nlat - 1 - y - 7 = w + 0 /\ c.nlat - 1 - y - 6 = w + 1
      /\ c.nlat - 1 - y - 5 = w + 2 /\ c.nlat - 1 - y - 4 = w + 3
  BY <1>1
<1> HIDE DEF z, w
<1>3. /\ Vector(a, 4) /\ a[0] = x[3] /\ a[1] = x[2] /\ a[2] = x[1] /\ a[3] = x[0]
      /\ Vector(b, 4) /\ b[0] = x[7] /\ b[1] = x[6] /\ b[2] = x[5] /\ b[3] = x[4]
  <2>1. DOMAIN x = 0..7 /\ p[1] = 3 /\ p[2] = 2 /\ p[3] = 1 /\ p[4] = 0
    BY DEF BackNear, Vector
  <2> HIDE DEF p
  <2>2. u = [j \in 0..7 |-> x[(4 * (j \div 4)) + p[(j % 4) + 1]]]
    BY <2>1 DEF permutex
  <2>3. /\ u[0] = x[3] /\ u[1] = x[2] /\ u[2] = x[1] /\ u[3] = x[0]
        /\ u[4] = x[7] /\ u[5] = x[6] /\ u[6] = x[5] /\ u[7] = x[4]
    BY <2>1, <2>2
  <2>4. n \in {2, 4} /\ Vector(u, 2 * n) /\ n = 4
    BY <2>2 DEF Vector
  <2> HIDE DEF u, n
  <2>5. Vector(a, n) /\ Vector(b, n) /\ \A j \in 0..(n - 1) : a[j] = u[j] /\ b[j] = u[n + j]
    BY <2>4, Halved
  <2>6. /\ 0 \in 0..(n - 1) /\ 1 \in 0..(n - 1) /\ 2 \in 0..(n - 1) /\ 3 \in 0..(n - 1)
        /\ n + 0 = 4 /\ n + 1 = 5 /\ n + 2 = 6 /\ n + 3 = 7
    BY <2>4
  <2>7. /\ a[0] = u[0] /\ a[1] = u[1] /\ a[2] = u[2] /\ a[3] = u[3]
        /\ b[0] = u[4] /\ b[1] = u[5] /\ b[2] = u[6] /\ b[3] = u[7]
    BY <2>5, <2>6
  <2> QED BY <2>3, <2>4, <2>5, <2>7
<1> HIDE DEF a, b, u, p
<1>4. n \in Nat /\ n = 4 /\ \A j \in 0..(n - 1) : j = 0 \/ j = 1 \/ j = 2 \/ j = 3
  OBVIOUS
<1> HIDE DEF n
<1>5. /\ x[3] = Near(c, z + 0) /\ x[2] = Near(c, z + 1) /\ x[1] = Near(c, z + 2) /\ x[0] = Near(c, z + 3)
      /\ x[7] = Near(c, w + 0) /\ x[6] = Near(c, w + 1) /\ x[5] = Near(c, w + 2) /\ x[4] = Near(c, w + 3)
  <2>1. \A j \in 0..7 : x[j] = Near(c, c.nlat - 1 - y - j)
    BY DEF BackNear
  <2> QED BY <1>2, <2>1
<1>6. Vector(a, n) /\ \A j \in 0..(n - 1) : a[j] = Near(c, z + j)
  BY <1>3, <1>4, <1>5
<1>7. Vector(b, n) /\ \A j \in 0..(n - 1) : b[j] = Near(c, w + j)
  BY <1>3, <1>4, <1>5
<1>8. z + n <= RowLen(c) /\ w + n <= RowLen(c)
  BY <1>2, <1>4
<1>9. LanesAt(c, a, z, n) /\ LanesAt(c, b, w, n)
  BY <1>2, <1>4, <1>6, <1>7, <1>8, NearLanes
<1> QED BY <1>4, <1>9 DEF z, w, a, b, u, p

(* Quarters of a row: those of the mirror row are counted from its end. *)
LEMMA Quarters ==
  ASSUME NEW c \in Calls, c.nlat % 4 = 0
  PROVE  LET Q == c.nlat \div 4
             F == (c.nphi + 1 - 2 * c.im) * Q
         IN  Q \in Nat /\ F \in Nat /\ c.nlat = 4 * Q /\ 4 * F = Mirrored(c) + c.nlat
<1> DEFINE L == c.nlat
           X == c.nphi - 2 * c.im
           Q == L \div 4
<1>1. L \in Nat /\ X \in Nat /\ X + 1 = c.nphi + 1 - 2 * c.im /\ L % 4 = 0 /\ Mirrored(c) = X * L
  BY CallFacts DEF CallExists, Mirrored
<1> HIDE DEF L, X
<1>2. Q \in Nat /\ L = 4 * Q
  BY <1>1
<1> HIDE DEF Q
<1>3. (X + 1) * Q \in Nat /\ 4 * ((X + 1) * Q) = X * (4 * Q) + 4 * Q
  BY <1>1, <1>2
<1> QED BY <1>1, <1>2, <1>3 DEF L, Q

(* SSE2, row 0. *)
LEMMA Sse2StoreRight ==
  ASSUME NEW c \in Calls, Packed(c), ~c.magic, c.simd = "sse2", c.im = 0, NEW i, BlockOK(c, i)
  PROVE  Stored(c, i, Sse2Store(c, i, Sums(c, i)))
<1> DEFINE s == Sums(c, i)
           L == c.nlat
           y == 2 * i
           z == L - 2 - y
           v1 == vxchg(s.sr)
           v2 == s.nr
<1>1. /\ L \in Nat /\ i \in Nat /\ y \in Nat /\ y + 2 <= L /\ VSIZE2(c) = 2 /\ Base(c, i) = y /\ RowLen(c) = L
      /\ 2 * NLAT_2(c) = L /\ NLAT_2(c) \in Nat /\ z \in Nat
      /\ ~HasMirror(c)
  <2>1. VSIZE2(c) * i = 2 * i
    BY BlockFacts
  <2>2. L \in Nat /\ i \in Nat /\ y + 2 <= L /\ VSIZE2(c) = 2 /\ RowLen(c) = L /\ 2 * NLAT_2(c) = L /\ NLAT_2(c) \in Nat
        /\ ~HasMirror(c)
    BY BlockFacts, LayoutFacts DEF HasMirror
  <2> HIDE DEF L
  <2> QED BY <2>1, <2>2 DEF Base
<1>3. Touched(c, i) \subseteq Int /\ \A d \in Int : d \in Span(c, i) <=> d \in y..(y + 2 - 1) \/ d \in (L - y - 2)..(L - y - 1)
  BY <1>1, TouchedIs, SpanIs
<1>4. /\ LanesAt(c, s.nr, y, 2)
      /\ CrossNear(c, vxchg(s.sr), y, 2)
  BY <1>1, CrossedLanes
<1> HIDE DEF s, L
<1>5. /\ LanesAt(c, v1, z, 2)
      /\ LanesAt(c, v2, y, 2)
  BY <1>1, <1>4, SouthTwo DEF L
<1> HIDE DEF v1, v2
<1>6. 2 * (NLAT_2(c) - 1 - i) = z /\ 2 * i = y
  BY <1>1
<1> HIDE DEF z
<1>7. /\ LanesAt(c, v1, z, 2) /\ z \in Int
      /\ LanesAt(c, v2, y, 2) /\ y \in Int
  BY <1>5 DEF LanesAt
<1>8. /\ Put(z, v1) = Fill(c, Run(z, 2))
      /\ Put(y, v2) = Fill(c, Run(y, 2))
  BY <1>7, PutFills
<1>9. Sse2Store(c, i, s) = Put(z, v1) ## Put(y, v2)
  BY <1>6 DEF Sse2Store, L, v1, v2
<1>10. Sse2Store(c, i, s) = Fill(c, Join(Run(z, 2), Run(y, 2)))
  BY <1>8, <1>9, FillOver
<1>11. Join(Run(z, 2), Run(y, 2)) = Touched(c, i)
  <2>1. \A d \in Int : d \in Touched(c, i) <=> d \in Span(c, i)
    <3>1. ~HasMirror(c)
      BY <1>1
    <3> QED BY <3>1, TouchedIs
  <2>2. \A d : d \in Join(Run(z, 2), Run(y, 2)) <=> d \in Int /\ (d \in (z)..(z + 1) \/ d \in (y)..(y + 1))
    BY <1>1, <1>7 DEF Join, Run, LanesAt
  <2> DEFINE J == Join(Run(z, 2), Run(y, 2))
  <2> HIDE DEF J
  <2>3. \A d \in Int : d \in J <=> d \in Touched(c, i)
    BY <1>1, <1>3, <2>1, <2>2 DEF J, z
  <2>4. \A d : d \in J <=> d \in Touched(c, i)
    BY <1>3, <2>2, <2>3 DEF J
  <2> QED BY <2>4 DEF J
<1> QED BY <1>10, <1>11 DEF Stored, s

(* SSE2, other rows. *)
LEMMA Sse2CStoreRight ==
  ASSUME NEW c \in Calls, Packed(c), ~c.magic, c.simd = "sse2", c.im > 0, NEW i, BlockOK(c, i)
  PROVE  Stored(c, i, Sse2CStore(c, i, Sums(c, i)))
<1> DEFINE s == Sums(c, i)
           L == c.nlat
           M == Mirrored(c)
           y == 2 * i
           z == L - 2 - y
           by == M + y
           bz == M + z
           v1 == Mix(SouthPlus(s), SouthMinus(s))
           v2 == Mix(SouthMinus(s), SouthPlus(s))
           v3 == Mix(NorthPlus(s), NorthMinus(s))
           v4 == Mix(NorthMinus(s), NorthPlus(s))
<1>1. /\ L \in Nat /\ i \in Nat /\ y \in Nat /\ y + 2 <= L /\ VSIZE2(c) = 2 /\ Base(c, i) = y /\ RowLen(c) = L
      /\ 2 * NLAT_2(c) = L /\ NLAT_2(c) \in Nat /\ z \in Nat
      /\ M \in Nat /\ HasMirror(c)
  <2>1. VSIZE2(c) * i = 2 * i
    BY BlockFacts
  <2>2. L \in Nat /\ i \in Nat /\ y + 2 <= L /\ VSIZE2(c) = 2 /\ RowLen(c) = L /\ 2 * NLAT_2(c) = L /\ NLAT_2(c) \in Nat
        /\ M \in Nat /\ HasMirror(c)
    BY BlockFacts, LayoutFacts DEF HasMirror
  <2> HIDE DEF L, M
  <2> QED BY <2>1, <2>2 DEF Base
<1>3. Touched(c, i) \subseteq Int /\ \A d \in Int : d \in Span(c, i) <=> d \in y..(y + 2 - 1) \/ d \in (L - y - 2)..(L - y - 1)
  BY <1>1, TouchedIs, SpanIs
<1>4. /\ LanesAt(c, Mix(NorthMinus(s), NorthPlus(s)), y, 2)
      /\ LanesAt(c, Mix(NorthPlus(s), NorthMinus(s)), M + y, 2)
      /\ CrossNear(c, Mix(SouthMinus(s), SouthPlus(s)), y, 2)
      /\ CrossFar(c, Mix(SouthPlus(s), SouthMinus(s)), y, 2)
  BY <1>1, CrossedLanes
<1> HIDE DEF s, L, M
<1>5. /\ LanesAt(c, v1, bz, 2)
      /\ LanesAt(c, v2, z, 2)
      /\ LanesAt(c, v3, by, 2)
      /\ LanesAt(c, v4, y, 2)
  BY <1>1, <1>4, SouthTwo DEF L, M
<1> HIDE DEF v1, v2, v3, v4
<1>6. 2 * (NLAT_2(c) - 1 - i) = z /\ 2 * i = y
  BY <1>1
<1> HIDE DEF z, by, bz
<1>7. /\ LanesAt(c, v1, bz, 2) /\ bz \in Int
      /\ LanesAt(c, v2, z, 2) /\ z \in Int
      /\ LanesAt(c, v3, by, 2) /\ by \in Int
      /\ LanesAt(c, v4, y, 2) /\ y \in Int
  BY <1>5 DEF LanesAt
<1>8. /\ Put(bz, v1) = Fill(c, Run(bz, 2))
      /\ Put(z, v2) = Fill(c, Run(z, 2))
      /\ Put(by, v3) = Fill(c, Run(by, 2))
      /\ Put(y, v4) = Fill(c, Run(y, 2))
  BY <1>7, PutFills
<1>9. Sse2CStore(c, i, s) = Put(bz, v1) ## Put(z, v2) ## Put(by, v3) ## Put(y, v4)
  BY <1>6 DEF Sse2CStore, bz, v1, v2, v3, v4, by, M, NorthPlus, NorthMinus, SouthPlus, SouthMinus
<1>10. Sse2CStore(c, i, s) = Fill(c, Join(Join(Join(Run(bz, 2), Run(z, 2)), Run(by, 2)), Run(y, 2)))
  BY <1>8, <1>9, FillOver
<1>11. Join(Join(Join(Run(bz, 2), Run(z, 2)), Run(by, 2)), Run(y, 2)) = Touched(c, i)
  <2>1. \A d \in Int : d \in Touched(c, i) <=> d \in Span(c, i) \/ d - M \in Span(c, i)
    <3>1. HasMirror(c)
      BY <1>1
    <3> HIDE DEF M
    <3> TAKE d \in Int
    <3> QED BY <3>1, TouchedIs DEF M
  <2>2. \A d : d \in Join(Join(Join(Run(bz, 2), Run(z, 2)), Run(by, 2)), Run(y, 2)) <=> d \in Int /\ (d \in (bz)..(bz + 1) \/ d \in (z)..(z + 1) \/ d \in (by)..(by + 1) \/ d \in (y)..(y + 1))
    BY <1>1, <1>7 DEF Join, Run, LanesAt
  <2> DEFINE J == Join(Join(Join(Run(bz, 2), Run(z, 2)), Run(by, 2)), Run(y, 2))
  <2> HIDE DEF J
  <2>3. \A d \in Int : d \in J <=> d \in Touched(c, i)
    BY <1>1, <1>3, <2>1, <2>2 DEF J, z, by, bz
  <2>4. \A d : d \in J <=> d \in Touched(c, i)
    BY <1>3, <2>2, <2>3 DEF J
  <2> QED BY <2>4 DEF J
<1> QED BY <1>10, <1>11 DEF Stored, s

(* AVX, row 0. *)
LEMMA AvxStoreRight ==
  ASSUME NEW c \in Calls, Packed(c), ~c.magic, c.simd = "avx", c.im = 0, NEW i, BlockOK(c, i)
  PROVE  Stored(c, i, AvxStore(c, i, Sums(c, i)))
<1> DEFINE s == Sums(c, i)
           L == c.nlat
           y == 4 * i
           z == L - 2 - y
           w == L - 4 - y
           v1 == Half(vxchg(s.sr), 1)
           v2 == Half(vxchg(s.sr), 0)
           v3 == s.nr
<1>1. /\ L \in Nat /\ i \in Nat /\ y \in Nat /\ y + 4 <= L /\ VSIZE2(c) = 4 /\ Base(c, i) = y /\ RowLen(c) = L
      /\ 2 * NLAT_2(c) = L /\ NLAT_2(c) \in Nat /\ z \in Nat /\ w \in Nat
      /\ ~HasMirror(c)
  <2>1. VSIZE2(c) * i = 4 * i
    BY BlockFacts
  <2>2. L \in Nat /\ i \in Nat /\ y + 4 <= L /\ VSIZE2(c) = 4 /\ RowLen(c) = L /\ 2 * NLAT_2(c) = L /\ NLAT_2(c) \in Nat
        /\ ~HasMirror(c)
    BY BlockFacts, LayoutFacts DEF HasMirror
  <2> HIDE DEF L
  <2> QED BY <2>1, <2>2 DEF Base
<1>3. Touched(c, i) \subseteq Int /\ \A d \in Int : d \in Span(c, i) <=> d \in y..(y + 4 - 1) \/ d \in (L - y - 4)..(L - y - 1)
  BY <1>1, TouchedIs, SpanIs
<1>4. /\ LanesAt(c, s.nr, y, 4)
      /\ CrossNear(c, vxchg(s.sr), y, 4)
  BY <1>1, CrossedLanes
<1> HIDE DEF s, L
<1>5. /\ LanesAt(c, v1, w, 2)
      /\ LanesAt(c, v2, z, 2)
      /\ LanesAt(c, v3, y, 4)
  BY <1>1, <1>4, SouthFour DEF L
<1> HIDE DEF v1, v2, v3
<1>6. 2 * (NLAT_2(c) - 2 - 2 * i) = w /\ 2 * (NLAT_2(c) - 1 - 2 * i) = z /\ 4 * i = y
  BY <1>1
<1> HIDE DEF z, w
<1>7. /\ LanesAt(c, v1, w, 2) /\ w \in Int
      /\ LanesAt(c, v2, z, 2) /\ z \in Int
      /\ LanesAt(c, v3, y, 4) /\ y \in Int
  BY <1>5 DEF LanesAt
<1>8. /\ Put(w, v1) = Fill(c, Run(w, 2))
      /\ Put(z, v2) = Fill(c, Run(z, 2))
      /\ Put(y, v3) = Fill(c, Run(y, 4))
  BY <1>7, PutFills
<1>9. AvxStore(c, i, s) = Put(w, v1) ## Put(z, v2) ## Put(y, v3)
  BY <1>6 DEF AvxStore, L, v1, v2, v3
<1>10. AvxStore(c, i, s) = Fill(c, Join(Join(Run(w, 2), Run(z, 2)), Run(y, 4)))
  BY <1>8, <1>9, FillOver
<1>11. Join(Join(Run(w, 2), Run(z, 2)), Run(y, 4)) = Touched(c, i)
  <2>1. \A d \in Int : d \in Touched(c, i) <=> d \in Span(c, i)
    <3>1. ~HasMirror(c)
      BY <1>1
    <3> QED BY <3>1, TouchedIs
  <2>2. \A d : d \in Join(Join(Run(w, 2), Run(z, 2)), Run(y, 4)) <=> d \in Int /\ (d \in (w)..(w + 1) \/ d \in (z)..(z + 1) \/ d \in (y)..(y + 3))
    BY <1>1, <1>7 DEF Join, Run, LanesAt
  <2> DEFINE J == Join(Join(Run(w, 2), Run(z, 2)), Run(y, 4))
  <2> HIDE DEF J
  <2>3. \A d \in Int : d \in J <=> d \in Touched(c, i)
    BY <1>1, <1>3, <2>1, <2>2 DEF J, z, w
  <2>4. \A d : d \in J <=> d \in Touched(c, i)
    BY <1>3, <2>2, <2>3 DEF J
  <2> QED BY <2>4 DEF J
<1> QED BY <1>10, <1>11 DEF Stored, s

(* AVX, other rows. *)
LEMMA AvxCStoreRight ==
  ASSUME NEW c \in Calls, Packed(c), ~c.magic, c.simd = "avx", c.im > 0, NEW i, BlockOK(c, i)
  PROVE  Stored(c, i, AvxCStore(c, i, Sums(c, i)))
<1> DEFINE s == Sums(c, i)
           L == c.nlat
           M == Mirrored(c)
           y == 4 * i
           z == L - 2 - y
           w == L - 4 - y
           by == M + y
           bz == M + z
           bw == M + w
           v1 == Half(Mix(SouthPlus(s), SouthMinus(s)), 1)
           v2 == Half(Mix(SouthPlus(s), SouthMinus(s)), 0)
           v3 == Half(Mix(SouthMinus(s), SouthPlus(s)), 1)
           v4 == Half(Mix(SouthMinus(s), SouthPlus(s)), 0)
           v5 == Mix(NorthPlus(s), NorthMinus(s))
           v6 == Mix(NorthMinus(s), NorthPlus(s))
<1>1. /\ L \in Nat /\ i \in Nat /\ y \in Nat /\ y + 4 <= L /\ VSIZE2(c) = 4 /\ Base(c, i) = y /\ RowLen(c) = L
      /\ 2 * NLAT_2(c) = L /\ NLAT_2(c) \in Nat /\ z \in Nat /\ w \in Nat
      /\ M \in Nat /\ HasMirror(c)
  <2>1. VSIZE2(c) * i = 4 * i
    BY BlockFacts
  <2>2. L \in Nat /\ i \in Nat /\ y + 4 <= L /\ VSIZE2(c) = 4 /\ RowLen(c) = L /\ 2 * NLAT_2(c) = L /\ NLAT_2(c) \in Nat
        /\ M \in Nat /\ HasMirror(c)
    BY BlockFacts, LayoutFacts DEF HasMirror
  <2> HIDE DEF L, M
  <2> QED BY <2>1, <2>2 DEF Base
<1>3. Touched(c, i) \subseteq Int /\ \A d \in Int : d \in Span(c, i) <=> d \in y..(y + 4 - 1) \/ d \in (L - y - 4)..(L - y - 1)
  BY <1>1, TouchedIs, SpanIs
<1>4. /\ LanesAt(c, Mix(NorthMinus(s), NorthPlus(s)), y, 4)
      /\ LanesAt(c, Mix(NorthPlus(s), NorthMinus(s)), M + y, 4)
      /\ CrossNear(c, Mix(SouthMinus(s), SouthPlus(s)), y, 4)
      /\ CrossFar(c, Mix(SouthPlus(s), SouthMinus(s)), y, 4)
  BY <1>1, CrossedLanes
<1> HIDE DEF s, L, M
<1>5. /\ LanesAt(c, v1, bw, 2)
      /\ LanesAt(c, v2, bz, 2)
      /\ LanesAt(c, v3, w, 2)
      /\ LanesAt(c, v4, z, 2)
      /\ LanesAt(c, v5, by, 4)
      /\ LanesAt(c, v6, y, 4)
  BY <1>1, <1>4, SouthFour DEF L, M
<1> HIDE DEF v1, v2, v3, v4, v5, v6
<1>6. 2 * (NLAT_2(c) - 1 - 1 - 2 * i) = w /\ 2 * (NLAT_2(c) - 1 - 0 - 2 * i) = z /\ 4 * i = y
  BY <1>1
<1> HIDE DEF z, w, by, bz, bw
<1>7. /\ LanesAt(c, v1, bw, 2) /\ bw \in Int
      /\ LanesAt(c, v2, bz, 2) /\ bz \in Int
      /\ LanesAt(c, v3, w, 2) /\ w \in Int
      /\ LanesAt(c, v4, z, 2) /\ z \in Int
      /\ LanesAt(c, v5, by, 4) /\ by \in Int
      /\ LanesAt(c, v6, y, 4) /\ y \in Int
  BY <1>5 DEF LanesAt
<1>8. /\ Put(bw, v1) = Fill(c, Run(bw, 2))
      /\ Put(bz, v2) = Fill(c, Run(bz, 2))
      /\ Put(w, v3) = Fill(c, Run(w, 2))
      /\ Put(z, v4) = Fill(c, Run(z, 2))
      /\ Put(by, v5) = Fill(c, Run(by, 4))
      /\ Put(y, v6) = Fill(c, Run(y, 4))
  BY <1>7, PutFills
<1>9. AvxCStore(c, i, s) = Put(bw, v1) ## Put(bz, v2) ## Put(w, v3) ## Put(z, v4) ## Put(by, v5) ## Put(y, v6)
  BY <1>6 DEF AvxCStore, bz, bw, v1, v2, v3, v4, v5, v6, by, M, NorthPlus, NorthMinus, SouthPlus, SouthMinus
<1>10. AvxCStore(c, i, s) = Fill(c, Join(Join(Join(Join(Join(Run(bw, 2), Run(bz, 2)), Run(w, 2)), Run(z, 2)), Run(by, 4)), Run(y, 4)))
  BY <1>8, <1>9, FillOver
<1>11. Join(Join(Join(Join(Join(Run(bw, 2), Run(bz, 2)), Run(w, 2)), Run(z, 2)), Run(by, 4)), Run(y, 4)) = Touched(c, i)
  <2>1. \A d \in Int : d \in Touched(c, i) <=> d \in Span(c, i) \/ d - M \in Span(c, i)
    <3>1. HasMirror(c)
      BY <1>1
    <3> HIDE DEF M
    <3> TAKE d \in Int
    <3> QED BY <3>1, TouchedIs DEF M
  <2>2. \A d : d \in Join(Join(Join(Join(Join(Run(bw, 2), Run(bz, 2)), Run(w, 2)), Run(z, 2)), Run(by, 4)), Run(y, 4)) <=> d \in Int /\ (d \in (bw)..(bw + 1) \/ d \in (bz)..(bz + 1) \/ d \in (w)..(w + 1) \/ d \in (z)..(z + 1) \/ d \in (by)..(by + 3) \/ d \in (y)..(y + 3))
    BY <1>1, <1>7 DEF Join, Run, LanesAt
  <2> DEFINE J == Join(Join(Join(Join(Join(Run(bw, 2), Run(bz, 2)), Run(w, 2)), Run(z, 2)), Run(by, 4)), Run(y, 4))
  <2> HIDE DEF J
  <2>3. \A d \in Int : d \in J <=> d \in Touched(c, i)
    BY <1>1, <1>3, <2>1, <2>2 DEF J, z, w, by, bz, bw
  <2>4. \A d : d \in J <=> d \in Touched(c, i)
    BY <1>3, <2>2, <2>3 DEF J
  <2> QED BY <2>4 DEF J
<1> QED BY <1>10, <1>11 DEF Stored, s

(* AVX-512, row 0. *)
LEMMA Avx512StoreRight ==
  ASSUME NEW c \in Calls, Packed(c), ~c.magic, c.simd = "avx512", c.im = 0, NEW i, BlockOK(c, i)
  PROVE  Stored(c, i, Avx512Store(c, i, Sums(c, i)))
<1> DEFINE s == Sums(c, i)
           L == c.nlat
           y == 8 * i
           z == L - 4 - y
           w == L - 8 - y
           v1 == Half(permutex(s.sr, <<3, 2, 1, 0>>), 1)
           v2 == Half(permutex(s.sr, <<3, 2, 1, 0>>), 0)
           v3 == s.nr
<1>1. /\ L \in Nat /\ i \in Nat /\ y \in Nat /\ y + 8 <= L /\ VSIZE2(c) = 8 /\ Base(c, i) = y /\ RowLen(c) = L
      /\ 2 * NLAT_2(c) = L /\ NLAT_2(c) \in Nat /\ z \in Nat /\ w \in Nat
      /\ ~HasMirror(c)
  <2>1. VSIZE2(c) * i = 8 * i
    BY BlockFacts
  <2>2. L \in Nat /\ i \in Nat /\ y + 8 <= L /\ VSIZE2(c) = 8 /\ RowLen(c) = L /\ 2 * NLAT_2(c) = L /\ NLAT_2(c) \in Nat
        /\ ~HasMirror(c)
    BY BlockFacts, LayoutFacts DEF HasMirror
  <2> HIDE DEF L
  <2> QED BY <2>1, <2>2 DEF Base
<1>3. Touched(c, i) \subseteq Int /\ \A d \in Int : d \in Span(c, i) <=> d \in y..(y + 8 - 1) \/ d \in (L - y - 8)..(L - y - 1)
  BY <1>1, TouchedIs, SpanIs
<1>4. /\ LanesAt(c, s.nr, y, 8)
      /\ BackNear(c, s.sr, y, 8)
  BY <1>1, CrossedLanes
<1> HIDE DEF s, L
<1>5. /\ LanesAt(c, v1, w, 4)
      /\ LanesAt(c, v2, z, 4)
      /\ LanesAt(c, v3, y, 8)
  BY <1>1, <1>4, SouthBack DEF L
<1> HIDE DEF v1, v2, v3
<1>6. L - 8 - 8 * i = w /\ L - 4 - 8 * i = z /\ 8 * i = y
  BY <1>1
<1> HIDE DEF z, w
<1>7. /\ LanesAt(c, v1, w, 4) /\ w \in Int
      /\ LanesAt(c, v2, z, 4) /\ z \in Int
      /\ LanesAt(c, v3, y, 8) /\ y \in Int
  BY <1>5 DEF LanesAt
<1>8. /\ Put(w, v1) = Fill(c, Run(w, 4))
      /\ Put(z, v2) = Fill(c, Run(z, 4))
      /\ Put(y, v3) = Fill(c, Run(y, 8))
  BY <1>7, PutFills
<1>9. Avx512Store(c, i, s) = Put(w, v1) ## Put(z, v2) ## Put(y, v3)
  BY <1>6 DEF Avx512Store, L, v1, v2, v3
<1>10. Avx512Store(c, i, s) = Fill(c, Join(Join(Run(w, 4), Run(z, 4)), Run(y, 8)))
  BY <1>8, <1>9, FillOver
<1>11. Join(Join(Run(w, 4), Run(z, 4)), Run(y, 8)) = Touched(c, i)
  <2>1. \A d \in Int : d \in Touched(c, i) <=> d \in Span(c, i)
    <3>1. ~HasMirror(c)
      BY <1>1
    <3> QED BY <3>1, TouchedIs
  <2>2. \A d : d \in Join(Join(Run(w, 4), Run(z, 4)), Run(y, 8)) <=> d \in Int /\ (d \in (w)..(w + 3) \/ d \in (z)..(z + 3) \/ d \in (y)..(y + 7))
    BY <1>1, <1>7 DEF Join, Run, LanesAt
  <2> DEFINE J == Join(Join(Run(w, 4), Run(z, 4)), Run(y, 8))
  <2> HIDE DEF J
  <2>3. \A d \in Int : d \in J <=> d \in Touched(c, i)
    BY <1>1, <1>3, <2>1, <2>2 DEF J, z, w
  <2>4. \A d : d \in J <=> d \in Touched(c, i)
    BY <1>3, <2>2, <2>3 DEF J
  <2> QED BY <2>4 DEF J
<1> QED BY <1>10, <1>11 DEF Stored, s

(* AVX-512, other rows: a row is a number of quarters. *)
LEMMA Avx512CStoreRight ==
  ASSUME NEW c \in Calls, Packed(c), ~c.magic, c.simd = "avx512", c.im > 0, c.nlat % 4 = 0, NEW i, BlockOK(c, i)
  PROVE  Stored(c, i, Avx512CStore(c, i, Sums(c, i)))
<1> DEFINE s == Sums(c, i)
           L == c.nlat
           M == Mirrored(c)
           y == 8 * i
           z == L - 4 - y
           w == L - 8 - y
           by == M + y
           bz == M + z
           bw == M + w
           v1 == Half(permutex(Mix(SouthPlus(s), SouthMinus(s)), <<2, 3, 0, 1>>), 1)
           v2 == Half(permutex(Mix(SouthPlus(s), SouthMinus(s)), <<2, 3, 0, 1>>), 0)
           v3 == Half(permutex(Mix(SouthMinus(s), SouthPlus(s)), <<2, 3, 0, 1>>), 1)
           v4 == Half(permutex(Mix(SouthMinus(s), SouthPlus(s)), <<2, 3, 0, 1>>), 0)
           v5 == Mix(NorthPlus(s), NorthMinus(s))
           v6 == Mix(NorthMinus(s), NorthPlus(s))
<1>1. /\ L \in Nat /\ i \in Nat /\ y \in Nat /\ y + 8 <= L /\ VSIZE2(c) = 8 /\ Base(c, i) = y /\ RowLen(c) = L
      /\ 2 * NLAT_2(c) = L /\ NLAT_2(c) \in Nat /\ z \in Nat /\ w \in Nat
      /\ M \in Nat /\ HasMirror(c)
  <2>1. VSIZE2(c) * i = 8 * i
    BY BlockFacts
  <2>2. L \in Nat /\ i \in Nat /\ y + 8 <= L /\ VSIZE2(c) = 8 /\ RowLen(c) = L /\ 2 * NLAT_2(c) = L /\ NLAT_2(c) \in Nat
        /\ M \in Nat /\ HasMirror(c)
    BY BlockFacts, LayoutFacts DEF HasMirror
  <2> HIDE DEF L, M
  <2> QED BY <2>1, <2>2 DEF Base
<1>3. Touched(c, i) \subseteq Int /\ \A d \in Int : d \in Span(c, i) <=> d \in y..(y + 8 - 1) \/ d \in (L - y - 8)..(L - y - 1)
  BY <1>1, TouchedIs, SpanIs
<1>4. /\ LanesAt(c, Mix(NorthMinus(s), NorthPlus(s)), y, 8)
      /\ LanesAt(c, Mix(NorthPlus(s), NorthMinus(s)), M + y, 8)
      /\ CrossNear(c, Mix(SouthMinus(s), SouthPlus(s)), y, 8)
      /\ CrossFar(c, Mix(SouthPlus(s), SouthMinus(s)), y, 8)
  BY <1>1, CrossedLanes
<1> HIDE DEF s, L, M
<1>5. /\ LanesAt(c, v1, bw, 4)
      /\ LanesAt(c, v2, bz, 4)
      /\ LanesAt(c, v3, w, 4)
      /\ LanesAt(c, v4, z, 4)
      /\ LanesAt(c, v5, by, 8)
      /\ LanesAt(c, v6, y, 8)
  BY <1>1, <1>4, SouthEight DEF L, M
<1> HIDE DEF v1, v2, v3, v4, v5, v6
<1>6. 4 * (c.nlat \div 4 - 1 - 1 - 2 * i) = w /\ 4 * (c.nlat \div 4 - 1 - 0 - 2 * i) = z /\ 8 * i = y /\ 4 * ((c.nphi + 1 - 2 * c.im) * (c.nlat \div 4) - 1 - 1 - 2 * i) = bw /\ 4 * ((c.nphi + 1 - 2 * c.im) * (c.nlat \div 4) - 1 - 0 - 2 * i) = bz
  <2> DEFINE Q == c.nlat \div 4
             F == (c.nphi + 1 - 2 * c.im) * Q
  <2>1. Q \in Nat /\ F \in Nat /\ L = 4 * Q /\ 4 * F = M + L
    BY Quarters DEF L, M
  <2> HIDE DEF Q, F, M
  <2>2. 4 * (Q - 1 - 1 - 2 * i) = w /\ 4 * (Q - 1 - 0 - 2 * i) = z /\ 8 * i = y
    BY <1>1, <2>1
  <2>3. 4 * (F - 1 - 1 - 2 * i) = bw /\ 4 * (F - 1 - 0 - 2 * i) = bz
    BY <1>1, <2>1
  <2> QED BY <2>2, <2>3 DEF Q, F
<1> HIDE DEF z, w, by, bz, bw
<1>7. /\ LanesAt(c, v1, bw, 4) /\ bw \in Int
      /\ LanesAt(c, v2, bz, 4) /\ bz \in Int
      /\ LanesAt(c, v3, w, 4) /\ w \in Int
      /\ LanesAt(c, v4, z, 4) /\ z \in Int
      /\ LanesAt(c, v5, by, 8) /\ by \in Int
      /\ LanesAt(c, v6, y, 8) /\ y \in Int
  BY <1>5 DEF LanesAt
<1>8. /\ Put(bw, v1) = Fill(c, Run(bw, 4))
      /\ Put(bz, v2) = Fill(c, Run(bz, 4))
      /\ Put(w, v3) = Fill(c, Run(w, 4))
      /\ Put(z, v4) = Fill(c, Run(z, 4))
      /\ Put(by, v5) = Fill(c, Run(by, 8))
      /\ Put(y, v6) = Fill(c, Run(y, 8))
  BY <1>7, PutFills
<1>9. Avx512CStore(c, i, s) = Put(bw, v1) ## Put(bz, v2) ## Put(w, v3) ## Put(z, v4) ## Put(by, v5) ## Put(y, v6)
  BY <1>6 DEF Avx512CStore, L, v1, v2, v3, v4, v5, v6, by, M, NorthPlus, NorthMinus, SouthPlus, SouthMinus
<1>10. Avx512CStore(c, i, s) = Fill(c, Join(Join(Join(Join(Join(Run(bw, 4), Run(bz, 4)), Run(w, 4)), Run(z, 4)), Run(by, 8)), Run(y, 8)))
  BY <1>8, <1>9, FillOver
<1>11. Join(Join(Join(Join(Join(Run(bw, 4), Run(bz, 4)), Run(w, 4)), Run(z, 4)), Run(by, 8)), Run(y, 8)) = Touched(c, i)
  <2>1. \A d \in Int : d \in Touched(c, i) <=> d \in Span(c, i) \/ d - M \in Span(c, i)
    <3>1. HasMirror(c)
      BY <1>1
    <3> HIDE DEF M
    <3> TAKE d \in Int
    <3> QED BY <3>1, TouchedIs DEF M
  <2>2. \A d : d \in Join(Join(Join(Join(Join(Run(bw, 4), Run(bz, 4)), Run(w, 4)), Run(z, 4)), Run(by, 8)), Run(y, 8)) <=> d \in Int /\ (d \in (bw)..(bw + 3) \/ d \in (bz)..(bz + 3) \/ d \in (w)..(w + 3) \/ d \in (z)..(z + 3) \/ d \in (by)..(by + 7) \/ d \in (y)..(y + 7))
    BY <1>1, <1>7 DEF Join, Run, LanesAt
  <2> DEFINE J == Join(Join(Join(Join(Join(Run(bw, 4), Run(bz, 4)), Run(w, 4)), Run(z, 4)), Run(by, 8)), Run(y, 8))
  <2> HIDE DEF J
  <2>3. \A d \in Int : d \in J <=> d \in Touched(c, i)
    BY <1>1, <1>3, <2>1, <2>2 DEF J, z, w, by, bz, bw
  <2>4. \A d : d \in J <=> d \in Touched(c, i)
    BY <1>3, <2>2, <2>3 DEF J
  <2> QED BY <2>4 DEF J
<1> QED BY <1>10, <1>11 DEF Stored, s

(* One lane. *)
LEMMA OneLane ==
  ASSUME NEW c \in Calls, NEW v, NEW a \in Nat, Vector(v, 1), v[0] = Near(c, a), a + 1 <= RowLen(c)
  PROVE  LanesAt(c, v, a, 1)
<1> DEFINE n == 1
<1>1. n \in Nat /\ Vector(v, n) /\ a + n <= RowLen(c)
  OBVIOUS
<1>2. \A j \in 0..(n - 1) : v[j] = Near(c, a + j)
  <2> TAKE j \in 0..(n - 1)
  <2>1. j = 0 /\ a + j = a
    OBVIOUS
  <2> QED BY <2>1
<1> HIDE DEF n
<1>3. LanesAt(c, v, a, n)
  BY <1>1, <1>2, NearLanes
<1> QED BY <1>3 DEF n

(* Without vectors, row 0. *)
LEMMA ScalarStoreRight ==
  ASSUME NEW c \in Calls, ~Packed(c), ~c.magic, c.simd = "scalar", c.im = 0, NEW i, BlockOK(c, i)
  PROVE  Stored(c, i, ScalarStore(c, i, Sums(c, i)))
<1> DEFINE s == Sums(c, i)
           L == c.nlat
           y == 1 * i
           a1 == 2 * i
           a2 == 2 * i + 1
           a3 == 2 * (L - 1 - i)
           a4 == 2 * (L - 1 - i) + 1
<1>1. /\ L \in Nat /\ i \in Nat /\ y = i /\ y + 1 <= L /\ VSIZE2(c) = 1 /\ Base(c, i) = y /\ RowLen(c) = 2 * L /\ ~HasMirror(c)
      /\ a1 \in Nat /\ a1 + 1 <= 2 * L /\ a2 \in Nat /\ a2 + 1 <= 2 * L /\ a3 \in Nat /\ a3 + 1 <= 2 * L /\ a4 \in Nat /\ a4 + 1 <= 2 * L
  <2>1. VSIZE2(c) * i = i
    BY BlockFacts
  <2>2. L \in Nat /\ i \in Nat /\ i + 1 <= L /\ VSIZE2(c) = 1 /\ RowLen(c) = 2 * L /\ ~HasMirror(c)
    BY BlockFacts, LayoutFacts DEF HasMirror
  <2> HIDE DEF L
  <2> QED BY <2>1, <2>2 DEF Base
<1>2. /\ Vector(s.nr, 1) /\ Vector(s.ni, 1) /\ Vector(s.sr, 1) /\ Vector(s.si, 1)
      /\ s.nr[0] = Near(c, 2 * i)
      /\ s.ni[0] = Near(c, 2 * i + 1)
      /\ s.sr[0] = Near(c, 2 * (L - 1 - i))
      /\ s.si[0] = Near(c, 2 * (L - 1 - i) + 1)
  <2>1. 0 \in 0..(1 - 1) /\ VSIZE2(c) * i + 0 = i /\ VSIZE2(c) = 1 /\ c.nlat - 1 - VSIZE2(c) * i - 0 = c.nlat - 1 - i
    BY <1>1
  <2> DEFINE V == VSIZE2(c)
             b == V * i
             g == L - 1 - b - 0
             h == b + 0
  <2>2. /\ Vector(s.nr, V) /\ Vector(s.ni, V) /\ Vector(s.sr, V) /\ Vector(s.si, V)
        /\ s.nr[0] = Near(c, 2 * h)
        /\ s.ni[0] = Near(c, 2 * h + 1)
        /\ s.sr[0] = Near(c, 2 * g)
        /\ s.si[0] = Near(c, 2 * g + 1)
    <3>1. 0 \in 0..(V - 1)
      BY <2>1
    <3> HIDE DEF s
    <3> QED BY <3>1, Plain DEF s
  <2>3. h = i /\ V = 1 /\ g = L - 1 - i
    BY <2>1
  <2> HIDE DEF s, V, h, g
  <2> QED BY <2>2, <2>3
<1>3. Touched(c, i) \subseteq Int /\ \A d \in Int : d \in Span(c, i) <=> d \in (2 * y)..(2 * y + 2 * 1 - 1) \/ d \in (2 * (L - y - 1))..(2 * (L - y) - 1)
  BY <1>1, TouchedIs, SpanIs
<1>4. s.ni = Clear(1) /\ s.si = Clear(1)
  BY <1>1 DEF Sums
<1> HIDE DEF s, L
<1>5. /\ s.nr[0] = Near(c, a1)
      /\ s.ni[0] = Near(c, a2)
      /\ s.sr[0] = Near(c, a3)
      /\ s.si[0] = Near(c, a4)
  BY <1>2
<1> HIDE DEF y, a1, a2, a3, a4
<1>7. /\ LanesAt(c, s.nr, a1, 1) /\ a1 \in Int
      /\ LanesAt(c, s.ni, a2, 1) /\ a2 \in Int
      /\ LanesAt(c, s.sr, a3, 1) /\ a3 \in Int
      /\ LanesAt(c, s.si, a4, 1) /\ a4 \in Int
  BY <1>1, <1>2, <1>5, OneLane DEF L
<1>8. /\ Put(a1, s.nr) = Fill(c, Run(a1, 1))
      /\ Put(a2, s.ni) = Fill(c, Run(a2, 1))
      /\ Put(a3, s.sr) = Fill(c, Run(a3, 1))
      /\ Put(a4, s.si) = Fill(c, Run(a4, 1))
  BY <1>7, PutFills
<1>9. ScalarStore(c, i, s) = Put(a1, s.nr) ## Put(a2, s.ni) ## Put(a3, s.sr) ## Put(a4, s.si)
  BY <1>1, <1>4 DEF ScalarStore, a1, a2, a3, a4, L
<1>10. ScalarStore(c, i, s) = Fill(c, Join(Join(Join(Run(a1, 1), Run(a2, 1)), Run(a3, 1)), Run(a4, 1)))
  BY <1>8, <1>9, FillOver
<1>11. Join(Join(Join(Run(a1, 1), Run(a2, 1)), Run(a3, 1)), Run(a4, 1)) = Touched(c, i)
  <2>1. \A d \in Int : d \in Touched(c, i) <=> d \in Span(c, i)
    <3>1. ~HasMirror(c)
      BY <1>1
    <3> QED BY <3>1, TouchedIs
  <2>2. \A d : d \in Join(Join(Join(Run(a1, 1), Run(a2, 1)), Run(a3, 1)), Run(a4, 1)) <=> d \in Int /\ (d = a1 \/ d = a2 \/ d = a3 \/ d = a4)
    BY <1>1, <1>7 DEF Join, Run, LanesAt
  <2> DEFINE J == Join(Join(Join(Run(a1, 1), Run(a2, 1)), Run(a3, 1)), Run(a4, 1))
  <2> HIDE DEF J
  <2>3. \A d \in Int : d \in J <=> d \in Touched(c, i)
    BY <1>1, <1>3, <2>1, <2>2 DEF J, a1, a2, a3, a4, y
  <2>4. \A d : d \in J <=> d \in Touched(c, i)
    BY <1>3, <2>2, <2>3 DEF J
  <2> QED BY <2>4 DEF J
<1> QED BY <1>10, <1>11 DEF Stored, s

(* Without vectors, other rows and one order. *)
LEMMA ScalarCStoreRight ==
  ASSUME NEW c \in Calls, ~Packed(c), ~c.magic, c.simd = "scalar", NEW i, BlockOK(c, i)
  PROVE  Stored(c, i, ScalarCStore(c, i, Sums(c, i)))
<1> DEFINE s == Sums(c, i)
           L == c.nlat
           y == 1 * i
           a1 == 2 * i
           a2 == 2 * i + 1
           a3 == 2 * (L - 1 - i)
           a4 == 2 * (L - 1 - i) + 1
<1>1. /\ L \in Nat /\ i \in Nat /\ y = i /\ y + 1 <= L /\ VSIZE2(c) = 1 /\ Base(c, i) = y /\ RowLen(c) = 2 * L /\ ~HasMirror(c)
      /\ a1 \in Nat /\ a1 + 1 <= 2 * L /\ a2 \in Nat /\ a2 + 1 <= 2 * L /\ a3 \in Nat /\ a3 + 1 <= 2 * L /\ a4 \in Nat /\ a4 + 1 <= 2 * L
  <2>1. VSIZE2(c) * i = i
    BY BlockFacts
  <2>2. L \in Nat /\ i \in Nat /\ i + 1 <= L /\ VSIZE2(c) = 1 /\ RowLen(c) = 2 * L /\ ~HasMirror(c)
    BY BlockFacts, LayoutFacts DEF HasMirror
  <2> HIDE DEF L
  <2> QED BY <2>1, <2>2 DEF Base
<1>2. /\ Vector(s.nr, 1) /\ Vector(s.ni, 1) /\ Vector(s.sr, 1) /\ Vector(s.si, 1)
      /\ s.nr[0] = Near(c, 2 * i)
      /\ s.ni[0] = Near(c, 2 * i + 1)
      /\ s.sr[0] = Near(c, 2 * (L - 1 - i))
      /\ s.si[0] = Near(c, 2 * (L - 1 - i) + 1)
  <2>1. 0 \in 0..(1 - 1) /\ VSIZE2(c) * i + 0 = i /\ VSIZE2(c) = 1 /\ c.nlat - 1 - VSIZE2(c) * i - 0 = c.nlat - 1 - i
    BY <1>1
  <2> DEFINE V == VSIZE2(c)
             b == V * i
             g == L - 1 - b - 0
             h == b + 0
  <2>2. /\ Vector(s.nr, V) /\ Vector(s.ni, V) /\ Vector(s.sr, V) /\ Vector(s.si, V)
        /\ s.nr[0] = Near(c, 2 * h)
        /\ s.ni[0] = Near(c, 2 * h + 1)
        /\ s.sr[0] = Near(c, 2 * g)
        /\ s.si[0] = Near(c, 2 * g + 1)
    <3>1. 0 \in 0..(V - 1)
      BY <2>1
    <3> HIDE DEF s
    <3> QED BY <3>1, Plain DEF s
  <2>3. h = i /\ V = 1 /\ g = L - 1 - i
    BY <2>1
  <2> HIDE DEF s, V, h, g
  <2> QED BY <2>2, <2>3
<1>3. Touched(c, i) \subseteq Int /\ \A d \in Int : d \in Span(c, i) <=> d \in (2 * y)..(2 * y + 2 * 1 - 1) \/ d \in (2 * (L - y - 1))..(2 * (L - y) - 1)
  BY <1>1, TouchedIs, SpanIs
<1>4. s = Sums(c, i)
  OBVIOUS
<1> HIDE DEF s, L
<1>5. /\ s.nr[0] = Near(c, a1)
      /\ s.ni[0] = Near(c, a2)
      /\ s.sr[0] = Near(c, a3)
      /\ s.si[0] = Near(c, a4)
  BY <1>2
<1> HIDE DEF y, a1, a2, a3, a4
<1>7. /\ LanesAt(c, s.nr, a1, 1) /\ a1 \in Int
      /\ LanesAt(c, s.ni, a2, 1) /\ a2 \in Int
      /\ LanesAt(c, s.sr, a3, 1) /\ a3 \in Int
      /\ LanesAt(c, s.si, a4, 1) /\ a4 \in Int
  BY <1>1, <1>2, <1>5, OneLane DEF L
<1>8. /\ Put(a1, s.nr) = Fill(c, Run(a1, 1))
      /\ Put(a2, s.ni) = Fill(c, Run(a2, 1))
      /\ Put(a3, s.sr) = Fill(c, Run(a3, 1))
      /\ Put(a4, s.si) = Fill(c, Run(a4, 1))
  BY <1>7, PutFills
<1>9. ScalarCStore(c, i, s) = Put(a1, s.nr) ## Put(a2, s.ni) ## Put(a3, s.sr) ## Put(a4, s.si)
  BY <1>1 DEF ScalarCStore, a1, a2, a3, a4, L
<1>10. ScalarCStore(c, i, s) = Fill(c, Join(Join(Join(Run(a1, 1), Run(a2, 1)), Run(a3, 1)), Run(a4, 1)))
  BY <1>8, <1>9, FillOver
<1>11. Join(Join(Join(Run(a1, 1), Run(a2, 1)), Run(a3, 1)), Run(a4, 1)) = Touched(c, i)
  <2>1. \A d \in Int : d \in Touched(c, i) <=> d \in Span(c, i)
    <3>1. ~HasMirror(c)
      BY <1>1
    <3> QED BY <3>1, TouchedIs
  <2>2. \A d : d \in Join(Join(Join(Run(a1, 1), Run(a2, 1)), Run(a3, 1)), Run(a4, 1)) <=> d \in Int /\ (d = a1 \/ d = a2 \/ d = a3 \/ d = a4)
    BY <1>1, <1>7 DEF Join, Run, LanesAt
  <2> DEFINE J == Join(Join(Join(Run(a1, 1), Run(a2, 1)), Run(a3, 1)), Run(a4, 1))
  <2> HIDE DEF J
  <2>3. \A d \in Int : d \in J <=> d \in Touched(c, i)
    BY <1>1, <1>3, <2>1, <2>2 DEF J, a1, a2, a3, a4, y
  <2>4. \A d : d \in J <=> d \in Touched(c, i)
    BY <1>3, <2>2, <2>3 DEF J
  <2> QED BY <2>4 DEF J
<1> QED BY <1>10, <1>11 DEF Stored, s

(* Without vectors, SHTNS4MAGIC, other rows and one order. *)
LEMMA ScalarMagicCStoreRight ==
  ASSUME NEW c \in Calls, ~Packed(c), c.magic, c.simd = "scalar", c.nlat % 2 = 0, NEW i, BlockOK(c, i)
  PROVE  Stored(c, i, ScalarMagicCStore(c, i, Sums(c, i)))
<1> DEFINE s == Sums(c, i)
           L == c.nlat
           y == 1 * i
           a1 == 4 * i
           a2 == 4 * i + 1
           a3 == 4 * i + 2
           a4 == 4 * i + 3
<1>1. /\ L \in Nat /\ i \in Nat /\ y = i /\ y + 1 <= L /\ VSIZE2(c) = 1 /\ Base(c, i) = y /\ RowLen(c) = 2 * L /\ ~HasMirror(c)
      /\ a1 \in Nat /\ a1 + 1 <= 2 * L /\ a2 \in Nat /\ a2 + 1 <= 2 * L /\ a3 \in Nat /\ a3 + 1 <= 2 * L /\ a4 \in Nat /\ a4 + 1 <= 2 * L
  <2>1. VSIZE2(c) * i = i
    BY BlockFacts
  <2>2. L \in Nat /\ i \in Nat /\ i + 1 <= L /\ VSIZE2(c) = 1 /\ RowLen(c) = 2 * L /\ ~HasMirror(c) /\ 2 * (i + 1) <= L + 1 /\ L % 2 = 0
    BY <2>1, BlockFacts, LayoutFacts DEF HasMirror
  <2> HIDE DEF L
  <2> QED BY <2>1, <2>2 DEF Base
<1>2. /\ Vector(s.nr, 1) /\ Vector(s.ni, 1) /\ Vector(s.sr, 1) /\ Vector(s.si, 1)
      /\ s.nr[0] = Near(c, 4 * i)
      /\ s.ni[0] = Near(c, 4 * i + 1)
      /\ s.sr[0] = Near(c, 4 * i + 2)
      /\ s.si[0] = Near(c, 4 * i + 3)
  <2>1. 0 \in 0..(1 - 1) /\ VSIZE2(c) * i + 0 = i /\ VSIZE2(c) = 1
    BY <1>1
  <2> DEFINE V == VSIZE2(c)
             b == V * i
             g == L - 1 - b - 0
             h == b + 0
  <2>2. /\ Vector(s.nr, V) /\ Vector(s.ni, V) /\ Vector(s.sr, V) /\ Vector(s.si, V)
        /\ s.nr[0] = Near(c, 4 * h)
        /\ s.ni[0] = Near(c, 4 * h + 1)
        /\ s.sr[0] = Near(c, 4 * h + 2)
        /\ s.si[0] = Near(c, 4 * h + 3)
    <3>1. 0 \in 0..(V - 1)
      BY <2>1
    <3> HIDE DEF s
    <3> QED BY <3>1, Plain DEF s
  <2>3. h = i /\ V = 1
    BY <2>1
  <2> HIDE DEF s, V, h, g
  <2> QED BY <2>2, <2>3
<1>3. Touched(c, i) \subseteq Int /\ \A d \in Int : d \in Span(c, i) <=> d \in (4 * y)..(4 * y + 4 * 1 - 1)
  BY <1>1, TouchedIs, SpanIs
<1>4. s = Sums(c, i)
  OBVIOUS
<1> HIDE DEF s, L
<1>5. /\ s.nr[0] = Near(c, a1)
      /\ s.ni[0] = Near(c, a2)
      /\ s.sr[0] = Near(c, a3)
      /\ s.si[0] = Near(c, a4)
  BY <1>2
<1> HIDE DEF y, a1, a2, a3, a4
<1>7. /\ LanesAt(c, s.nr, a1, 1) /\ a1 \in Int
      /\ LanesAt(c, s.ni, a2, 1) /\ a2 \in Int
      /\ LanesAt(c, s.sr, a3, 1) /\ a3 \in Int
      /\ LanesAt(c, s.si, a4, 1) /\ a4 \in Int
  BY <1>1, <1>2, <1>5, OneLane DEF L
<1>8. /\ Put(a1, s.nr) = Fill(c, Run(a1, 1))
      /\ Put(a2, s.ni) = Fill(c, Run(a2, 1))
      /\ Put(a3, s.sr) = Fill(c, Run(a3, 1))
      /\ Put(a4, s.si) = Fill(c, Run(a4, 1))
  BY <1>7, PutFills
<1>9. ScalarMagicCStore(c, i, s) = Put(a1, s.nr) ## Put(a2, s.ni) ## Put(a3, s.sr) ## Put(a4, s.si)
  BY <1>1 DEF ScalarMagicCStore, a1, a2, a3, a4, L
<1>10. ScalarMagicCStore(c, i, s) = Fill(c, Join(Join(Join(Run(a1, 1), Run(a2, 1)), Run(a3, 1)), Run(a4, 1)))
  BY <1>8, <1>9, FillOver
<1>11. Join(Join(Join(Run(a1, 1), Run(a2, 1)), Run(a3, 1)), Run(a4, 1)) = Touched(c, i)
  <2>1. \A d \in Int : d \in Touched(c, i) <=> d \in Span(c, i)
    <3>1. ~HasMirror(c)
      BY <1>1
    <3> QED BY <3>1, TouchedIs
  <2>2. \A d : d \in Join(Join(Join(Run(a1, 1), Run(a2, 1)), Run(a3, 1)), Run(a4, 1)) <=> d \in Int /\ (d = a1 \/ d = a2 \/ d = a3 \/ d = a4)
    BY <1>1, <1>7 DEF Join, Run, LanesAt
  <2> DEFINE J == Join(Join(Join(Run(a1, 1), Run(a2, 1)), Run(a3, 1)), Run(a4, 1))
  <2> HIDE DEF J
  <2>3. \A d \in Int : d \in J <=> d \in Touched(c, i)
    BY <1>1, <1>3, <2>1, <2>2 DEF J, a1, a2, a3, a4, y
  <2>4. \A d : d \in J <=> d \in Touched(c, i)
    BY <1>3, <2>2, <2>3 DEF J
  <2> QED BY <2>4 DEF J
<1> QED BY <1>10, <1>11 DEF Stored, s

(* Whatever the vectors, the layout and the kernel: the macro which is used stores what is expected
   at all places of its block, and nowhere else. *)
LEMMA WritesRight ==
  ASSUME NEW c \in Calls, StoresWell(c), c.kernel = "fly", NEW i, BlockOK(c, i)
  PROVE  Writes(c, i) = Fill(c, Touched(c, i))
<1>1. /\ c.simd \in Simds /\ c.magic \in BOOLEAN /\ c.kind \in {"m0", "m", "fixed"} /\ c.im \in Nat /\ c.nlat \in Nat
      /\ c.kind = "m0" => c.im = 0
      /\ c.kind = "m" => c.im > 0
      /\ c.simd = "avx512" => ~c.magic
  BY CallFacts DEF CallExists
<1>2. /\ c.kind = "fixed" \/ c.simd = "scalar" => ~Packed(c)
      /\ c.kind # "fixed" /\ c.simd # "scalar" => Packed(c)
  BY DEF Packed
<1> DEFINE s == Sums(c, i)
           F == Fill(c, Touched(c, i))
<1>3. CASE c.simd = "scalar" /\ ~c.magic
  <2>1. c.kind = "m0" => ScalarStore(c, i, s) = F
    BY <1>1, <1>2, <1>3, ScalarStoreRight DEF Stored
  <2>2. ScalarCStore(c, i, s) = F
    BY <1>1, <1>2, <1>3, ScalarCStoreRight DEF Stored
  <2> HIDE DEF s, F
  <2>3. Writes(c, i) = IF c.kind = "m0" THEN ScalarStore(c, i, s) ELSE ScalarCStore(c, i, s)
    BY <1>1, <1>3 DEF Writes, s
  <2> QED BY <2>1, <2>2, <2>3 DEF F
<1>4. CASE c.simd = "scalar" /\ c.magic
  <2>1. c.kind # "m0" /\ c.nlat % 2 = 0
    BY <1>1, <1>4 DEF StoresWell
  <2>2. ScalarMagicCStore(c, i, s) = F
    BY <1>1, <1>2, <1>4, <2>1, ScalarMagicCStoreRight DEF Stored
  <2> HIDE DEF s, F
  <2>3. Writes(c, i) = ScalarMagicCStore(c, i, s)
    BY <1>1, <1>4, <2>1 DEF Writes, s
  <2> QED BY <2>2, <2>3 DEF F
<1>5. CASE c.simd = "sse2" /\ ~c.magic
  <2>1. /\ c.kind = "m0" => Sse2Store(c, i, s) = F
        /\ c.kind = "m" => Sse2CStore(c, i, s) = F
        /\ c.kind = "fixed" => Sse2CStore2(c, i, s) = F
    BY <1>1, <1>2, <1>5, Sse2StoreRight, Sse2CStoreRight, Sse2CStore2Right DEF Stored
  <2> HIDE DEF s, F
  <2>2. /\ c.kind = "m0" => Writes(c, i) = Sse2Store(c, i, s)
        /\ c.kind = "m" => Writes(c, i) = Sse2CStore(c, i, s)
        /\ c.kind = "fixed" => Writes(c, i) = Sse2CStore2(c, i, s)
    BY <1>5 DEF Writes, s
  <2> QED BY <1>1, <2>1, <2>2 DEF F
<1>6. CASE c.simd = "sse2" /\ c.magic
  <2>1. /\ c.kind = "m0" => Sse2MagicStore(c, i, s) = F
        /\ c.kind = "m" => Sse2MagicCStore(c, i, s) = F
        /\ c.kind = "fixed" => Sse2MagicCStore2(c, i, s) = F
    BY <1>1, <1>2, <1>6, Sse2MagicStoreRight, Sse2MagicCStoreRight, Sse2MagicCStore2Right DEF Stored
  <2> HIDE DEF s, F
  <2>2. /\ c.kind = "m0" => Writes(c, i) = Sse2MagicStore(c, i, s)
        /\ c.kind = "m" => Writes(c, i) = Sse2MagicCStore(c, i, s)
        /\ c.kind = "fixed" => Writes(c, i) = Sse2MagicCStore2(c, i, s)
    BY <1>6 DEF Writes, s
  <2> QED BY <1>1, <2>1, <2>2 DEF F
<1>7. CASE c.simd = "avx" /\ ~c.magic
  <2>1. /\ c.kind = "m0" => AvxStore(c, i, s) = F
        /\ c.kind = "m" => AvxCStore(c, i, s) = F
        /\ c.kind = "fixed" => AvxCStore2(c, i, s) = F
    BY <1>1, <1>2, <1>7, AvxStoreRight, AvxCStoreRight, AvxCStore2Right DEF Stored
  <2> HIDE DEF s, F
  <2>2. /\ c.kind = "m0" => Writes(c, i) = AvxStore(c, i, s)
        /\ c.kind = "m" => Writes(c, i) = AvxCStore(c, i, s)
        /\ c.kind = "fixed" => Writes(c, i) = AvxCStore2(c, i, s)
    BY <1>7 DEF Writes, s
  <2> QED BY <1>1, <2>1, <2>2 DEF F
<1>8. CASE c.simd = "avx" /\ c.magic
  <2>1. /\ c.kind = "m0" => AvxMagicStore(c, i, s) = F
        /\ c.kind = "m" => AvxMagicCStore(c, i, s) = F
        /\ c.kind = "fixed" => AvxMagicCStore2(c, i, s) = F
    BY <1>1, <1>2, <1>8, AvxMagicStoreRight, AvxMagicCStoreRight, AvxMagicCStore2Right DEF Stored
  <2> HIDE DEF s, F
  <2>2. /\ c.kind = "m0" => Writes(c, i) = AvxMagicStore(c, i, s)
        /\ c.kind = "m" => Writes(c, i) = AvxMagicCStore(c, i, s)
        /\ c.kind = "fixed" => Writes(c, i) = AvxMagicCStore2(c, i, s)
    BY <1>8 DEF Writes, s
  <2> QED BY <1>1, <2>1, <2>2 DEF F
<1>9. CASE c.simd = "avx512"
  <2>1. c.kind # "fixed" /\ (c.kind = "m" => c.nlat % 4 = 0) /\ ~c.magic
    BY <1>1, <1>9 DEF StoresWell
  <2>2. /\ c.kind = "m0" => Avx512Store(c, i, s) = F
        /\ c.kind = "m" => Avx512CStore(c, i, s) = F
    BY <1>1, <1>2, <1>9, <2>1, Avx512StoreRight, Avx512CStoreRight DEF Stored
  <2> HIDE DEF s, F
  <2>3. /\ c.kind = "m0" => Writes(c, i) = Avx512Store(c, i, s)
        /\ c.kind = "m" => Writes(c, i) = Avx512CStore(c, i, s)
    BY <1>9, <2>1 DEF Writes, s
  <2> QED BY <1>1, <2>1, <2>2, <2>3 DEF F
<1> QED BY <1>1, <1>3, <1>4, <1>5, <1>6, <1>7, <1>8, <1>9 DEF Simds

-----------------------------------------------------------------------------
(* Bands of latitudes.                                                     *)

(* The latitude of a double of the row of the order; bands of latitudes and their mirror images, in
   that row and in both rows. *)
Lat(c, d) == LatAt(c, IF Packed(c) THEN d ELSE d \div 2)
Within(c, x, u, v) == x \in u..(v - 1) \/ c.nlat - 1 - x \in u..(v - 1)
Band(c, u, v) == {d \in 0..(RowLen(c) - 1) : Within(c, Lat(c, d), u, v)}
Both(c, S) == S \cup (IF HasMirror(c) THEN {Mirrored(c) + d : d \in S} ELSE {})

(* Where a latitude is. *)
LEMMA LatFacts ==
  ASSUME NEW c \in Calls, NEW d \in 0..(RowLen(c) - 1)
  PROVE  /\ d \in Nat /\ c.nlat \in Nat /\ Lat(c, d) \in Nat /\ Lat(c, d) < c.nlat
         /\ Packed(c) /\ ~c.magic => Lat(c, d) = d
         /\ ~Packed(c) /\ ~c.magic => Lat(c, d) = d \div 2
         /\ Packed(c) /\ c.magic => IF d % 2 = 0 THEN Lat(c, d) = d \div 2 ELSE Lat(c, d) = c.nlat - 1 - d \div 2
         /\ ~Packed(c) /\ c.magic => IF (d \div 2) % 2 = 0 THEN Lat(c, d) = d \div 4 ELSE Lat(c, d) = c.nlat - 1 - d \div 4
<1> DEFINE L == c.nlat
           p == IF Packed(c) THEN d ELSE d \div 2
<1>1. L \in Nat /\ L > 0 /\ c.magic \in BOOLEAN /\ RowLen(c) = IF Packed(c) THEN L ELSE 2 * L
  BY CallFacts DEF RowLen
<1>2. d \in Nat /\ p \in Nat /\ p < L
  BY <1>1
<1>3. Lat(c, d) = IF ~c.magic THEN p ELSE IF p % 2 = 0 THEN p \div 2 ELSE L - 1 - p \div 2
  BY DEF Lat, LatAt
<1>4. (d \div 2) \div 2 = d \div 4
  BY <1>2
<1> HIDE DEF L
<1>5. CASE Packed(c)
  <2>1. p = d
    BY <1>5
  <2> QED BY <1>1, <1>2, <1>3, <1>5, <2>1 DEF L
<1>6. CASE ~Packed(c)
  <2>1. p = d \div 2
    BY <1>6
  <2> HIDE DEF p
  <2>2. p \div 2 = d \div 4
    BY <1>4, <2>1
  <2>3. p \div 2 \in Nat /\ p \div 2 <= p
    BY <1>2
  <2> QED BY <1>1, <1>2, <1>3, <1>6, <2>1, <2>2, <2>3 DEF L
<1> QED BY <1>5, <1>6

(* A block is a band. *)
LEMMA SpanIsBand ==
  ASSUME NEW c \in Calls, c.magic => c.nlat % 2 = 0, NEW i, BlockOK(c, i)
  PROVE  Span(c, i) = Band(c, Base(c, i), Base(c, i) + VSIZE2(c))
<1> DEFINE L == c.nlat
           V == VSIZE2(c)
           y == Base(c, i)
           S == Span(c, i)
           B == Band(c, y, y + V)
<1>1. L \in Nat /\ V \in {1, 2, 4, 8} /\ y \in Nat /\ y + V <= L /\ (c.magic => 2 * (y + V) <= L)
  <2>1. L \in Nat /\ V \in {1, 2, 4, 8} /\ i \in Nat /\ V * (i + 1) <= L /\ y = V * i
        /\ (c.magic => V * (i + 1) <= NLAT_2(c)) /\ NLAT_2(c) \in Nat
    BY CallFacts, SizeFacts DEF BlockOK, Base
  <2>2. c.magic => L = 2 * NLAT_2(c)
    <3>1. (L % 2 = 0 => L = 2 * NLAT_2(c)) /\ L \in Nat
      BY CallFacts DEF NLAT_2
    <3> QED BY <3>1
  <2>3. V * (i + 1) = V * i + V /\ V * i \in Nat
    BY <2>1
  <2> HIDE DEF y, V
  <2>4. y + V = V * (i + 1) /\ y \in Nat
    BY <2>1, <2>3
  <2> DEFINE t == V * (i + 1)
  <2>5. t = y + V /\ t <= L /\ (c.magic => t <= NLAT_2(c)) /\ t \in Nat
    BY <2>1, <2>4
  <2> HIDE DEF t
  <2> QED BY <2>1, <2>2, <2>4, <2>5
<1>2. /\ S \subseteq Int
      /\ \A d \in Int :
           /\ Packed(c) /\ ~c.magic => (d \in S <=> d \in y..(y + V - 1) \/ d \in (L - y - V)..(L - y - 1))
           /\ Packed(c) /\ c.magic => (d \in S <=> d \in (2 * y)..(2 * y + 2 * V - 1))
           /\ ~Packed(c) /\ ~c.magic => (d \in S <=> \/ d \in (2 * y)..(2 * y + 2 * V - 1)
                                                     \/ d \in (2 * (L - y - V))..(2 * (L - y) - 1))
           /\ ~Packed(c) /\ c.magic => (d \in S <=> d \in (4 * y)..(4 * y + 4 * V - 1))
  BY SpanIs
<1>3. RowLen(c) = (IF Packed(c) THEN L ELSE 2 * L) /\ (c.magic => L % 2 = 0)
  BY DEF RowLen
<1>4. B = {d \in 0..(RowLen(c) - 1) : Lat(c, d) \in y..(y + V - 1) \/ L - 1 - Lat(c, d) \in y..(y + V - 1)}
  <2> HIDE DEF y, V
  <2>1. B = {d \in 0..(RowLen(c) - 1) : Within(c, Lat(c, d), y, y + V)}
    BY DEF Band
  <2> HIDE DEF B, L
  <2>2. \A d \in 0..(RowLen(c) - 1) : Lat(c, d) \in Int
    BY LatFacts
  <2>3. \A d \in 0..(RowLen(c) - 1) : Within(c, Lat(c, d), y, y + V) <=> Lat(c, d) \in y..(y + V - 1) \/ L - 1 - Lat(c, d) \in y..(y + V - 1)
    BY <1>1, <2>2 DEF Within, L
  <2> QED BY <2>1, <2>3
<1> HIDE DEF y, V, S, B
<1>5. \A d \in S : d \in 0..(RowLen(c) - 1)
  <2> HIDE DEF L
  <2>1. CASE Packed(c)
    BY <1>1, <1>2, <1>3, <2>1, CallFacts
  <2>2. CASE ~Packed(c)
    BY <1>1, <1>2, <1>3, <2>2, CallFacts
  <2> QED BY <2>1, <2>2
<1>6. ASSUME NEW d \in 0..(RowLen(c) - 1)
      PROVE  d \in S <=> Lat(c, d) \in y..(y + V - 1) \/ L - 1 - Lat(c, d) \in y..(y + V - 1)
  <2> DEFINE x == Lat(c, d)
  <2>1. /\ d \in Nat /\ x \in Nat /\ x < L
        /\ Packed(c) /\ ~c.magic => x = d
        /\ ~Packed(c) /\ ~c.magic => x = d \div 2
        /\ Packed(c) /\ c.magic => IF d % 2 = 0 THEN x = d \div 2 ELSE x = L - 1 - d \div 2
        /\ ~Packed(c) /\ c.magic => IF (d \div 2) % 2 = 0 THEN x = d \div 4 ELSE x = L - 1 - d \div 4
    BY LatFacts
  <2>2. d < (IF Packed(c) THEN L ELSE 2 * L)
    BY <1>1, <1>3, <2>1
  <2> HIDE DEF x, L
  <2>3. CASE Packed(c) /\ ~c.magic
    BY <1>1, <1>2, <2>1, <2>3 DEF x
  <2>4. CASE Packed(c) /\ c.magic
    <3>1. (d \in S <=> d \in (2 * y)..(2 * y + 2 * V - 1)) /\ d < L /\ 2 * (y + V) <= L /\ L % 2 = 0
      BY <1>1, <1>2, <1>3, <2>1, <2>2, <2>4
    <3>2. x = d \div 2 \/ x = L - 1 - d \div 2
      BY <2>1, <2>4
    <3> QED BY <1>1, <2>1, <3>1, <3>2 DEF x
  <2>5. CASE ~Packed(c) /\ ~c.magic
    <3>1. (d \in S <=> d \in (2 * y)..(2 * y + 2 * V - 1) \/ d \in (2 * (L - y - V))..(2 * (L - y) - 1)) /\ x = d \div 2
      BY <1>2, <2>1, <2>5
    <3> QED BY <1>1, <2>1, <3>1 DEF x
  <2>6. CASE ~Packed(c) /\ c.magic
    <3>1. (d \in S <=> d \in (4 * y)..(4 * y + 4 * V - 1)) /\ d < 2 * L /\ 2 * (y + V) <= L /\ L % 2 = 0
      BY <1>1, <1>2, <1>3, <2>1, <2>2, <2>6
    <3>2. x = d \div 4 \/ x = L - 1 - d \div 4
      BY <2>1, <2>6
    <3> QED BY <1>1, <2>1, <3>1, <3>2 DEF x
  <2> QED BY <2>3, <2>4, <2>5, <2>6, CallFacts DEF x, L
<1> HIDE DEF L
<1>7. \A d : d \in S <=> d \in B
  BY <1>4, <1>5, <1>6
<1> QED BY <1>7 DEF S, B, y, V

(* In both rows. *)
LEMMA TouchedIsBand ==
  ASSUME NEW c \in Calls, c.magic => c.nlat % 2 = 0, NEW i, BlockOK(c, i)
  PROVE  Touched(c, i) = Both(c, Band(c, Base(c, i), Base(c, i) + VSIZE2(c)))
BY SpanIsBand DEF Touched, Both

(* Bands one after another. *)
LEMMA BandJoin ==
  ASSUME NEW c \in Calls, NEW u \in Nat, NEW v \in Nat, NEW w \in Nat, u <= v, v <= w
  PROVE  Join(Both(c, Band(c, v, w)), Both(c, Band(c, u, v))) = Both(c, Band(c, u, w))
<1>1. \A d \in 0..(RowLen(c) - 1) : Within(c, Lat(c, d), u, w) <=> Within(c, Lat(c, d), u, v) \/ Within(c, Lat(c, d), v, w)
  <2> TAKE d \in 0..(RowLen(c) - 1)
  <2> DEFINE x == Lat(c, d)
             z == c.nlat - 1 - x
  <2>1. x \in Int /\ z \in Int
    BY LatFacts
  <2> HIDE DEF x, z
  <2> QED BY <2>1 DEF Within, x, z
<1>2. Band(c, u, w) = Band(c, u, v) \cup Band(c, v, w)
  BY <1>1 DEF Band
<1> HIDE DEF Within
<1> QED BY <1>2 DEF Join, Both

-----------------------------------------------------------------------------
(* Blocks of latitudes.                                                    *)

(* The number of vectors in a block. *)
LEMMA WayFacts ==
  ASSUME NEW c \in Calls
  PROVE  /\ VSIZE2(c) * c.nway <= NLAT_2(c)
         /\ c.magic /\ (c.simd = "scalar" => c.nlat % 2 = 0) => VSIZE2(c) * Blocks(c) = NLAT_2(c) /\ c.nlat = 2 * NLAT_2(c)
         /\ 2 * NLAT_2(c) <= c.nlat + 1
<1> DEFINE V == VSIZE2(c)
           n == NLAT_2(c)
           w == c.nway
           q == n \div V
<1>1. V \in {1, 2, 4, 8} /\ n \in Nat /\ w \in Nat /\ w <= MaxWay(c) /\ c.nlat \in Nat
  BY SizeFacts, CallFacts DEF CallExists
<1>2. q \in Nat /\ MaxWay(c) \in Nat /\ MaxWay(c) <= q
  <2>1. q \in Nat
    BY <1>1
  <2>2. MaxWay(c) = CASE q <= 3 -> q [] q \in 4..5 -> 4 [] q \in 6..7 -> 6 [] q >= 8 -> 8
    BY DEF MaxWay
  <2> HIDE DEF q
  <2>3. CASE q <= 3
    <3>1. ~(q \in 4..5) /\ ~(q \in 6..7) /\ ~(q >= 8)
      BY <2>1, <2>3
    <3> QED BY <2>1, <2>2, <2>3, <3>1
  <2>4. CASE q \in 4..5
    <3>1. ~(q <= 3) /\ ~(q \in 6..7) /\ ~(q >= 8)
      BY <2>1, <2>4
    <3> QED BY <2>1, <2>2, <2>4, <3>1
  <2>5. CASE q \in 6..7
    <3>1. ~(q <= 3) /\ ~(q \in 4..5) /\ ~(q >= 8)
      BY <2>1, <2>5
    <3> QED BY <2>1, <2>2, <2>5, <3>1
  <2>6. CASE q >= 8
    <3>1. ~(q <= 3) /\ ~(q \in 4..5) /\ ~(q \in 6..7)
      BY <2>1, <2>6
    <3> QED BY <2>1, <2>2, <2>6, <3>1
  <2> QED BY <2>1, <2>3, <2>4, <2>5, <2>6
<1>3. 2 * n <= c.nlat + 1 /\ (c.nlat % 2 = 0 => c.nlat = 2 * n)
  <2> DEFINE L == c.nlat
  <2>1. L \in Nat /\ n = (L + 1) \div 2
    BY <1>1 DEF NLAT_2
  <2> HIDE DEF L, n
  <2>2. 2 * n <= L + 1 /\ (L % 2 = 0 => L = 2 * n)
    BY <2>1
  <2> QED BY <2>2 DEF L
<1>4. ASSUME c.magic, c.simd = "scalar" => c.nlat % 2 = 0
      PROVE  n % V = 0 /\ c.nlat % 2 = 0
  <2> DEFINE L == c.nlat
  <2>1. CASE c.simd = "scalar"
    <3>1. V = 1
      BY <2>1 DEF VSIZE2
    <3> QED BY <1>1, <1>4, <2>1, <3>1
  <2>2. CASE c.simd # "scalar"
    <3>1. L % (2 * V) = 0
      BY <1>4, <2>2, CallFacts DEF CallExists, GridAccepted
    <3>2. n = (L + 1) \div 2 /\ L \in Nat
      BY <1>1 DEF NLAT_2
    <3> HIDE DEF V, n, L
    <3>3. n % V = 0 /\ L % 2 = 0
      <4>1. CASE V = 1
        BY <3>1, <3>2, <4>1
      <4>2. CASE V = 2
        BY <3>1, <3>2, <4>2
      <4>3. CASE V = 4
        BY <3>1, <3>2, <4>3
      <4>4. CASE V = 8
        BY <3>1, <3>2, <4>4
      <4> QED BY <1>1, <4>1, <4>2, <4>3, <4>4
    <3> QED BY <3>3 DEF L
  <2> QED BY <2>1, <2>2
<1>5. Blocks(c) = (n + V - 1) \div V
  BY DEF Blocks
<1> HIDE DEF n, V, w
<1>6. V * w <= n /\ (n % V = 0 => V * ((n + V - 1) \div V) = n)
  <2>1. w <= q
    BY <1>1, <1>2
  <2>2. CASE V = 1
    BY <1>1, <2>1, <2>2
  <2>3. CASE V = 2
    BY <1>1, <2>1, <2>3
  <2>4. CASE V = 4
    BY <1>1, <2>1, <2>4
  <2>5. CASE V = 8
    BY <1>1, <2>1, <2>5
  <2> QED BY <1>1, <2>2, <2>3, <2>4, <2>5
<1> QED BY <1>3, <1>4, <1>5, <1>6 DEF V, n, w

(* The blocks taken at a time; with SHTNS4MAGIC those past the equator are left out. *)
Indices(c, x) == {j \in x..(x + c.nway - 1) : c.magic => j < Blocks(c)}
End(c, x) == IF c.magic /\ x > Blocks(c) THEN Blocks(c) ELSE x

(* Blocks can be stored, the ones which run over the equator too. *)
LEMMA BlocksStored ==
  ASSUME NEW c \in Calls, c.simd = "scalar" /\ c.magic => c.nlat % 2 = 0, NEW x \in Nat, x < Blocks(c)
  PROVE  /\ \A j \in Indices(c, x) : BlockOK(c, j)
         /\ End(c, x + c.nway) \in Nat /\ x < End(c, x + c.nway)
         /\ VSIZE2(c) * End(c, x + c.nway) <= c.nlat
         /\ c.magic => VSIZE2(c) * End(c, x + c.nway) <= NLAT_2(c)
<1> DEFINE V == VSIZE2(c)
           n == NLAT_2(c)
           w == c.nway
           B == Blocks(c)
           L == c.nlat
           e == End(c, x + w)
<1>1. /\ V \in {1, 2, 4, 8} /\ n \in Nat /\ w \in Nat \ {0} /\ B \in Nat /\ L \in Nat /\ (B - 1) * V < n
      /\ V * w <= n /\ 2 * n <= L + 1 /\ (c.magic => V * B = n /\ L = 2 * n)
  BY SizeFacts, CallFacts, WayFacts
<1>2. e = IF c.magic /\ x + w > B THEN B ELSE x + w
  BY DEF End
<1>3. \A j : j \in Indices(c, x) <=> j \in x..(x + w - 1) /\ (c.magic => j < B)
  BY DEF Indices
<1> HIDE DEF V, n, w, B, L, e
<1>4. \A j \in Nat : j <= B - 1 + w => V * j <= L
  <2>1. CASE V = 1
    BY <1>1, <2>1
  <2>2. CASE V = 2
    BY <1>1, <2>2
  <2>3. CASE V = 4
    BY <1>1, <2>3
  <2>4. CASE V = 8
    BY <1>1, <2>4
  <2> QED BY <1>1, <2>1, <2>2, <2>3, <2>4
<1>5. ASSUME c.magic PROVE \A j \in Nat : j <= B => V * j <= n
  <2>1. CASE V = 1
    BY <1>1, <1>5, <2>1
  <2>2. CASE V = 2
    BY <1>1, <1>5, <2>2
  <2>3. CASE V = 4
    BY <1>1, <1>5, <2>3
  <2>4. CASE V = 8
    BY <1>1, <1>5, <2>4
  <2> QED BY <1>1, <2>1, <2>2, <2>3, <2>4
<1>6. e \in Nat /\ x < e /\ e <= B - 1 + w /\ (c.magic => e <= B)
  BY <1>1, <1>2 DEF B
<1>7. V * e <= L /\ (c.magic => V * e <= n)
  BY <1>4, <1>5, <1>6
<1>8. ASSUME NEW j \in Indices(c, x) PROVE j \in Nat /\ V * (j + 1) <= L /\ (c.magic => V * (j + 1) <= n)
  <2> DEFINE t == j + 1
  <2>1. j \in Nat /\ t \in Nat /\ t <= B - 1 + w /\ (c.magic => t <= B)
    BY <1>1, <1>3, <1>8 DEF B
  <2> HIDE DEF t
  <2>2. V * t <= L /\ (c.magic => V * t <= n)
    BY <1>4, <1>5, <2>1
  <2> QED BY <2>1, <2>2 DEF t
<1> QED BY <1>6, <1>7, <1>8 DEF BlockOK, V, n, w, B, L, e

(* Each latitude is in one of the blocks. *)
LEMMA BlockOf ==
  ASSUME NEW v \in {1, 2, 4, 8}, NEW x \in Nat, NEW e \in Nat, NEW y \in Int
  PROVE  /\ y \in (v * x)..(v * e - 1) => \E j \in x..(e - 1) : y \in (v * j)..(v * j + v - 1)
         /\ \A j \in x..(e - 1) : y \in (v * j)..(v * j + v - 1) => y \in (v * x)..(v * e - 1)
<1>1. ASSUME y \in (v * x)..(v * e - 1) PROVE \E j \in x..(e - 1) : y \in (v * j)..(v * j + v - 1)
  <2> DEFINE j == y \div v
  <2>1. j \in x..(e - 1) /\ y \in (v * j)..(v * j + v - 1)
    <3>1. CASE v = 1
      BY <1>1, <3>1
    <3>2. CASE v = 2
      BY <1>1, <3>2
    <3>3. CASE v = 4
      BY <1>1, <3>3
    <3>4. CASE v = 8
      BY <1>1, <3>4
    <3> QED BY <3>1, <3>2, <3>3, <3>4
  <2> QED BY <2>1
<1>2. \A j \in x..(e - 1) : y \in (v * j)..(v * j + v - 1) => y \in (v * x)..(v * e - 1)
  <2>1. CASE v = 1
    BY <2>1
  <2>2. CASE v = 2
    BY <2>2
  <2>3. CASE v = 4
    BY <2>3
  <2>4. CASE v = 8
    BY <2>4
  <2> QED BY <2>1, <2>2, <2>3, <2>4
<1> QED BY <1>1, <1>2

(* Together they are a band. *)
LEMMA BlocksBand ==
  ASSUME NEW c \in Calls, NEW x \in Nat, NEW e \in Nat
  PROVE  \A d \in 0..(RowLen(c) - 1) : d \in Band(c, VSIZE2(c) * x, VSIZE2(c) * e)
                                       <=> \E j \in x..(e - 1) : d \in Band(c, Base(c, j), Base(c, j) + VSIZE2(c))
<1> TAKE d \in 0..(RowLen(c) - 1)
<1> DEFINE V == VSIZE2(c)
           y == Lat(c, d)
           z == c.nlat - 1 - Lat(c, d)
<1>1. V \in {1, 2, 4, 8} /\ y \in Int /\ z \in Int
  BY SizeFacts, LatFacts
<1>2. \A u, v : d \in Band(c, u, v) <=> y \in u..(v - 1) \/ z \in u..(v - 1)
  BY DEF Band, Within
<1>3. \A j : Base(c, j) = V * j
  BY DEF Base
<1> HIDE DEF V, y, z
<1>4. /\ y \in (V * x)..(V * e - 1) <=> \E j \in x..(e - 1) : y \in (V * j)..(V * j + V - 1)
      /\ z \in (V * x)..(V * e - 1) <=> \E j \in x..(e - 1) : z \in (V * j)..(V * j + V - 1)
  BY <1>1, BlockOf
<1>5. \A j \in x..(e - 1) : d \in Band(c, Base(c, j), Base(c, j) + V) <=> y \in (V * j)..(V * j + V - 1) \/ z \in (V * j)..(V * j + V - 1)
  <2> TAKE j \in x..(e - 1)
  <2> DEFINE u == V * j
  <2>1. u \in Int
    BY <1>1
  <2> HIDE DEF u
  <2>2. d \in Band(c, u, u + V) <=> y \in u..(u + V - 1) \/ z \in u..(u + V - 1)
    BY <1>1, <1>2, <2>1
  <2> QED BY <1>3, <2>2 DEF u
<1>6. d \in Band(c, V * x, V * e) <=> y \in (V * x)..(V * e - 1) \/ z \in (V * x)..(V * e - 1)
  BY <1>2
<1>7. d \in Band(c, V * x, V * e) <=> \E j \in x..(e - 1) : d \in Band(c, Base(c, j), Base(c, j) + V)
  BY <1>4, <1>5, <1>6
<1> QED BY <1>7 DEF V

(* The macros of the blocks taken at a time touch a band and its mirror images. *)
LEMMA BlocksTouch ==
  ASSUME NEW c \in Calls, StoresWell(c), NEW x \in Nat, x < Blocks(c)
  PROVE  UNION {Touched(c, j) : j \in Indices(c, x)}
           = Both(c, Band(c, VSIZE2(c) * x, VSIZE2(c) * End(c, x + c.nway)))
<1> DEFINE V == VSIZE2(c)
           e == End(c, x + c.nway)
           one(j) == Band(c, Base(c, j), Base(c, j) + V)
           all == Band(c, V * x, V * e)
           I == Indices(c, x)
<1>1. (c.simd = "scalar" /\ c.magic => c.nlat % 2 = 0) /\ (c.magic => c.nlat % 2 = 0)
  BY CallFacts, LayoutFacts DEF StoresWell
<1>2. (\A j \in I : BlockOK(c, j)) /\ e \in Nat /\ x < e
  BY <1>1, BlocksStored
<1>3. I = x..(e - 1)
  <2>1. c.nway \in Nat \ {0} /\ Blocks(c) \in Nat
    BY CallFacts, SizeFacts
  <2>2. e = IF c.magic /\ x + c.nway > Blocks(c) THEN Blocks(c) ELSE x + c.nway
    BY DEF End
  <2> QED BY <2>1, <2>2 DEF Indices
<1>4. \A j \in I : Touched(c, j) = Both(c, one(j))
  BY <1>1, <1>2, TouchedIsBand
<1>5. \A d \in 0..(RowLen(c) - 1) : d \in all <=> \E j \in I : d \in one(j)
  BY <1>2, <1>3, BlocksBand
<1>6. all \subseteq 0..(RowLen(c) - 1) /\ \A j \in I : one(j) \subseteq 0..(RowLen(c) - 1)
  BY DEF Band
<1> HIDE DEF one, all, I, e
<1>7. all = UNION {one(j) : j \in I}
  BY <1>5, <1>6
<1>8. UNION {Both(c, one(j)) : j \in I} = Both(c, UNION {one(j) : j \in I})
  <2> DEFINE H == HasMirror(c)
             sh(S) == {Mirrored(c) + d : d \in S}
             U == UNION {one(j) : j \in I}
  <2>1. \A S : Both(c, S) = S \cup (IF H THEN sh(S) ELSE {})
    BY DEF Both
  <2>2. \A y : y \in sh(U) <=> \E j \in I : y \in sh(one(j))
    OBVIOUS
  <2>3. \A y : y \in U <=> \E j \in I : y \in one(j)
    OBVIOUS
  <2> HIDE DEF H, sh, U
  <2>4. \A y, S : y \in Both(c, S) <=> y \in S \/ (H /\ y \in sh(S))
    BY <2>1
  <2>5. \A y : y \in Both(c, U) <=> \E j \in I : y \in Both(c, one(j))
    BY <2>2, <2>3, <2>4
  <2>6. UNION {Both(c, one(j)) : j \in I} = Both(c, U)
    BY <2>5
  <2> QED BY <2>6 DEF U
<1> QED BY <1>4, <1>7, <1>8 DEF I, all, V, e

(* What is expected, stored in the array. *)
Placed(c, D) == [a \in {RowAt(c) + d : d \in D} |-> Expected(c, a - RowAt(c))]

(* A finite set of integers has a last one. *)
LEMMA GreatestExists ==
  ASSUME NEW S, NEW x \in Int, NEW y \in Int, S \subseteq x..y, S # {}
  PROVE  \E m \in S : \A n \in S : ~(n > m)
<1> DEFINE T == {y - n : n \in S}
<1>1. T \in SUBSET Nat /\ T # {}
  OBVIOUS
<1>2. PICK b \in T : \A n \in T : b <= n
  BY <1>1, LeastExists
<1>3. PICK m \in S : b = y - m
  BY <1>2
<1>4. \A n \in S : y - n \in T /\ n \in Int /\ m \in Int
  OBVIOUS
<1> HIDE DEF T
<1> QED BY <1>2, <1>3, <1>4

(* The stores of blocks, in turn. *)
Overlaid(c, idxs) ==
  LET written == [j \in idxs |-> Writes(c, j)]
      at == UNION {DOMAIN written[j] : j \in idxs}
      last(a) == CHOOSE j \in idxs : a \in DOMAIN written[j]
                                     /\ \A i \in idxs : i > j => a \notin DOMAIN written[i]
  IN  [a \in {RowAt(c) + d : d \in at} |-> LET d == a - RowAt(c) IN written[last(d)][d]]

(* The blocks taken at a time leave there what is expected, where they overlap too. *)
LEMMA BlocksRight ==
  ASSUME NEW c \in Calls, StoresWell(c), c.kernel = "fly", NEW x \in Nat, x < Blocks(c)
  PROVE  Overlaid(c, Indices(c, x)) = Placed(c, Both(c, Band(c, VSIZE2(c) * x, VSIZE2(c) * End(c, x + c.nway))))
<1> DEFINE idxs == Indices(c, x)
           written == [j \in idxs |-> Writes(c, j)]
           at == UNION {DOMAIN written[j] : j \in idxs}
           last(a) == CHOOSE j \in idxs : a \in DOMAIN written[j]
                                          /\ \A i \in idxs : i > j => a \notin DOMAIN written[i]
           D == Both(c, Band(c, VSIZE2(c) * x, VSIZE2(c) * End(c, x + c.nway)))
<1>1. \A j \in idxs : BlockOK(c, j)
  <2>1. c.simd = "scalar" /\ c.magic => c.nlat % 2 = 0
    BY CallFacts DEF StoresWell
  <2> QED BY <2>1, BlocksStored
<1>2. \A j \in idxs : written[j] = Fill(c, Touched(c, j)) /\ Touched(c, j) \subseteq Int
  BY <1>1, WritesRight, TouchedIs
<1>3. idxs \subseteq x..(x + c.nway - 1) /\ x + c.nway - 1 \in Int
  BY CallFacts DEF Indices
<1> HIDE DEF idxs, written
<1>4. \A j \in idxs : /\ DOMAIN written[j] = Touched(c, j)
                      /\ \A d \in Touched(c, j) : written[j][d] = Expected(c, d)
  BY <1>2 DEF Fill
<1>5. at = D
  <2>1. at = UNION {Touched(c, j) : j \in idxs}
    BY <1>4
  <2> QED BY <2>1, BlocksTouch DEF idxs
<1>6. at \subseteq Int /\ RowAt(c) \in Int
  <2>1. at \subseteq Int
    BY <1>2, <1>4
  <2>2. RowLen(c) \in Nat /\ c.im \in Nat
    BY CallFacts DEF RowLen
  <2>3. RowAt(c) \in Int
    BY <2>2 DEF RowAt
  <2> QED BY <2>1, <2>3
<1>7. \A d \in at : written[last(d)][d] = Expected(c, d)
  <2> TAKE d \in at
  <2> DEFINE S == {j \in idxs : d \in DOMAIN written[j]}
  <2>1. S # {} /\ S \subseteq x..(x + c.nway - 1)
    BY <1>3
  <2>2. \E m \in S : \A i \in S : ~(i > m)
    <3> DEFINE y == x + c.nway - 1
    <3>1. S # {} /\ S \subseteq x..y /\ x \in Int /\ y \in Int
      BY <1>3, <2>1
    <3> HIDE DEF S, y
    <3> QED BY <3>1, GreatestExists
  <2>3. \E j \in idxs : d \in DOMAIN written[j] /\ \A i \in idxs : i > j => d \notin DOMAIN written[i]
    BY <2>2
  <2>4. last(d) \in idxs /\ d \in DOMAIN written[last(d)]
    BY <2>3
  <2> HIDE DEF last
  <2> QED BY <1>4, <2>4
<1> HIDE DEF at, last, D
<1>8. \A a \in {RowAt(c) + d : d \in at} : a - RowAt(c) \in at
  <2> TAKE a \in {RowAt(c) + d : d \in at}
  <2>1. PICK d \in at : a = RowAt(c) + d
    OBVIOUS
  <2>2. a - RowAt(c) = d
    BY <1>6, <2>1
  <2> QED BY <2>2
<1>9. [a \in {RowAt(c) + d : d \in at} |-> written[last(a - RowAt(c))][a - RowAt(c)]] = Placed(c, D)
  BY <1>5, <1>7, <1>8 DEF Placed
<1>10. Overlaid(c, idxs) = [a \in {RowAt(c) + d : d \in at} |-> written[last(a - RowAt(c))][a - RowAt(c)]]
  BY DEF Overlaid, written, at, last
<1> QED BY <1>9, <1>10 DEF idxs, D

-----------------------------------------------------------------------------
(* The array.                                                              *)

(* Zeros stored in the array; what the array holds when the latitudes from u to v - 1 have been
   stored, and those before z cleared. *)
Zeros(c, D) == [a \in {RowAt(c) + d : d \in D} |-> Zero]
Filled(c, u, v, z) == Placed(c, Both(c, Band(c, u, v))) ## Zeros(c, Both(c, Band(c, 0, z)))

(* Stores one after another. *)
LEMMA StoreAssociative ==
  ASSUME NEW u, NEW v, NEW w
  PROVE  u ## (v ## w) = (u ## v) ## w
<1> DEFINE A == DOMAIN u
           B == DOMAIN v
           C == DOMAIN w
           l == u ## (v ## w)
           r == (u ## v) ## w
<1>1. v ## w = [d \in B \cup C |-> IF d \in B THEN v[d] ELSE w[d]]
  BY DEF ##
<1>2. u ## v = [d \in A \cup B |-> IF d \in A THEN u[d] ELSE v[d]]
  BY DEF ##
<1>3. l = [d \in A \cup (B \cup C) |-> IF d \in A THEN u[d] ELSE (v ## w)[d]]
  BY <1>1 DEF ##
<1>4. r = [d \in (A \cup B) \cup C |-> IF d \in A \cup B THEN (u ## v)[d] ELSE w[d]]
  BY <1>2 DEF ##
<1> HIDE DEF A, B, C, l, r
<1>5. l = [d \in A \cup B \cup C |-> IF d \in A THEN u[d] ELSE IF d \in B THEN v[d] ELSE w[d]]
  BY <1>1, <1>3
<1>6. r = [d \in A \cup B \cup C |-> IF d \in A THEN u[d] ELSE IF d \in B THEN v[d] ELSE w[d]]
  BY <1>2, <1>4
<1> QED BY <1>5, <1>6 DEF l, r

(* What is expected stored over what is expected. *)
LEMMA PlacedOver ==
  ASSUME NEW c, NEW D, NEW E
  PROVE  Placed(c, D) ## Placed(c, E) = Placed(c, Join(D, E))
<1>1. {RowAt(c) + d : d \in Join(D, E)} = {RowAt(c) + d : d \in D} \cup {RowAt(c) + d : d \in E}
  BY DEF Join
<1> QED BY <1>1 DEF Placed, ##

(* The row of the order starts at an integer. *)
LEMMA RowAtInt ==
  ASSUME NEW c \in Calls
  PROVE  RowAt(c) \in Nat /\ (c.im = 0 => RowAt(c) = 0)
<1>1. RowLen(c) \in Nat /\ c.im \in Nat
  BY CallFacts DEF RowLen
<1>2. (c.im = 0 => c.im * RowLen(c) = 0) /\ c.im * RowLen(c) \in Nat
  BY <1>1
<1> QED BY <1>2 DEF RowAt

(* What is expected, stored cell by cell. *)
LEMMA CellFills ==
  ASSUME NEW c \in Calls, NEW j \in Nat, 2 * j + 1 < RowLen(c), NEW re, NEW im,
         re = Near(c, 2 * j), im = Near(c, 2 * j + 1)
  PROVE  Cell(j, re, im) = Fill(c, {2 * j, 2 * j + 1})
<1> DEFINE d == 2 * j
           e == 2 * j + 1
           v == [h \in {0, 1} |-> IF h = 0 THEN re ELSE im]
<1>1. d \in Nat /\ e = d + 1 /\ RowLen(c) \in Nat /\ e < RowLen(c)
  BY CallFacts DEF RowLen
<1>2. re = Near(c, d) /\ im = Near(c, e)
  OBVIOUS
<1> HIDE DEF d, e
<1>3. Cell(j, re, im) = [a \in {d + h : h \in {0, 1}} |-> v[a - d]]
  BY DEF Cell, Put, d
<1>4. {d + h : h \in {0, 1}} = {d, e}
  BY <1>1
<1>5. v[d - d] = re /\ v[e - d] = im
  <2>1. d - d = 0 /\ e - d = 1
    BY <1>1
  <2> QED BY <2>1
<1>6. Expected(c, d) = re /\ Expected(c, e) = im
  BY <1>1, <1>2 DEF Expected
<1> QED BY <1>3, <1>4, <1>5, <1>6 DEF Fill, d, e

(* The same in the mirror row. *)
LEMMA CellFillsFar ==
  ASSUME NEW c \in Calls, Packed(c), NEW j \in Nat, NEW re, NEW im,
         re = Far(c, 2 * j), im = Far(c, 2 * j + 1)
  PROVE  Cell(j, re, im) = [d \in {2 * j, 2 * j + 1} |-> Expected(c, Mirrored(c) + d)]
<1> DEFINE d == 2 * j
           e == 2 * j + 1
           v == [h \in {0, 1} |-> IF h = 0 THEN re ELSE im]
           M == Mirrored(c)
<1>1. d \in Nat /\ e = d + 1 /\ RowLen(c) \in Nat /\ M \in Nat /\ M >= RowLen(c)
  BY CallFacts, LayoutFacts
<1>2. re = Far(c, d) /\ im = Far(c, e)
  OBVIOUS
<1> HIDE DEF d, e
<1>3. Cell(j, re, im) = [a \in {d + h : h \in {0, 1}} |-> v[a - d]]
  BY DEF Cell, Put, d
<1>4. {d + h : h \in {0, 1}} = {d, e}
  BY <1>1
<1>5. v[d - d] = re /\ v[e - d] = im
  <2>1. d - d = 0 /\ e - d = 1
    BY <1>1
  <2> QED BY <2>1
<1> HIDE DEF M
<1>6. Expected(c, M + d) = re /\ Expected(c, M + e) = im
  <2>1. ~(M + d < RowLen(c)) /\ ~(M + e < RowLen(c)) /\ (M + d) - M = d /\ (M + e) - M = e
    BY <1>1
  <2>2. Expected(c, M + d) = Far(c, (M + d) - M) /\ Expected(c, M + e) = Far(c, (M + e) - M)
    BY <2>1 DEF Expected, M
  <2> QED BY <1>2, <2>1, <2>2
<1> QED BY <1>3, <1>4, <1>5, <1>6 DEF d, e, M

(* A store moved to the rows. *)
LEMMA ShiftPlaces ==
  ASSUME NEW c \in Calls, NEW D, D \subseteq Int
  PROVE  /\ Shift(Fill(c, D), RowAt(c)) = Placed(c, D)
         /\ c.im = 0 => Fill(c, D) = Placed(c, D)
         /\ \A M \in Int : Shift([d \in D |-> Expected(c, M + d)], RowAt(c) + M) = Placed(c, {M + d : d \in D})
<1> DEFINE R == RowAt(c)
           E(a) == Expected(c, a)
<1>1. R \in Int /\ (c.im = 0 => R = 0)
  BY RowAtInt
<1> HIDE DEF R
<1>2. \A M \in Int : Placed(c, {M + d : d \in D}) = [a \in {(R + M) + d : d \in D} |-> E(a - R)]
  <2> TAKE M \in Int
  <2>1. {R + d : d \in {M + x : x \in D}} = {(R + M) + d : d \in D}
    <3> DEFINE S == {M + x : x \in D}
               f(x) == R + (M + x)
               g(x) == (R + M) + x
    <3>1. {R + d : d \in S} = {f(x) : x \in D}
      OBVIOUS
    <3>2. \A x \in D : f(x) = g(x)
      BY <1>1
    <3> HIDE DEF f, g
    <3>3. {f(x) : x \in D} = {g(x) : x \in D}
      BY <3>2
    <3> QED BY <3>1, <3>3 DEF g
  <2> QED BY <2>1 DEF Placed, R
<1>3. \A M \in Int : Shift([d \in D |-> Expected(c, M + d)], R + M) = [a \in {(R + M) + d : d \in D} |-> E(a - R)]
  <2> TAKE M \in Int
  <2> DEFINE S == {x + (R + M) : x \in D}
             w == [d \in D |-> Expected(c, M + d)]
  <2>1. S = {(R + M) + d : d \in D}
    <3> DEFINE f(x) == x + (R + M)
               g(x) == (R + M) + x
    <3>1. \A x \in D : f(x) = g(x)
      BY <1>1
    <3> HIDE DEF f, g
    <3>2. {f(x) : x \in D} = {g(x) : x \in D}
      BY <3>1
    <3> QED BY <3>2 DEF f, g
  <2>2. Shift(w, R + M) = [a \in S |-> w[a - (R + M)]]
    BY DEF Shift
  <2>3. \A a \in S : a - (R + M) \in D /\ M + (a - (R + M)) = a - R
    BY <1>1
  <2> HIDE DEF S
  <2>4. \A a \in S : w[a - (R + M)] = E(a - R)
    BY <2>3
  <2> QED BY <2>1, <2>2, <2>4
<1>4. Shift(Fill(c, D), R) = Placed(c, D)
  <2> DEFINE S == {x + R : x \in D}
             w == Fill(c, D)
  <2>1. S = {R + d : d \in D}
    BY <1>1
  <2>2. DOMAIN w = D /\ \A d \in D : w[d] = E(d)
    BY DEF Fill
  <2>3. Shift(w, R) = [a \in S |-> w[a - R]]
    BY <2>2 DEF Shift
  <2>4. \A a \in S : a - R \in D
    BY <1>1
  <2> HIDE DEF S, w
  <2>5. Shift(w, R) = [a \in S |-> E(a - R)]
    BY <2>2, <2>3, <2>4
  <2> QED BY <2>1, <2>5 DEF Placed, R, w
<1>5. c.im = 0 => Fill(c, D) = Placed(c, D)
  <2> SUFFICES ASSUME c.im = 0 PROVE Fill(c, D) = Placed(c, D)
    OBVIOUS
  <2>1. {R + d : d \in D} = D /\ \A d \in D : d - R = d
    <3> DEFINE f(d) == R + d
    <3>1. \A d \in D : f(d) = d /\ d - R = d
      BY <1>1
    <3> HIDE DEF f
    <3>2. {f(d) : d \in D} = D
      BY <3>1
    <3> QED BY <3>1, <3>2 DEF f
  <2>2. Placed(c, D) = [a \in {R + d : d \in D} |-> E(a - R)]
    BY DEF Placed, R
  <2> QED BY <2>1, <2>2 DEF Fill
<1> QED BY <1>2, <1>3, <1>4, <1>5 DEF R

(* Stores of what is expected, side by side. *)
LEMMA MergePlaces ==
  ASSUME NEW c, NEW X
  PROVE  Merge({Placed(c, D) : D \in X}) = Placed(c, UNION X)
<1> DEFINE W == {Placed(c, D) : D \in X}
           at(D) == {RowAt(c) + d : d \in D}
           all == UNION {DOMAIN w : w \in W}
<1>1. \A D : DOMAIN Placed(c, D) = at(D) /\ \A a \in at(D) : Placed(c, D)[a] = Expected(c, a - RowAt(c))
  BY DEF Placed
<1>2. \A w \in W : \A a \in DOMAIN w : w[a] = Expected(c, a - RowAt(c))
  BY <1>1
<1>3. all = at(UNION X)
  <2>1. all = UNION {at(D) : D \in X}
    BY <1>1
  <2>2. \A a : a \in at(UNION X) <=> \E D \in X : a \in at(D)
    OBVIOUS
  <2> HIDE DEF all, at
  <2> QED BY <2>1, <2>2
<1>4. Merge(W) = [a \in all |-> (CHOOSE w \in W : a \in DOMAIN w)[a]]
  BY DEF Merge
<1>5. \A a \in all : (CHOOSE w \in W : a \in DOMAIN w)[a] = Expected(c, a - RowAt(c))
  <2> TAKE a \in all
  <2> DEFINE w0 == CHOOSE w \in W : a \in DOMAIN w
  <2>1. \E w \in W : a \in DOMAIN w
    OBVIOUS
  <2>2. w0 \in W /\ a \in DOMAIN w0
    BY <2>1
  <2> QED BY <1>2, <2>2
<1> HIDE DEF W, all, at
<1>6. Merge(W) = [a \in at(UNION X) |-> Expected(c, a - RowAt(c))]
  BY <1>3, <1>4, <1>5
<1> QED BY <1>6 DEF Placed, W, at

(* The latitudes which are cleared. *)
Polar(c) == IF Packed(c) THEN 2 * (c.tm \div 2) ELSE c.tm

(* The first block starts at or before their end, and at even latitudes in the packed layout. *)
LEMMA PolarFacts ==
  ASSUME NEW c \in Calls
  PROVE  /\ Polar(c) \in Nat /\ c.tm \in Nat /\ Polar(c) <= c.tm /\ c.tm < NLAT_2(c)
         /\ Start(c) \in Nat /\ Start(c) < Blocks(c) /\ VSIZE2(c) * Start(c) <= Polar(c)
         /\ Start(c) = c.tm \div VSIZE2(c)
         /\ Packed(c) => Polar(c) % 2 = 0 /\ VSIZE2(c) % 2 = 0
         /\ c.im = 0 => Polar(c) = 0 /\ Start(c) = 0 /\ c.tm = 0
<1> DEFINE V == VSIZE2(c)
           t == c.tm
           s == t \div V
           P == Polar(c)
<1>1. V \in {1, 2, 4, 8} /\ t \in Nat /\ t < NLAT_2(c) /\ (c.im = 0 => t = 0) /\ (Packed(c) => V \in {2, 4, 8})
  BY CallFacts, SizeFacts, LayoutFacts DEF CallExists
<1>2. P = IF Packed(c) THEN 2 * (t \div 2) ELSE t
  BY DEF Polar
<1>3. Start(c) = s
  <2>1. 0 \div V = 0
    BY <1>1
  <2> QED BY <1>1, <2>1 DEF Start
<1>4. Start(c) \in Nat /\ Start(c) < Blocks(c)
  BY StartFacts
<1> HIDE DEF V, t, P
<1>5. /\ s \in Nat /\ P \in Nat /\ P <= t /\ V * s <= P
      /\ Packed(c) => P % 2 = 0 /\ V % 2 = 0
  <2>1. CASE V = 1
    BY <1>1, <1>2, <2>1
  <2>2. CASE V = 2
    BY <1>1, <1>2, <2>2
  <2>3. CASE V = 4
    BY <1>1, <1>2, <2>3
  <2>4. CASE V = 8
    BY <1>1, <1>2, <2>4
  <2> QED BY <1>1, <2>1, <2>2, <2>3, <2>4
<1>6. c.im = 0 => P = 0 /\ s = 0
  BY <1>1, <1>2
<1> QED BY <1>1, <1>3, <1>4, <1>5, <1>6 DEF V, t, P

(* The doubles of cells. *)
Doubles(C) == {2 * j + h : j \in C, h \in {0, 1}}

(* The cells next to the poles are those of the first latitudes and their mirror images. *)
LEMMA PolarBand ==
  ASSUME NEW c \in Calls, c.magic => c.nlat % 2 = 0, NEW l \in Nat,
         Packed(c) => 2 * l <= NLAT_2(c), ~Packed(c) => l <= NLAT_2(c)
  PROVE  Doubles(PolarCells(c, l, RowLen(c) \div 2)) = Band(c, 0, IF Packed(c) THEN 2 * l ELSE l)
<1> DEFINE L == c.nlat
           n == RowLen(c) \div 2
           C == PolarCells(c, l, n)
           z == IF Packed(c) THEN 2 * l ELSE l
           A == {2 * j + h : j \in C, h \in {0, 1}}
           B == Band(c, 0, z)
<1>1. /\ L \in Nat /\ RowLen(c) = (IF Packed(c) THEN L ELSE 2 * L) /\ (Packed(c) \/ c.magic => L % 2 = 0)
      /\ z \in Nat /\ 2 * z <= L + 1
  <2>1. L \in Nat /\ (Packed(c) => L % 2 = 0)
    BY CallFacts, LayoutFacts
  <2>2. NLAT_2(c) \in Nat /\ 2 * NLAT_2(c) <= L + 1
    BY SizeFacts, WayFacts
  <2> QED BY <2>1, <2>2 DEF RowLen
<1>2. C = IF c.magic THEN 0..(2 * l - 1) ELSE 0..(l - 1) \cup (n - l)..(n - 1)
  BY DEF PolarCells
<1>3. \A d : d \in B <=> d \in 0..(RowLen(c) - 1) /\ (Lat(c, d) \in 0..(z - 1) \/ L - 1 - Lat(c, d) \in 0..(z - 1))
  BY DEF Band, Within
<1> HIDE DEF C, B, L
<1>4. n \in Nat /\ RowLen(c) = 2 * n /\ (Packed(c) => L = 2 * n) /\ (~Packed(c) => L = n)
  BY <1>1
<1> HIDE DEF n
<1>5. C \subseteq Int
  BY <1>2, <1>4
<1>6. \A d : d \in A <=> d \in Int /\ d \div 2 \in C
  <2>1. ASSUME NEW d \in A PROVE d \in Int /\ d \div 2 \in C
    <3>1. PICK j \in C, h \in {0, 1} : d = 2 * j + h
      OBVIOUS
    <3>2. j \in Int /\ h \in Int
      BY <1>5
    <3>3. d \in Int /\ d \div 2 = j
      BY <3>1, <3>2
    <3> QED BY <3>3
  <2>2. ASSUME NEW d \in Int, d \div 2 \in C PROVE d \in A
    <3>1. d = 2 * (d \div 2) + (d % 2) /\ d % 2 \in {0, 1}
      OBVIOUS
    <3> QED BY <2>2, <3>1
  <2> QED BY <2>1, <2>2
<1> HIDE DEF A
<1>7. ASSUME NEW d \in Int
      PROVE  d \in A <=> d \in B
  <2> DEFINE x == Lat(c, d)
             e == d \div 2
  <2>1. e \in Int /\ 2 * e <= d /\ d <= 2 * e + 1
    OBVIOUS
  <2>2. d \in A <=> IF c.magic THEN e \in 0..(2 * l - 1) ELSE e \in 0..(l - 1) \/ e \in (n - l)..(n - 1)
    BY <1>2, <1>6
  <2>3. d \in B <=> d \in 0..(2 * n - 1) /\ (x \in 0..(z - 1) \/ L - 1 - x \in 0..(z - 1))
    BY <1>3, <1>4
  <2>4. d \in 0..(2 * n - 1) =>
          /\ x \in Nat /\ x < L
          /\ Packed(c) /\ ~c.magic => x = d
          /\ ~Packed(c) /\ ~c.magic => x = e
          /\ Packed(c) /\ c.magic => x = e \/ x = L - 1 - e
          /\ ~Packed(c) /\ c.magic => x = e \div 2 \/ x = L - 1 - e \div 2
    <3>1. (d \div 2) \div 2 = d \div 4
      OBVIOUS
    <3> QED BY <1>4, <3>1, LatFacts DEF L
  <2> HIDE DEF x, e
  <2>5. CASE Packed(c) /\ ~c.magic
    <3>1. z = 2 * l /\ L = 2 * n
      BY <1>4, <2>5
    <3> QED BY <1>1, <1>4, <2>1, <2>2, <2>3, <2>4, <2>5, <3>1
  <2>6. CASE Packed(c) /\ c.magic
    <3>1. z = 2 * l /\ L = 2 * n
      BY <1>4, <2>6
    <3>2. d \in A <=> e \in 0..(2 * l - 1)
      BY <2>2, <2>6
    <3>3. d \in 0..(2 * n - 1) => x \in Nat /\ x < L /\ (x = e \/ x = L - 1 - e)
      BY <2>4, <2>6
    <3> QED BY <1>1, <1>4, <2>1, <2>3, <3>1, <3>2, <3>3
  <2>7. CASE ~Packed(c) /\ ~c.magic
    <3>1. z = l /\ L = n
      BY <1>4, <2>7
    <3> QED BY <1>1, <1>4, <2>1, <2>2, <2>3, <2>4, <2>7, <3>1
  <2>8. CASE ~Packed(c) /\ c.magic
    <3> DEFINE f == e \div 2
    <3>1. z = l /\ L = n /\ L % 2 = 0 /\ f \in Int /\ 2 * f <= e /\ e <= 2 * f + 1
      BY <1>1, <1>4, <2>1, <2>8
    <3>2. d \in A <=> e \in 0..(2 * l - 1)
      BY <2>2, <2>8
    <3>3. d \in 0..(2 * n - 1) => x \in Nat /\ x < L /\ (x = f \/ x = L - 1 - f)
      BY <2>4, <2>8
    <3> HIDE DEF f
    <3> QED BY <1>1, <1>4, <2>1, <2>3, <3>1, <3>2, <3>3
  <2> QED BY <2>5, <2>6, <2>7, <2>8, CallFacts
<1>8. A = B
  <2>1. \A d : d \in A => d \in Int
    BY <1>6
  <2>2. \A d : d \in B => d \in Int
    BY <1>3, <1>4
  <2> QED BY <1>7, <2>1, <2>2
<1> QED BY <1>8 DEF A, B, C, n, Doubles

(* They are cleared in both rows. *)
LEMMA PolarZeros ==
  ASSUME NEW c \in Calls, c.magic => c.nlat % 2 = 0, NEW l \in Nat, NEW n, n = RowLen(c) \div 2,
         Packed(c) => 2 * l <= NLAT_2(c) /\ c.im > 0, ~Packed(c) => l <= NLAT_2(c)
  PROVE  ZeroCells(c, PolarCells(c, l, n)) = Zeros(c, Both(c, Band(c, 0, IF Packed(c) THEN 2 * l ELSE l)))
<1> DEFINE z == IF Packed(c) THEN 2 * l ELSE l
           C == PolarCells(c, l, n)
           A == {2 * j + h : j \in C, h \in {0, 1}}
           both == IF Packed(c) THEN A \cup {a + Mirrored(c) : a \in A} ELSE A
<1>1. A = Band(c, 0, z)
  <2>1. Doubles(C) = Band(c, 0, z)
    BY PolarBand
  <2> QED BY <2>1 DEF Doubles
<1>2. HasMirror(c) = Packed(c)
  BY DEF HasMirror, Packed
<1>3. ZeroCells(c, C) = [a \in {RowAt(c) + d : d \in both} |-> Zero]
  BY DEF ZeroCells
<1>4. A \subseteq Int /\ (Packed(c) => Mirrored(c) \in Int)
  <2>1. A \subseteq Int
    BY <1>1, CallFacts DEF Band, RowLen
  <2> QED BY <2>1, LayoutFacts
<1> HIDE DEF A, C, z
<1>5. {a + Mirrored(c) : a \in A} = {Mirrored(c) + a : a \in A} \/ ~Packed(c)
  <2> DEFINE f(a) == a + Mirrored(c)
             g(a) == Mirrored(c) + a
  <2>1. Packed(c) => \A a \in A : f(a) = g(a)
    BY <1>4
  <2> HIDE DEF f, g
  <2>2. Packed(c) => {f(a) : a \in A} = {g(a) : a \in A}
    BY <2>1
  <2> QED BY <2>2 DEF f, g
<1>6. both = Both(c, A)
  BY <1>2, <1>5 DEF Both
<1> QED BY <1>1, <1>3, <1>6 DEF Zeros, C, z

(* No latitude is stored. *)
LEMMA FilledStart ==
  ASSUME NEW c \in Calls, NEW u \in Nat, NEW z
  PROVE  /\ Filled(c, u, u, z) = Zeros(c, Both(c, Band(c, 0, z)))
         /\ Zeros(c, Both(c, Band(c, 0, 0))) = [a \in {} |-> Zero]
<1>1. \A x \in Nat : \A y \in Int : ~(y \in x..(x - 1))
  OBVIOUS
<1>2. \A x \in Nat : Band(c, x, x) = {}
  <2>1. \A d \in 0..(RowLen(c) - 1) : Lat(c, d) \in Int /\ c.nlat - 1 - Lat(c, d) \in Int
    BY LatFacts
  <2> QED BY <1>1, <2>1 DEF Band, Within
<1>3. Both(c, {}) = {}
  BY DEF Both
<1>4. Placed(c, {}) ## Zeros(c, Both(c, Band(c, 0, z))) = Zeros(c, Both(c, Band(c, 0, z)))
  BY DEF Placed, Zeros, ##
<1>5. Zeros(c, {}) = [a \in {} |-> Zero]
  BY DEF Zeros
<1> QED BY <1>2, <1>3, <1>4, <1>5 DEF Filled

(* More latitudes after those which have been stored. *)
LEMMA FilledMore ==
  ASSUME NEW c \in Calls, NEW u \in Nat, NEW v \in Nat, NEW w \in Nat, u <= v, v <= w, NEW z
  PROVE  Placed(c, Both(c, Band(c, v, w))) ## Filled(c, u, v, z) = Filled(c, u, w, z)
<1> DEFINE X == Both(c, Band(c, u, v))
           Y == Both(c, Band(c, v, w))
           Z == Zeros(c, Both(c, Band(c, 0, z)))
<1>1. Join(Y, X) = Both(c, Band(c, u, w))
  BY BandJoin
<1>2. Filled(c, u, v, z) = Placed(c, X) ## Z /\ Filled(c, u, w, z) = Placed(c, Both(c, Band(c, u, w))) ## Z
  BY DEF Filled
<1> HIDE DEF X, Y, Z
<1>3. Placed(c, Y) ## (Placed(c, X) ## Z) = (Placed(c, Y) ## Placed(c, X)) ## Z
  BY StoreAssociative
<1>4. Placed(c, Y) ## Placed(c, X) = Placed(c, Join(Y, X))
  BY PlacedOver
<1> QED BY <1>1, <1>2, <1>3, <1>4 DEF Y

-----------------------------------------------------------------------------
(* The rows, step by step.                                                 *)

(* What the array holds in the end: the latitudes from the first block to the equator or beyond,
   and zeros near the poles. *)
Ended(c, m) ==
  \E u, v \in Nat :
    /\ u <= Polar(c) /\ NLAT_2(c) <= v /\ v <= c.nlat
    /\ Packed(c) /\ ~c.magic => u % 2 = 0 /\ v % 2 = 0
    /\ c.magic => v <= NLAT_2(c)
    /\ m = Filled(c, u, v, Polar(c))

(* fly stores block after block, mic keeps the blocks in its local arrays. *)
RowsState(c, p, x, m, b) ==
  /\ c \in Calls /\ p \in {"poles", "blocks", "store", "analyse", "sums", "done"}
  /\ b \subseteq 0..(NLAT_2(c) + c.nway * VSIZE2(c) - 2)
  /\ p = "poles" => x = 0 /\ m = [a \in {} |-> Zero] /\ b = {}
  /\ p \in {"blocks", "store", "analyse"} => x \in Nat /\ Start(c) <= x /\ x <= Blocks(c) - 1 + c.nway
  /\ p = "blocks" => x < Blocks(c)
  /\ p = "store" => x >= Blocks(c) /\ c.kernel = "mic"
  /\ p = "blocks" /\ c.kernel = "fly" => m = Filled(c, VSIZE2(c) * Start(c), VSIZE2(c) * x, Polar(c))
  /\ p \in {"blocks", "store"} /\ c.kernel = "mic" =>
       m = [a \in {} |-> Zero] /\ b = (VSIZE2(c) * Start(c))..(VSIZE2(c) * x - 1)
  /\ p \in {"analyse", "sums", "done"} => Ended(c, m)
RowsInv == RowsState(call, pc, k, mem, buffer)

(* The grids where the rows are right. *)
LEMMA MagicEven ==
  ASSUME NEW c \in Calls, StoresWell(c)
  PROVE  (c.magic => c.nlat % 2 = 0) /\ (c.simd = "scalar" /\ c.magic => c.nlat % 2 = 0)
BY CallFacts, LayoutFacts DEF StoresWell

(* The poles are cleared, and the blocks start. *)
LEMMA StartOfBlocks ==
  ASSUME NEW c \in Calls, c.kernel = "fly", NEW m, m = Zeros(c, Both(c, Band(c, 0, Polar(c))))
  PROVE  RowsState(c, "blocks", Start(c), m, {})
<1>1. /\ Start(c) \in Nat /\ Start(c) < Blocks(c) /\ Blocks(c) \in Nat /\ c.nway \in Nat \ {0} /\ VSIZE2(c) \in Nat
      /\ NLAT_2(c) \in Nat
  BY PolarFacts, SizeFacts, CallFacts
<1>2. m = Filled(c, VSIZE2(c) * Start(c), VSIZE2(c) * Start(c), Polar(c))
  <2> DEFINE u == VSIZE2(c) * Start(c)
  <2>1. u \in Nat
    BY <1>1
  <2> HIDE DEF u
  <2>2. m = Filled(c, u, u, Polar(c))
    BY <2>1, FilledStart
  <2> QED BY <2>2 DEF u
<1>3. Start(c) <= Blocks(c) - 1 + c.nway
  BY <1>1
<1> QED BY <1>1, <1>2, <1>3 DEF RowsState

(* fly clears the poles of a row with order. *)
LEMMA FlyPolesRows ==
  ASSUME NoneMisplaced, RowsInv, FlyPoles
  PROVE  RowsInv'
<1> DEFINE c == call
           l == IF c.simd = "scalar" THEN c.tm ELSE c.tm \div 2
           V == VSIZE2(c)
<1>1. /\ c \in Calls /\ pc = "poles" /\ buffer = {} /\ c.kernel = "fly" /\ c.kind = "m"
      /\ mem' = ZeroCells(c, PolarCells(c, l, RowLen(c) \div 2))
      /\ k' = (IF c.simd = "scalar" THEN l ELSE l \div (V \div 2))
      /\ pc' = "blocks" /\ call' = c /\ buffer' = {}
  BY DEF RowsInv, RowsState, FlyPoles
<1> HIDE DEF c
<1>3. /\ Packed(c) <=> c.simd # "scalar"
      /\ c.im > 0
      /\ c.magic => c.nlat % 2 = 0
  BY <1>1, MagicEven, CallFacts DEF Packed, NoneMisplaced, CallExists
<1>4. V \in {1, 2, 4, 8} /\ (c.simd # "scalar" => V \in {2, 4, 8}) /\ (c.simd = "scalar" => V = 1)
  BY <1>1, SizeFacts, LayoutFacts DEF VSIZE2
<1>5. c.tm \in Nat /\ c.tm < NLAT_2(c) /\ NLAT_2(c) \in Nat
  BY <1>1, PolarFacts, SizeFacts
<1>6. l \in Nat /\ (IF Packed(c) THEN 2 * l ELSE l) = Polar(c) /\ Polar(c) <= NLAT_2(c)
  <2>1. l \in Nat
    BY <1>5
  <2>2. (IF Packed(c) THEN 2 * l ELSE l) = Polar(c)
    BY <1>3 DEF Polar
  <2>3. Polar(c) <= NLAT_2(c)
    BY <1>1, <1>5, PolarFacts
  <2> QED BY <2>1, <2>2, <2>3
<1>7. k' = Start(c)
  <2>1. Start(c) = c.tm \div V
    BY <1>1, PolarFacts
  <2> DEFINE t == c.tm
  <2>2. t \in Nat /\ k' = (IF c.simd = "scalar" THEN t ELSE (t \div 2) \div (V \div 2))
    BY <1>1, <1>5
  <2> HIDE DEF V, t
  <2>3. k' = t \div V
    <3>1. CASE c.simd = "scalar"
      BY <1>4, <2>2, <3>1
    <3>2. CASE V = 2 /\ c.simd # "scalar"
      BY <2>2, <3>2
    <3>3. CASE V = 4 /\ c.simd # "scalar"
      BY <2>2, <3>3
    <3>4. CASE V = 8 /\ c.simd # "scalar"
      BY <2>2, <3>4
    <3> QED BY <1>4, <3>1, <3>2, <3>3, <3>4
  <2> QED BY <2>1, <2>3 DEF V, t
<1> HIDE DEF l
<1>8. mem' = Zeros(c, Both(c, Band(c, 0, Polar(c))))
  <2> DEFINE n == RowLen(c) \div 2
  <2>1. n = RowLen(c) \div 2
    OBVIOUS
  <2> HIDE DEF n
  <2>2. (Packed(c) => 2 * l <= NLAT_2(c) /\ c.im > 0) /\ (~Packed(c) => l <= NLAT_2(c))
    BY <1>3, <1>6
  <2>3. ZeroCells(c, PolarCells(c, l, n)) = Zeros(c, Both(c, Band(c, 0, IF Packed(c) THEN 2 * l ELSE l)))
    BY <1>1, <1>3, <1>6, <2>1, <2>2, PolarZeros
  <2> QED BY <1>1, <1>6, <2>1, <2>3
<1>9. RowsState(c, "blocks", Start(c), mem', {})
  BY <1>1, <1>8, StartOfBlocks
<1> QED BY <1>1, <1>7, <1>9 DEF RowsInv

(* A function for one order clears them in its only row. *)
LEMMA FixedPolesRows ==
  ASSUME NoneMisplaced, RowsInv, FixedPoles
  PROVE  RowsInv'
<1> DEFINE c == call
           l == IF c.im = 0 THEN 0 ELSE c.tm
<1>1. /\ c \in Calls /\ pc = "poles" /\ buffer = {} /\ c.kind = "fixed"
      /\ mem' = ZeroCells(c, PolarCells(c, l, c.nlat))
      /\ k' = l \div VSIZE2(c)
      /\ pc' = "blocks" /\ call' = c /\ buffer' = {}
  BY DEF RowsInv, RowsState, FixedPoles
<1> HIDE DEF c
<1>2. /\ ~Packed(c) /\ c.kernel = "fly"
      /\ c.magic => c.nlat % 2 = 0
  BY <1>1, MagicEven, CallFacts DEF Packed, NoneMisplaced, CallExists
<1>3. l = c.tm /\ c.tm \in Nat /\ c.tm < NLAT_2(c) /\ NLAT_2(c) \in Nat /\ Polar(c) = c.tm /\ k' = Start(c)
  <2>1. l = c.tm
    BY <1>1, PolarFacts
  <2> QED BY <1>1, <1>2, <2>1, PolarFacts, SizeFacts DEF Polar
<1>4. c.nlat = RowLen(c) \div 2
  BY <1>1, <1>2, CallFacts DEF RowLen
<1> HIDE DEF l
<1>5. mem' = Zeros(c, Both(c, Band(c, 0, Polar(c))))
  <2> DEFINE n == c.nlat
  <2>1. n = RowLen(c) \div 2
    BY <1>4
  <2> HIDE DEF n
  <2>2. l \in Nat /\ l <= NLAT_2(c)
    BY <1>3
  <2>3. ZeroCells(c, PolarCells(c, l, n)) = Zeros(c, Both(c, Band(c, 0, IF Packed(c) THEN 2 * l ELSE l)))
    BY <1>1, <1>2, <2>1, <2>2, PolarZeros
  <2> QED BY <1>1, <1>2, <1>3, <2>3 DEF n
<1>6. RowsState(c, "blocks", Start(c), mem', {})
  BY <1>1, <1>2, <1>5, StartOfBlocks
<1> QED BY <1>1, <1>3, <1>6 DEF RowsInv

(* Nothing is cleared in row 0, nor by mic before its sums. *)
LEMMA NoPolesRows ==
  ASSUME RowsInv, NoPoles
  PROVE  RowsInv'
<1> DEFINE c == call
<1>1. /\ c \in Calls /\ pc = "poles" /\ buffer = {} /\ mem = [a \in {} |-> Zero]
      /\ c.kind # "fixed" /\ (c.kind = "m0" \/ c.kernel = "mic")
      /\ k' = (IF c.kind = "m0" THEN 0 ELSE c.tm \div VSIZE2(c))
      /\ pc' = "blocks" /\ call' = c /\ buffer' = {} /\ mem' = mem
  BY DEF RowsInv, RowsState, NoPoles
<1> HIDE DEF c
<1>2. k' = Start(c) /\ (c.kind = "m0" => Polar(c) = 0)
  BY <1>1, PolarFacts, CallFacts DEF CallExists
<1>3. CASE c.kernel = "fly"
  <2>1. mem' = Zeros(c, Both(c, Band(c, 0, Polar(c))))
    BY <1>1, <1>2, <1>3, FilledStart
  <2>2. RowsState(c, "blocks", Start(c), mem', {})
    BY <1>1, <1>3, <2>1, StartOfBlocks
  <2> QED BY <1>1, <1>2, <2>2 DEF RowsInv
<1>4. CASE c.kernel # "fly"
  <2>1. /\ Start(c) \in Nat /\ Start(c) < Blocks(c) /\ Blocks(c) \in Nat /\ c.nway \in Nat \ {0} /\ VSIZE2(c) \in Nat
        /\ NLAT_2(c) \in Nat
    BY <1>1, PolarFacts, SizeFacts, CallFacts
  <2>2. (VSIZE2(c) * Start(c))..(VSIZE2(c) * Start(c) - 1) = {}
    <3> DEFINE u == VSIZE2(c) * Start(c)
    <3>1. u \in Nat
      BY <2>1
    <3> HIDE DEF u
    <3>2. u..(u - 1) = {}
      BY <3>1
    <3> QED BY <3>2 DEF u
  <2>3. Start(c) <= Blocks(c) - 1 + c.nway
    BY <2>1
  <2>4. RowsState(c, "blocks", Start(c), mem', {})
    BY <1>1, <1>4, <2>1, <2>2, <2>3 DEF RowsState
  <2> QED BY <1>1, <1>2, <2>4 DEF RowsInv
<1> QED BY <1>3, <1>4

(* A block of latitudes stored. *)
LEMMA FlyBlockRows ==
  ASSUME NoneMisplaced, RowsInv, FlyBlock
  PROVE  RowsInv'
<1> DEFINE c == call
           V == VSIZE2(c)
           w == c.nway
           e == End(c, k + w)
           new == Placed(c, Both(c, Band(c, V * k, V * e)))
<1>1. /\ c \in Calls /\ pc = "blocks" /\ c.kernel = "fly" /\ k \in Nat /\ Start(c) <= k /\ k < Blocks(c)
      /\ mem = Filled(c, V * Start(c), V * k, Polar(c))
      /\ buffer \subseteq 0..(NLAT_2(c) + c.nway * VSIZE2(c) - 2)
      /\ k' = k + w /\ call' = c /\ buffer' = buffer
      /\ pc' = (IF k' < Blocks(c) THEN "blocks" ELSE "analyse")
  <2>1. call \in Calls /\ pc = "blocks" /\ (call.kernel = "fly" \/ call.kind = "fixed")
    BY DEF RowsInv, RowsState, FlyBlock
  <2>2. call.kernel = "fly"
    BY <2>1, CallFacts DEF CallExists
  <2> QED BY <2>1, <2>2 DEF RowsInv, RowsState, FlyBlock
<1>2. mem' = new ## mem
  <2> DEFINE idxs == {j \in k..(k + call.nway - 1) : call.magic => j < Blocks(call)}
             written == [j \in idxs |-> Writes(call, j)]
             at == UNION {DOMAIN written[j] : j \in idxs}
             last(a) == CHOOSE j \in idxs : a \in DOMAIN written[j]
                                            /\ \A i \in idxs : i > j => a \notin DOMAIN written[i]
             put == [a \in {RowAt(call) + d : d \in at} |-> LET d == a - RowAt(call) IN written[last(d)][d]]
  <2>1. mem' = put ## mem
    BY DEF FlyBlock
  <2>2. put = new
    <3>1. idxs = Indices(c, k)
      BY DEF Indices
    <3>2. StoresWell(c)
      BY <1>1 DEF NoneMisplaced
    <3>3. put = Overlaid(c, idxs)
      BY DEF Overlaid
    <3>4. Overlaid(c, Indices(c, k)) = new
      BY <1>1, <3>2, BlocksRight
    <3> QED BY <3>1, <3>3, <3>4
  <2> HIDE DEF put, new
  <2> QED BY <2>1, <2>2
<1> HIDE DEF c
<1>3. /\ e \in Nat /\ k < e /\ V * e <= c.nlat /\ (c.magic => V * e <= NLAT_2(c))
      /\ V \in {1, 2, 4, 8} /\ Start(c) \in Nat /\ Blocks(c) \in Nat /\ w \in Nat \ {0} /\ NLAT_2(c) \in Nat /\ c.nlat \in Nat
  <2>1. StoresWell(c)
    BY <1>1 DEF NoneMisplaced
  <2> QED BY <1>1, <2>1, MagicEven, BlocksStored, SizeFacts, CallFacts, PolarFacts
<1> DEFINE u == V * Start(c)
           v == V * k
           z == V * e
<1>4. u \in Nat /\ v \in Nat /\ z \in Nat /\ u <= v /\ v <= z
  <2> HIDE DEF V, e, w
  <2>1. CASE V = 1
    BY <1>1, <1>3, <2>1
  <2>2. CASE V = 2
    BY <1>1, <1>3, <2>2
  <2>3. CASE V = 4
    BY <1>1, <1>3, <2>3
  <2>4. CASE V = 8
    BY <1>1, <1>3, <2>4
  <2> QED BY <1>3, <2>1, <2>2, <2>3, <2>4
<1>5. mem' = Filled(c, u, z, Polar(c))
  <2>1. mem' = Placed(c, Both(c, Band(c, v, z))) ## Filled(c, u, v, Polar(c))
    BY <1>1, <1>2
  <2> HIDE DEF u, v, z
  <2> QED BY <1>1, <1>4, <2>1, FilledMore
<1>6. e = IF c.magic /\ k + w > Blocks(c) THEN Blocks(c) ELSE k + w
  BY DEF End
<1>7. k' \in Nat /\ Start(c) <= k' /\ k' <= Blocks(c) - 1 + w
  BY <1>1, <1>3
<1>8. CASE k' < Blocks(c)
  <2>1. e = k' /\ pc' = "blocks"
    BY <1>1, <1>3, <1>6, <1>8
  <2>2. mem' = Filled(c, VSIZE2(c) * Start(c), VSIZE2(c) * k', Polar(c))
    BY <1>5, <2>1
  <2>3. RowsState(c, "blocks", k', mem', buffer)
    BY <1>1, <1>7, <1>8, <2>2 DEF RowsState
  <2> QED BY <1>1, <2>1, <2>3 DEF RowsInv
<1>9. CASE ~(k' < Blocks(c))
  <2>1. pc' = "analyse" /\ e >= Blocks(c)
    BY <1>1, <1>3, <1>6, <1>9
  <2>2. NLAT_2(c) <= z
    <3>1. NLAT_2(c) <= Blocks(c) * V
      BY <1>1, SizeFacts
    <3> HIDE DEF V, e
    <3>2. CASE V = 1
      BY <1>3, <2>1, <3>1, <3>2
    <3>3. CASE V = 2
      BY <1>3, <2>1, <3>1, <3>3
    <3>4. CASE V = 4
      BY <1>3, <2>1, <3>1, <3>4
    <3>5. CASE V = 8
      BY <1>3, <2>1, <3>1, <3>5
    <3> QED BY <1>3, <3>2, <3>3, <3>4, <3>5
  <2>3. u <= Polar(c) /\ (Packed(c) => V % 2 = 0)
    BY <1>1, PolarFacts
  <2>4. Packed(c) => u % 2 = 0 /\ z % 2 = 0
    <3> HIDE DEF V, e
    <3>1. CASE V = 1
      BY <2>3, <3>1
    <3>2. CASE V = 2
      BY <1>3, <3>2
    <3>3. CASE V = 4
      BY <1>3, <3>3
    <3>4. CASE V = 8
      BY <1>3, <3>4
    <3> QED BY <1>3, <3>1, <3>2, <3>3, <3>4
  <2>5. z <= c.nlat /\ (c.magic => z <= NLAT_2(c))
    BY <1>3
  <2> HIDE DEF u, z
  <2>6. Ended(c, mem')
    BY <1>4, <1>5, <2>2, <2>3, <2>4, <2>5 DEF Ended
  <2>7. RowsState(c, "analyse", k', mem', buffer)
    BY <1>1, <1>7, <2>6 DEF RowsState
  <2> QED BY <1>1, <2>1, <2>7 DEF RowsInv
<1> QED BY <1>8, <1>9

(* A block kept in the local arrays. *)
LEMMA MicBlockRows ==
  ASSUME RowsInv, MicBlock
  PROVE  RowsInv'
<1> DEFINE c == call
           V == VSIZE2(c)
           w == c.nway
           S == Start(c)
           B == Blocks(c)
           n == NLAT_2(c)
<1>1. /\ c \in Calls /\ pc = "blocks" /\ c.kernel = "mic" /\ k \in Nat /\ S <= k /\ k < B
      /\ mem = [a \in {} |-> Zero] /\ buffer = (V * S)..(V * k - 1)
      /\ buffer' = buffer \cup (k * V)..((k + w) * V - 1)
      /\ k' = k + w /\ call' = c /\ mem' = mem
      /\ pc' = (IF k' < B THEN "blocks" ELSE "store")
  BY DEF RowsInv, RowsState, MicBlock
<1> HIDE DEF c
<1>2. /\ V \in {1, 2, 4, 8} /\ S \in Nat /\ B \in Nat /\ w \in Nat \ {0} /\ n \in Nat
      /\ (B - 1) * V < n
  BY <1>1, SizeFacts, CallFacts, PolarFacts
<1> HIDE DEF V, w, S, B, n
<1>3. buffer' = (V * S)..(V * (k + w) - 1) /\ (V * S)..(V * (k + w) - 1) \subseteq 0..(n + w * V - 2)
  <2>1. buffer' = ((S * V)..(k * V - 1)) \cup ((k * V)..((k + w) * V - 1))
    <3>1. V * S = S * V /\ V * k = k * V
      BY <1>1, <1>2
    <3> QED BY <1>1, <3>1
  <2>2. ((S * V)..(k * V - 1)) \cup ((k * V)..((k + w) * V - 1)) = (S * V)..((k + w) * V - 1)
    BY <1>1, <1>2, RangeGrows
  <2>3. S * V = V * S /\ (k + w) * V = V * (k + w)
    BY <1>1, <1>2
  <2>4. (V * S)..(V * (k + w) - 1) \subseteq 0..(n + w * V - 2)
    <3>1. CASE V = 1
      BY <1>1, <1>2, <3>1
    <3>2. CASE V = 2
      BY <1>1, <1>2, <3>2
    <3>3. CASE V = 4
      BY <1>1, <1>2, <3>3
    <3>4. CASE V = 8
      BY <1>1, <1>2, <3>4
    <3> QED BY <1>2, <3>1, <3>2, <3>3, <3>4
  <2> QED BY <2>1, <2>2, <2>3, <2>4
<1>4. k' \in Nat /\ S <= k' /\ k' <= B - 1 + w
  BY <1>1, <1>2
<1>5. buffer' = (V * S)..(V * k' - 1) /\ buffer' \subseteq 0..(n + w * V - 2)
  BY <1>1, <1>3
<1>6. RowsState(c, pc', k', mem', buffer')
  <2>1. CASE k' < B
    BY <1>1, <1>4, <1>5, <2>1 DEF RowsState, V, w, S, B, n
  <2>2. CASE ~(k' < B)
    <3>1. k' >= B
      BY <1>2, <1>4, <2>2
    <3> QED BY <1>1, <1>4, <1>5, <2>2, <3>1 DEF RowsState, V, w, S, B, n
  <2> QED BY <2>1, <2>2
<1> QED BY <1>1, <1>6 DEF RowsInv

(* Bands of one latitude, and of two. *)
LEMMA SmallBands ==
  ASSUME NEW c \in Calls, Packed(c), NEW i \in Nat, i < NLAT_2(c)
  PROVE  /\ c.magic => Band(c, i, i + 1) = {2 * i, 2 * i + 1}
         /\ ~c.magic /\ i % 2 = 0 => Band(c, i, i + 2) = {i, i + 1, c.nlat - 2 - i, c.nlat - 1 - i}
<1> DEFINE L == c.nlat
<1>1. L \in Nat /\ RowLen(c) = L /\ L % 2 = 0 /\ NLAT_2(c) \in Nat /\ L = 2 * NLAT_2(c)
  BY CallFacts, LayoutFacts, SizeFacts
<1>2. \A d \in 0..(L - 1) : /\ Lat(c, d) \in Nat /\ Lat(c, d) < L
                            /\ ~c.magic => Lat(c, d) = d
                            /\ c.magic => Lat(c, d) = d \div 2 \/ Lat(c, d) = L - 1 - d \div 2
  BY <1>1, LatFacts
<1>3. \A u, v, d : d \in Band(c, u, v) <=> d \in 0..(L - 1) /\ (Lat(c, d) \in u..(v - 1) \/ L - 1 - Lat(c, d) \in u..(v - 1))
  BY <1>1 DEF Band, Within
<1> HIDE DEF L
<1>4. ASSUME c.magic PROVE \A d \in Int : d \in Band(c, i, i + 1) <=> d = 2 * i \/ d = 2 * i + 1
  <2> TAKE d \in Int
  <2> DEFINE x == Lat(c, d)
             e == d \div 2
  <2>1. d \in Band(c, i, i + 1) <=> d \in 0..(L - 1) /\ (x = i \/ L - 1 - x = i)
    BY <1>1, <1>2, <1>3
  <2>2. e \in Int /\ 2 * e <= d /\ d <= 2 * e + 1
    OBVIOUS
  <2>3. d \in 0..(L - 1) => x \in Nat /\ (x = e \/ x = L - 1 - e)
    BY <1>2, <1>4
  <2> HIDE DEF x, e
  <2> QED BY <1>1, <2>1, <2>2, <2>3
<1>5. ASSUME ~c.magic, i % 2 = 0
      PROVE  \A d \in Int : d \in Band(c, i, i + 2) <=> d = i \/ d = i + 1 \/ d = L - 2 - i \/ d = L - 1 - i
  <2> TAKE d \in Int
  <2>1. d \in Band(c, i, i + 2) <=> d \in 0..(L - 1) /\ (d \in i..(i + 1) \/ L - 1 - d \in i..(i + 1))
    <3>1. (i + 2) - 1 = i + 1
      OBVIOUS
    <3> QED BY <1>2, <1>3, <1>5, <3>1
  <2>2. i + 1 < L
    BY <1>1, <1>5
  <2> QED BY <1>1, <2>1, <2>2
<1>6. Band(c, i, i + 1) \subseteq Int /\ Band(c, i, i + 2) \subseteq Int
  BY <1>1, <1>3
<1>7. c.magic => Band(c, i, i + 1) = {2 * i, 2 * i + 1}
  <2>1. 2 * i \in Int /\ 2 * i + 1 \in Int
    OBVIOUS
  <2> QED BY <1>4, <1>6, <2>1
<1>8. ~c.magic /\ i % 2 = 0 => Band(c, i, i + 2) = {i, i + 1, L - 2 - i, L - 1 - i}
  <2>1. i + 1 \in Int /\ L - 2 - i \in Int /\ L - 1 - i \in Int
    BY <1>1
  <2> QED BY <1>5, <1>6, <2>1
<1> QED BY <1>7, <1>8 DEF L

(* Bands side by side, in both rows. *)
LEMMA BothUnion ==
  ASSUME NEW c, NEW X
  PROVE  UNION {Both(c, D) : D \in X} = Both(c, UNION X)
<1> DEFINE sh(S) == {Mirrored(c) + d : d \in S}
           H == HasMirror(c)
<1>1. \A S : Both(c, S) = S \cup (IF H THEN sh(S) ELSE {})
  BY DEF Both
<1>2. \A y : y \in sh(UNION X) <=> \E D \in X : y \in sh(D)
  OBVIOUS
<1> HIDE DEF sh, H
<1>3. \A y, S : y \in Both(c, S) <=> y \in S \/ (H /\ y \in sh(S))
  BY <1>1
<1>4. \A y : y \in Both(c, UNION X) <=> \E D \in X : y \in Both(c, D)
  <2> TAKE y
  <2> DEFINE in(D) == y \in D
             over(D) == y \in sh(D)
             both(D) == y \in Both(c, D)
  <2>1. \A D : both(D) <=> in(D) \/ (H /\ over(D))
    BY <1>3
  <2>2. in(UNION X) <=> \E D \in X : in(D)
    OBVIOUS
  <2>3. over(UNION X) <=> \E D \in X : over(D)
    BY <1>2
  <2> HIDE DEF in, over, both
  <2>4. both(UNION X) <=> \E D \in X : both(D)
    BY <2>1, <2>2, <2>3
  <2> QED BY <2>4 DEF both
<1> QED BY <1>4

(* Latitudes stored one by one, or two by two, are a band. *)
LEMMA MergeBands ==
  ASSUME NEW c \in Calls, NEW u \in Nat, NEW w \in Nat, u <= w
  PROVE  /\ Merge({Placed(c, Both(c, Band(c, i, i + 1))) : i \in u..(w - 1)}) = Placed(c, Both(c, Band(c, u, w)))
         /\ u % 2 = 0 => Merge({Placed(c, Both(c, Band(c, i, i + 2))) : i \in {x \in u..(w - 1) : x % 2 = 0}})
                           = Placed(c, Both(c, Band(c, u, w + (w % 2))))
<1>1. \A x \in Int, a \in Int, b \in Int : x \in a..(b - 1) <=> a <= x /\ x < b
  OBVIOUS
<1>2. ASSUME NEW d \in 0..(RowLen(c) - 1)
      PROVE  /\ d \in Band(c, u, w) <=> \E i \in u..(w - 1) : d \in Band(c, i, i + 1)
             /\ u % 2 = 0 => (d \in Band(c, u, w + (w % 2)) <=> \E i \in {x \in u..(w - 1) : x % 2 = 0} : d \in Band(c, i, i + 2))
  <2> DEFINE y == Lat(c, d)
             z == c.nlat - 1 - y
             v == w + (w % 2)
             E == {x \in u..(w - 1) : x % 2 = 0}
  <2>1. y \in Int /\ z \in Int /\ v \in Nat
    BY LatFacts
  <2>2. \A a \in Int, b \in Int : d \in Band(c, a, b) <=> (a <= y /\ y < b) \/ (a <= z /\ z < b)
    <3>1. \A a, b : d \in Band(c, a, b) <=> y \in a..(b - 1) \/ z \in a..(b - 1)
      BY DEF Band, Within
    <3> HIDE DEF y, z
    <3> QED BY <1>1, <2>1, <3>1
  <2> HIDE DEF y, z
  <2>3. d \in Band(c, u, w) <=> \E i \in u..(w - 1) : d \in Band(c, i, i + 1)
    <3>1. ASSUME d \in Band(c, u, w) PROVE \E i \in u..(w - 1) : d \in Band(c, i, i + 1)
      <4>1. (u <= y /\ y < w) \/ (u <= z /\ z < w)
        BY <2>2, <3>1
      <4>2. ASSUME NEW i \in Int, i = y \/ i = z, u <= i, i < w PROVE i \in u..(w - 1) /\ d \in Band(c, i, i + 1)
        <5>1. i + 1 \in Int /\ i <= i /\ i < i + 1
          OBVIOUS
        <5> QED BY <2>2, <4>2, <5>1
      <4> QED BY <2>1, <4>1, <4>2
    <3>2. ASSUME NEW i \in u..(w - 1), d \in Band(c, i, i + 1) PROVE d \in Band(c, u, w)
      <4>1. i \in Int /\ i + 1 \in Int /\ u <= i /\ i < w
        OBVIOUS
      <4> QED BY <2>1, <2>2, <3>2, <4>1
    <3> QED BY <3>1, <3>2
  <2>4. ASSUME u % 2 = 0 PROVE d \in Band(c, u, v) <=> \E i \in E : d \in Band(c, i, i + 2)
    <3>1. ASSUME d \in Band(c, u, v) PROVE \E i \in E : d \in Band(c, i, i + 2)
      <4>1. (u <= y /\ y < v) \/ (u <= z /\ z < v)
        BY <2>1, <2>2, <3>1
      <4>2. ASSUME NEW t \in Int, t = y \/ t = z, u <= t, t < v PROVE \E i \in E : d \in Band(c, i, i + 2)
        <5> DEFINE i == 2 * (t \div 2)
        <5>1. i \in Int /\ i <= t /\ t < i + 2 /\ i % 2 = 0
          OBVIOUS
        <5>2. u <= i /\ i < w
          BY <2>4, <4>2
        <5> HIDE DEF i
        <5>3. d \in Band(c, i, i + 2)
          BY <2>2, <4>2, <5>1
        <5>4. i \in E
          BY <5>1, <5>2
        <5> QED BY <5>3, <5>4
      <4> QED BY <2>1, <4>1, <4>2
    <3>2. ASSUME NEW i \in E, d \in Band(c, i, i + 2) PROVE d \in Band(c, u, v)
      <4>1. i \in Int /\ i + 2 \in Int /\ u <= i /\ i + 2 <= v
        OBVIOUS
      <4> HIDE DEF v
      <4> QED BY <2>1, <2>2, <3>2, <4>1
    <3> QED BY <3>1, <3>2
  <2> QED BY <2>3, <2>4
<1>3. \A a, b : Band(c, a, b) \subseteq 0..(RowLen(c) - 1)
  BY DEF Band
<1>4. Merge({Placed(c, Both(c, Band(c, i, i + 1))) : i \in u..(w - 1)}) = Placed(c, Both(c, Band(c, u, w)))
  <2> DEFINE one(i) == Band(c, i, i + 1)
             I == u..(w - 1)
             X == {one(i) : i \in I}
             Y == {Both(c, D) : D \in X}
  <2>1. UNION X = Band(c, u, w)
    BY <1>2, <1>3
  <2> HIDE DEF one, I
  <2>2. {Placed(c, Both(c, one(i))) : i \in I} = {Placed(c, D) : D \in Y}
    OBVIOUS
  <2> HIDE DEF X
  <2>3. UNION Y = Both(c, Band(c, u, w))
    BY <2>1, BothUnion
  <2> HIDE DEF Y
  <2>4. Merge({Placed(c, D) : D \in Y}) = Placed(c, UNION Y)
    BY MergePlaces
  <2>5. Merge({Placed(c, Both(c, one(i))) : i \in I}) = Placed(c, Both(c, Band(c, u, w)))
    BY <2>2, <2>3, <2>4
  <2> QED BY <2>5 DEF one, I
<1>5. ASSUME u % 2 = 0
      PROVE  Merge({Placed(c, Both(c, Band(c, i, i + 2))) : i \in {x \in u..(w - 1) : x % 2 = 0}})
               = Placed(c, Both(c, Band(c, u, w + (w % 2))))
  <2> DEFINE one(i) == Band(c, i, i + 2)
             I == {x \in u..(w - 1) : x % 2 = 0}
             X == {one(i) : i \in I}
             Y == {Both(c, D) : D \in X}
             B == Band(c, u, w + (w % 2))
  <2>1. UNION X = B
    BY <1>2, <1>3, <1>5
  <2> HIDE DEF one, I, B
  <2>2. {Placed(c, Both(c, one(i))) : i \in I} = {Placed(c, D) : D \in Y}
    OBVIOUS
  <2> HIDE DEF X
  <2>3. UNION Y = Both(c, B)
    BY <2>1, BothUnion
  <2> HIDE DEF Y
  <2>4. Merge({Placed(c, D) : D \in Y}) = Placed(c, UNION Y)
    BY MergePlaces
  <2>5. Merge({Placed(c, Both(c, one(i))) : i \in I}) = Placed(c, Both(c, B))
    BY <2>2, <2>3, <2>4
  <2> QED BY <2>5 DEF one, I, B
<1> QED BY <1>4, <1>5

(* Two latitudes and their mirror images, stored in row 0. *)
LEMMA PairPlacedM0 ==
  ASSUME NEW c \in Calls, Packed(c), ~c.magic, c.im = 0, NEW i \in Nat, i % 2 = 0, i < NLAT_2(c)
  PROVE  Cell(NLAT_2(c) - 1 - i \div 2, Real(c, c.nlat - 2 - i), Real(c, c.nlat - 1 - i))
         ## Cell(i \div 2, Real(c, i), Real(c, i + 1)) = Placed(c, Both(c, Band(c, i, i + 2)))
<1> DEFINE L == c.nlat
           j == i \div 2
           h == NLAT_2(c) - 1 - i \div 2
           f == L - 2 - i
           g == L - 1 - i
           e == i + 1
<1>1. L \in Nat /\ RowLen(c) = L /\ NLAT_2(c) \in Nat /\ L = 2 * NLAT_2(c)
  BY CallFacts, LayoutFacts, SizeFacts
<1>2. /\ j \in Nat /\ h \in Nat /\ 2 * j = i /\ 2 * j + 1 = e /\ 2 * h = f /\ 2 * h + 1 = g
      /\ i \in Nat /\ e \in Nat /\ f \in Nat /\ g \in Nat /\ i < L /\ e < L /\ f < L /\ g < L
  BY <1>1
<1>3. Band(c, i, i + 2) = {i, e, f, g}
  BY SmallBands
<1>4. ~HasMirror(c)
  BY DEF HasMirror
<1> HIDE DEF L, j, h, f, g, e
<1>5. /\ Near(c, i) = Real(c, i) /\ Near(c, e) = Real(c, e) /\ Near(c, f) = Real(c, f) /\ Near(c, g) = Real(c, g)
  BY <1>2, PackedNorthSouth DEF L
<1>6. Cell(j, Real(c, i), Real(c, e)) = Fill(c, {i, e})
  <2>1. Cell(j, Real(c, i), Real(c, e)) = Fill(c, {2 * j, 2 * j + 1})
    BY <1>1, <1>2, <1>5, CellFills
  <2> QED BY <1>2, <2>1
<1>7. Cell(h, Real(c, f), Real(c, g)) = Fill(c, {f, g})
  <2>1. Cell(h, Real(c, f), Real(c, g)) = Fill(c, {2 * h, 2 * h + 1})
    BY <1>1, <1>2, <1>5, CellFills
  <2> QED BY <1>2, <2>1
<1>8. Cell(h, Real(c, f), Real(c, g)) ## Cell(j, Real(c, i), Real(c, e)) = Fill(c, {i, e, f, g})
  <2> DEFINE A == {i, e}
             B == {f, g}
  <2>1. Join(B, A) = {i, e, f, g}
    BY DEF Join
  <2> HIDE DEF A, B
  <2>2. Fill(c, B) ## Fill(c, A) = Fill(c, Join(B, A))
    BY FillOver
  <2> QED BY <1>6, <1>7, <2>1, <2>2 DEF A, B
<1>9. Fill(c, {i, e, f, g}) = Placed(c, Both(c, {i, e, f, g}))
  <2> DEFINE D == {i, e, f, g}
  <2>1. Both(c, D) = D /\ D \subseteq Int
    BY <1>2, <1>4 DEF Both
  <2> HIDE DEF D
  <2>2. Fill(c, D) = Placed(c, D)
    BY <2>1, ShiftPlaces
  <2> QED BY <2>1, <2>2 DEF D
<1> QED BY <1>3, <1>8, <1>9 DEF L, j, h, f, g, e

(* One latitude and its mirror image in row 0, with SHTNS4MAGIC. *)
LEMMA OnePlacedM0 ==
  ASSUME NEW c \in Calls, Packed(c), c.magic, c.im = 0, NEW i \in Nat, i < NLAT_2(c)
  PROVE  Cell(i, Real(c, i), Real(c, c.nlat - 1 - i)) = Placed(c, Both(c, Band(c, i, i + 1)))
<1> DEFINE L == c.nlat
           d == 2 * i
           e == 2 * i + 1
           g == L - 1 - i
<1>1. L \in Nat /\ RowLen(c) = L /\ NLAT_2(c) \in Nat /\ L = 2 * NLAT_2(c)
  BY CallFacts, LayoutFacts, SizeFacts
<1>2. d \in Nat /\ e \in Nat /\ e < L /\ i < L
  BY <1>1
<1>3. Band(c, i, i + 1) = {d, e}
  BY SmallBands
<1>4. ~HasMirror(c)
  BY DEF HasMirror
<1>5. Near(c, d) = Real(c, i) /\ Near(c, e) = Real(c, g)
  BY <1>2, PackedInTurn
<1> HIDE DEF g
<1>6. Cell(i, Real(c, i), Real(c, g)) = Fill(c, {d, e})
  BY <1>1, <1>2, <1>5, CellFills
<1> HIDE DEF d, e
<1>7. Fill(c, {d, e}) = Placed(c, Both(c, {d, e}))
  <2> DEFINE D == {d, e}
  <2>1. Both(c, D) = D /\ D \subseteq Int
    BY <1>2, <1>4 DEF Both
  <2> HIDE DEF D
  <2>2. Fill(c, D) = Placed(c, D)
    BY <2>1, ShiftPlaces
  <2> QED BY <2>1, <2>2 DEF D
<1> QED BY <1>3, <1>6, <1>7 DEF d, e, g, L

(* A cell of either row. *)
NearCell(c, j, re, im) == Shift(Cell(j, re, im), RowAt(c))
FarCell(c, j, re, im) == Shift(Cell(j, re, im), RowAt(c) + Mirrored(c))

(* The doubles of a cell. *)
InCell(j, d, e) == d = 2 * j /\ e = 2 * j + 1

(* It holds what is expected there. *)
LEMMA CellPlaced ==
  ASSUME NEW c \in Calls, Packed(c), NEW j \in Nat, NEW d, NEW e, InCell(j, d, e), e < RowLen(c), NEW re, NEW im
  PROVE  /\ re = Near(c, d) /\ im = Near(c, e) => NearCell(c, j, re, im) = Placed(c, {d, e})
         /\ re = Far(c, d) /\ im = Far(c, e) => FarCell(c, j, re, im) = Placed(c, {Mirrored(c) + d, Mirrored(c) + e})
<1> DEFINE x == 2 * j
           y == 2 * j + 1
           M == Mirrored(c)
<1>0. d = x /\ e = y
  BY DEF InCell
<1>1. x \in Int /\ y \in Int /\ M \in Int /\ y < RowLen(c)
  BY <1>0, LayoutFacts
<1>2. ASSUME re = Near(c, x), im = Near(c, y) PROVE NearCell(c, j, re, im) = Placed(c, {x, y})
  <2>1. Cell(j, re, im) = Fill(c, {x, y})
    BY <1>1, <1>2, CellFills
  <2> HIDE DEF x, y
  <2> DEFINE D == {x, y}
  <2>2. D \subseteq Int
    BY <1>1
  <2> HIDE DEF D
  <2>3. Shift(Fill(c, D), RowAt(c)) = Placed(c, D)
    BY <2>2, ShiftPlaces
  <2> QED BY <2>1, <2>3 DEF NearCell, D
<1>3. ASSUME re = Far(c, x), im = Far(c, y) PROVE FarCell(c, j, re, im) = Placed(c, {M + x, M + y})
  <2>1. Cell(j, re, im) = [z \in {x, y} |-> Expected(c, Mirrored(c) + z)]
    BY <1>3, CellFillsFar
  <2> HIDE DEF x, y
  <2> DEFINE D == {x, y}
  <2>2. D \subseteq Int
    BY <1>1
  <2> HIDE DEF D
  <2>3. Shift([z \in D |-> Expected(c, Mirrored(c) + z)], RowAt(c) + Mirrored(c)) = Placed(c, {Mirrored(c) + z : z \in D})
    BY <1>1, <2>2, ShiftPlaces
  <2>4. {Mirrored(c) + z : z \in D} = {M + x, M + y}
    BY DEF D
  <2> QED BY <2>1, <2>3, <2>4 DEF FarCell, D
<1> HIDE DEF x, y
<1> QED BY <1>0, <1>2, <1>3 DEF M

(* Two latitudes and their mirror images, stored in the row of the order and in its mirror row. *)
LEMMA PairPlaced ==
  ASSUME NEW c \in Calls, HasMirror(c), ~c.magic, NEW i \in Nat, i % 2 = 0, i < NLAT_2(c)
  PROVE  LET f == c.nlat - 2 - i
             g == c.nlat - 1 - i
             j == i \div 2
             h == NLAT_2(c) - 1 - i \div 2
         IN  NearCell(c, j, Real(c, i) (-) Imag(c, i + 1), Real(c, i + 1) (+) Imag(c, i))
             ## FarCell(c, j, Real(c, i) (+) Imag(c, i + 1), Real(c, i + 1) (-) Imag(c, i))
             ## NearCell(c, h, Real(c, f) (-) Imag(c, g), Real(c, g) (+) Imag(c, f))
             ## FarCell(c, h, Real(c, f) (+) Imag(c, g), Real(c, g) (-) Imag(c, f))
               = Placed(c, Both(c, Band(c, i, i + 2)))
<1> DEFINE L == c.nlat
           M == Mirrored(c)
           j == i \div 2
           h == NLAT_2(c) - 1 - i \div 2
           f == L - 2 - i
           g == L - 1 - i
           e == i + 1
<1>1. L \in Nat /\ RowLen(c) = L /\ NLAT_2(c) \in Nat /\ L = 2 * NLAT_2(c) /\ L % 2 = 0 /\ Packed(c)
  BY CallFacts, LayoutFacts, SizeFacts
<1>2. /\ j \in Nat /\ h \in Nat /\ i = 2 * j /\ e = 2 * j + 1 /\ f = 2 * h /\ g = 2 * h + 1
      /\ i \in Nat /\ e \in Nat /\ f \in Nat /\ g \in Nat /\ i < L /\ e < L /\ f < L /\ g < L
      /\ f % 2 = 0 /\ e % 2 = 1 /\ g % 2 = 1 /\ i + 1 = e /\ e - 1 = i /\ f + 1 = g /\ g - 1 = f
  <2> DEFINE n == NLAT_2(c)
  <2>1. n \in Nat /\ L = 2 * n /\ i < n /\ L \in Nat
    BY <1>1
  <2> HIDE DEF n, L
  <2>2. j \in Nat /\ i = 2 * j /\ n - 1 - i \div 2 \in Nat /\ 2 * (n - 1 - i \div 2) = 2 * n - 2 - i
    BY <2>1
  <2>3. h \in Nat /\ 2 * h = f
    BY <2>1, <2>2 DEF n
  <2> HIDE DEF h, j
  <2>4. f \in Nat /\ g = f + 1 /\ g < L /\ e \in Nat /\ e < L /\ i < L
    BY <2>1
  <2>5. f % 2 = 0
    BY <2>1
  <2>6. e % 2 = 1 /\ g % 2 = 1
    BY <2>1, <2>4, <2>5
  <2> QED BY <2>1, <2>2, <2>3, <2>4, <2>5, <2>6
<1>3. Band(c, i, i + 2) = {i, e, f, g}
  BY <1>1, SmallBands
<1> HIDE DEF L, j, h, f, g, e, M
<1>4. /\ Near(c, i) = Real(c, i) (-) Imag(c, e) /\ Far(c, i) = Real(c, i) (+) Imag(c, e)
      /\ Near(c, f) = Real(c, f) (-) Imag(c, g) /\ Far(c, f) = Real(c, f) (+) Imag(c, g)
      /\ Near(c, e) = Real(c, e) (+) Imag(c, i) /\ Far(c, e) = Real(c, e) (-) Imag(c, i)
      /\ Near(c, g) = Real(c, g) (+) Imag(c, f) /\ Far(c, g) = Real(c, g) (-) Imag(c, f)
  <2>1. \A d \in Nat : d < L =>
          /\ d % 2 = 0 => Near(c, d) = Real(c, d) (-) Imag(c, d + 1) /\ Far(c, d) = Real(c, d) (+) Imag(c, d + 1)
          /\ d % 2 = 1 => Near(c, d) = Real(c, d) (+) Imag(c, d - 1) /\ Far(c, d) = Real(c, d) (-) Imag(c, d - 1)
    BY <1>1, PackedNorthSouth DEF L
  <2> QED BY <1>2, <2>1
<1> DEFINE A1 == {i, e}
           A2 == {M + i, M + e}
           A3 == {f, g}
           A4 == {M + f, M + g}
<1>5. /\ NearCell(c, j, Near(c, i), Near(c, e)) = Placed(c, A1)
      /\ FarCell(c, j, Far(c, i), Far(c, e)) = Placed(c, A2)
      /\ NearCell(c, h, Near(c, f), Near(c, g)) = Placed(c, A3)
      /\ FarCell(c, h, Far(c, f), Far(c, g)) = Placed(c, A4)
  <2>1. InCell(j, i, e) /\ InCell(h, f, g) /\ e < RowLen(c) /\ g < RowLen(c) /\ j \in Nat /\ h \in Nat /\ Packed(c)
    BY <1>1, <1>2 DEF InCell
  <2> QED BY <2>1, CellPlaced DEF M
<1>6. Both(c, {i, e, f, g}) = Join(Join(Join(A1, A2), A3), A4)
  <2>1. {M + d : d \in {i, e, f, g}} = {M + i, M + e, M + f, M + g}
    OBVIOUS
  <2>2. Both(c, {i, e, f, g}) = {i, e, f, g} \cup {M + i, M + e, M + f, M + g}
    BY <2>1 DEF Both, M
  <2> QED BY <2>2 DEF Join
<1> HIDE DEF A1, A2, A3, A4
<1>7. NearCell(c, j, Near(c, i), Near(c, e)) ## FarCell(c, j, Far(c, i), Far(c, e))
      ## NearCell(c, h, Near(c, f), Near(c, g)) ## FarCell(c, h, Far(c, f), Far(c, g))
        = Placed(c, Join(Join(Join(A1, A2), A3), A4))
  BY <1>5, PlacedOver
<1> QED BY <1>3, <1>4, <1>6, <1>7 DEF L, j, h, f, g, e

(* One latitude and its mirror image in both rows, with SHTNS4MAGIC. *)
LEMMA OnePlaced ==
  ASSUME NEW c \in Calls, HasMirror(c), c.magic, NEW i \in Nat, i < NLAT_2(c)
  PROVE  LET g == c.nlat - 1 - i
         IN  NearCell(c, i, Real(c, i) (-) Imag(c, g), Real(c, g) (+) Imag(c, i))
             ## FarCell(c, i, Real(c, i) (+) Imag(c, g), Real(c, g) (-) Imag(c, i))
               = Placed(c, Both(c, Band(c, i, i + 1)))
<1> DEFINE L == c.nlat
           M == Mirrored(c)
           d == 2 * i
           e == 2 * i + 1
           g == L - 1 - i
<1>1. L \in Nat /\ RowLen(c) = L /\ NLAT_2(c) \in Nat /\ L = 2 * NLAT_2(c) /\ Packed(c)
  BY CallFacts, LayoutFacts, SizeFacts
<1>2. d \in Nat /\ e \in Nat /\ e < L /\ i < L
  BY <1>1
<1>3. Band(c, i, i + 1) = {d, e}
  BY <1>1, SmallBands
<1>4. /\ Near(c, d) = Real(c, i) (-) Imag(c, g) /\ Near(c, e) = Real(c, g) (+) Imag(c, i)
      /\ Far(c, d) = Real(c, i) (+) Imag(c, g) /\ Far(c, e) = Real(c, g) (-) Imag(c, i)
  BY <1>1, <1>2, PackedInTurn
<1> HIDE DEF g, M
<1>5. d = 2 * i /\ e = 2 * i + 1
  OBVIOUS
<1> HIDE DEF d, e
<1>6. /\ NearCell(c, i, Near(c, d), Near(c, e)) = Placed(c, {d, e})
      /\ FarCell(c, i, Far(c, d), Far(c, e)) = Placed(c, {M + d, M + e})
  <2>1. InCell(i, d, e) /\ e < RowLen(c)
    BY <1>1, <1>2, <1>5 DEF InCell
  <2> QED BY <1>1, <2>1, CellPlaced DEF M
<1>7. Both(c, {d, e}) = Join({d, e}, {M + d, M + e})
  <2>1. {M + x : x \in {d, e}} = {M + d, M + e}
    OBVIOUS
  <2> QED BY <2>1 DEF Both, M, Join
<1>8. NearCell(c, i, Near(c, d), Near(c, e)) ## FarCell(c, i, Far(c, d), Far(c, e)) = Placed(c, Both(c, {d, e}))
  BY <1>6, <1>7, PlacedOver
<1> QED BY <1>3, <1>4, <1>8 DEF d, e, g, L

(* When mic stores, its local arrays hold the latitudes after those which are cleared, up to the equator
   and to an even number of them. *)
LEMMA BufferFacts ==
  ASSUME RowsInv, pc = "store"
  PROVE  /\ call \in Calls /\ call.kernel = "mic" /\ Packed(call)
         /\ NLAT_2(call) \in Nat /\ NLAT_2(call) + (NLAT_2(call) % 2) <= call.nlat /\ Polar(call) <= NLAT_2(call)
         /\ \A i \in Nat : Polar(call) <= i /\ i < NLAT_2(call) + (NLAT_2(call) % 2) => i \in buffer /\ i < call.nlat
<1> DEFINE c == call
           V == VSIZE2(c)
           n == NLAT_2(c)
           S == Start(c)
           P == Polar(c)
           L == c.nlat
           B == Blocks(c)
           w == c.nway
<1>1. /\ c \in Calls /\ c.kernel = "mic" /\ k \in Nat /\ k >= B /\ buffer = (V * S)..(V * k - 1)
  BY DEF RowsInv, RowsState
<1>2. Packed(c)
  BY <1>1, CallFacts DEF Packed, CallExists
<1>3. /\ V \in {2, 4, 8} /\ n \in Nat /\ B \in Nat /\ n <= B * V /\ L = 2 * n /\ L \in Nat /\ L > 0
      /\ S \in Nat /\ P \in Nat /\ V * S <= P /\ P <= n
  <2>1. P <= c.tm /\ c.tm < n /\ c.tm \in Nat /\ P \in Nat /\ n \in Nat
    BY <1>1, PolarFacts, SizeFacts
  <2>2. P <= n
    BY <2>1
  <2> QED BY <1>1, <1>2, <2>2, SizeFacts, CallFacts, LayoutFacts, PolarFacts
<1> HIDE DEF c, V, n, S, P, L, B, w
<1>4. n + (n % 2) <= V * k
  <2>1. CASE V = 2
    BY <1>1, <1>3, <2>1
  <2>2. CASE V = 4
    BY <1>1, <1>3, <2>2
  <2>3. CASE V = 8
    BY <1>1, <1>3, <2>3
  <2> QED BY <1>3, <2>1, <2>2, <2>3
<1>5. n + (n % 2) <= L
  BY <1>3
<1>6. \A i \in Nat : P <= i /\ i < n + (n % 2) => i \in buffer /\ i < L
  <2> DEFINE x == V * S
             y == V * k
             z == n + (n % 2)
  <2>1. x \in Nat /\ y \in Nat /\ z \in Nat /\ x <= P /\ z <= y /\ z <= L /\ buffer = x..(y - 1)
    BY <1>1, <1>3, <1>4, <1>5
  <2> HIDE DEF x, y, z
  <2>2. \A i \in Nat : P <= i /\ i < z => i \in buffer /\ i < L
    BY <1>3, <2>1
  <2> QED BY <2>2 DEF z
<1> QED BY <1>1, <1>2, <1>3, <1>5, <1>6 DEF c, n, P, L

(* What they hold is the field. *)
LEMMA KeptFacts ==
  ASSUME call \in Calls, NEW i \in Nat, i \in buffer, i < call.nlat
  PROVE  /\ nr(i) = Real(call, i) /\ sr(i) = Real(call, call.nlat - 1 - i)
         /\ ni(i) = Imag(call, i) /\ si(i) = Imag(call, call.nlat - 1 - i)
<1>1. \A f : Kept(f, i) = Part(call, f, i)
  BY DEF Kept
<1>2. /\ nr(i) = Part(call, "er", i) (+) Part(call, "od", i)
      /\ sr(i) = Part(call, "er", i) (-) Part(call, "od", i)
      /\ ni(i) = IF call.im = 0 THEN Zero ELSE Part(call, "ei", i) (+) Part(call, "oi", i)
      /\ si(i) = IF call.im = 0 THEN Zero ELSE Part(call, "ei", i) (-) Part(call, "oi", i)
  BY <1>1 DEF nr, sr, ni, si
<1>3. /\ Part(call, "er", i) (-) Part(call, "od", i) = Real(call, call.nlat - 1 - i)
      /\ (IF call.im = 0 THEN Zero ELSE Part(call, "ei", i) (-) Part(call, "oi", i)) = Imag(call, call.nlat - 1 - i)
  BY FieldFacts
<1> QED BY <1>2, <1>3 DEF Real, Imag

(* The rows have been stored, up to the equator. *)
LEMMA EndOfMic ==
  ASSUME NEW c \in Calls, Packed(c), NEW m, NEW w,
         w = IF c.magic THEN NLAT_2(c) ELSE NLAT_2(c) + (NLAT_2(c) % 2), m = Filled(c, Polar(c), w, Polar(c))
  PROVE  Ended(c, m)
<1> DEFINE n == NLAT_2(c)
           P == Polar(c)
           L == c.nlat
<1>1. n \in Nat /\ L = 2 * n /\ L > 0 /\ P \in Nat /\ P % 2 = 0 /\ L \in Nat /\ c.magic \in BOOLEAN
  BY CallFacts, LayoutFacts, SizeFacts, PolarFacts
<1>2. w = IF c.magic THEN n ELSE n + (n % 2)
  OBVIOUS
<1> HIDE DEF n, L
<1>3. w \in Nat /\ n <= w /\ w <= L /\ (~c.magic => w % 2 = 0) /\ (c.magic => w <= n)
  BY <1>1, <1>2
<1>4. P <= P
  BY <1>1
<1> QED BY <1>1, <1>3, <1>4 DEF Ended, n, L

(* mic stores row 0. *)
LEMMA MicStoreM0Rows ==
  ASSUME RowsInv, MicStoreM0
  PROVE  RowsInv'
<1> DEFINE c == call
           n == NLAT_2(c)
           L == c.nlat
           E == {x \in 0..(n - 1) : x % 2 = 0}
           one(i) == Cell(i, nr(i), sr(i))
           pair(i) == Cell(n - 1 - i \div 2, sr(i + 1), sr(i)) ## Cell(i \div 2, nr(i), nr(i + 1))
<1>1. /\ pc = "store" /\ c.kind = "m0" /\ call' = c /\ k' = k /\ buffer' = buffer /\ pc' = "analyse"
      /\ mem' = IF c.magic THEN Merge({one(i) : i \in 0..(n - 1)}) ELSE Merge({pair(i) : i \in E})
  BY DEF MicStoreM0
<1>2. /\ c \in Calls /\ c.kernel = "mic" /\ Packed(c) /\ n \in Nat
      /\ \A i \in Nat : Polar(c) <= i /\ i < n + (n % 2) => i \in buffer /\ i < L
  BY <1>1, BufferFacts
<1>3. c.im = 0 /\ Polar(c) = 0 /\ L = 2 * n /\ L \in Nat
  BY <1>1, <1>2, CallFacts, PolarFacts, LayoutFacts DEF CallExists
<1>4. \A i \in Nat : i < n + (n % 2) => i < L /\ nr(i) = Real(c, i) /\ sr(i) = Real(c, L - 1 - i)
  <2> TAKE i \in Nat
  <2> HAVE i < n + (n % 2)
  <2>1. i \in buffer /\ i < L
    BY <1>2, <1>3
  <2> QED BY <1>2, <2>1, KeptFacts
<1>5. ASSUME c.magic PROVE mem' = Placed(c, Both(c, Band(c, 0, n)))
  <2>1. \A i \in 0..(n - 1) : one(i) = Placed(c, Both(c, Band(c, i, i + 1)))
    <3> TAKE i \in 0..(n - 1)
    <3>1. i \in Nat /\ i < n /\ i < n + (n % 2)
      BY <1>2
    <3>2. one(i) = Cell(i, Real(c, i), Real(c, L - 1 - i))
      BY <1>4, <3>1
    <3> QED BY <1>2, <1>3, <1>5, <3>1, <3>2, OnePlacedM0
  <2> HIDE DEF one, c
  <2>2. {one(i) : i \in 0..(n - 1)} = {Placed(c, Both(c, Band(c, i, i + 1))) : i \in 0..(n - 1)}
    BY <2>1
  <2>3. Merge({Placed(c, Both(c, Band(c, i, i + 1))) : i \in 0..(n - 1)}) = Placed(c, Both(c, Band(c, 0, n)))
    <3>1. 0 \in Nat /\ 0 <= n
      BY <1>2
    <3> QED BY <1>2, <3>1, MergeBands
  <2> QED BY <1>1, <1>5, <2>2, <2>3
<1>6. ASSUME ~c.magic PROVE mem' = Placed(c, Both(c, Band(c, 0, n + (n % 2))))
  <2>1. \A i \in E : pair(i) = Placed(c, Both(c, Band(c, i, i + 2)))
    <3> TAKE i \in E
    <3> DEFINE e == i + 1
    <3>1. i \in Nat /\ i < n /\ i % 2 = 0
      BY <1>2
    <3>2. i < n + (n % 2) /\ e \in Nat /\ e < n + (n % 2) /\ L - 1 - e = L - 2 - i
      BY <1>2, <1>3, <3>1
    <3>3. /\ nr(i) = Real(c, i) /\ sr(i) = Real(c, L - 1 - i)
          /\ nr(e) = Real(c, e) /\ sr(e) = Real(c, L - 1 - e)
      BY <1>4, <3>1, <3>2
    <3>4. pair(i) = Cell(n - 1 - i \div 2, Real(c, L - 2 - i), Real(c, L - 1 - i)) ## Cell(i \div 2, Real(c, i), Real(c, i + 1))
      BY <3>2, <3>3
    <3> QED BY <1>2, <1>3, <1>6, <3>1, <3>4, PairPlacedM0
  <2> HIDE DEF pair, c
  <2>2. {pair(i) : i \in E} = {Placed(c, Both(c, Band(c, i, i + 2))) : i \in E}
    BY <2>1
  <2>3. Merge({Placed(c, Both(c, Band(c, i, i + 2))) : i \in E}) = Placed(c, Both(c, Band(c, 0, n + (n % 2))))
    <3>1. 0 \in Nat /\ 0 % 2 = 0 /\ 0 <= n
      BY <1>2
    <3> QED BY <1>2, <3>1, MergeBands
  <2> QED BY <1>1, <1>6, <2>2, <2>3
<1> HIDE DEF c, n
<1>7. \A D : Placed(c, D) ## [a \in {} |-> Zero] = Placed(c, D)
  BY DEF Placed, ##
<1>8. Zeros(c, Both(c, Band(c, 0, 0))) = [a \in {} |-> Zero]
  BY <1>2, FilledStart
<1> DEFINE w == IF c.magic THEN n ELSE n + (n % 2)
<1>9. mem' = Filled(c, 0, w, 0)
  BY <1>5, <1>6, <1>7, <1>8 DEF Filled
<1>10. Ended(c, mem')
  <2>1. w = IF c.magic THEN NLAT_2(c) ELSE NLAT_2(c) + (NLAT_2(c) % 2)
    BY DEF n
  <2> HIDE DEF w
  <2> QED BY <1>2, <1>3, <1>9, <2>1, EndOfMic
<1>11. RowsState(c, "analyse", k, mem', buffer)
  BY <1>1, <1>10 DEF RowsInv, RowsState, c
<1> QED BY <1>1, <1>11 DEF RowsInv

(* mic stores the two rows of an order and clears their poles. *)
LEMMA MicStoreRows ==
  ASSUME RowsInv, MicStore
  PROVE  RowsInv'
<1> DEFINE c == call
           n == NLAT_2(c)
           L == c.nlat
           P == 2 * (c.tm \div 2)
           from == P..(n - 1)
           E == {x \in from : x % 2 = 0}
           pair(i) == NearCell(c, i \div 2, nr(i) (-) ni(i + 1), nr(i + 1) (+) ni(i))
                      ## FarCell(c, i \div 2, nr(i) (+) ni(i + 1), nr(i + 1) (-) ni(i))
                      ## NearCell(c, n - 1 - i \div 2, sr(i + 1) (-) si(i), sr(i) (+) si(i + 1))
                      ## FarCell(c, n - 1 - i \div 2, sr(i + 1) (+) si(i), sr(i) (-) si(i + 1))
           one(i) == NearCell(c, i, nr(i) (-) si(i), sr(i) (+) ni(i)) ## FarCell(c, i, nr(i) (+) si(i), sr(i) (-) ni(i))
           zeros == ZeroCells(c, PolarCells(c, P \div 2, n))
<1>1. /\ pc = "store" /\ c.kind = "m" /\ call' = c /\ k' = k /\ buffer' = buffer /\ pc' = "analyse"
      /\ mem' = (IF c.magic THEN Merge({one(i) : i \in from}) ELSE Merge({pair(i) : i \in E})) ## zeros
  BY DEF MicStore, NearCell, FarCell
<1>2. /\ c \in Calls /\ c.kernel = "mic" /\ Packed(c) /\ n \in Nat
      /\ \A i \in Nat : Polar(c) <= i /\ i < n + (n % 2) => i \in buffer /\ i < L
  BY <1>1, BufferFacts
<1>3. HasMirror(c) /\ Polar(c) = P /\ P \in Nat /\ P % 2 = 0 /\ P <= n /\ L = 2 * n /\ L \in Nat /\ c.im > 0 /\ L % 2 = 0
  <2>1. c.im > 0
    BY <1>1, <1>2, CallFacts DEF CallExists
  <2>2. Polar(c) = P /\ P \in Nat /\ P % 2 = 0
    BY <1>2, PolarFacts DEF Polar
  <2>3. P <= n
    BY <1>1, <2>2, BufferFacts
  <2> QED BY <1>2, <2>1, <2>2, <2>3, CallFacts, LayoutFacts DEF HasMirror
<1>4. \A i \in Nat : P <= i /\ i < n + (n % 2) =>
         /\ i < L /\ nr(i) = Real(c, i) /\ sr(i) = Real(c, L - 1 - i)
         /\ ni(i) = Imag(c, i) /\ si(i) = Imag(c, L - 1 - i)
  <2> TAKE i \in Nat
  <2> HAVE P <= i /\ i < n + (n % 2)
  <2>1. i \in buffer /\ i < L
    BY <1>2, <1>3
  <2> QED BY <1>2, <2>1, KeptFacts
<1> DEFINE p == P
<1>5. p = P /\ p \in Nat /\ p % 2 = 0 /\ p <= n
  BY <1>3
<1> HIDE DEF p
<1>6. ASSUME c.magic PROVE Merge({one(i) : i \in from}) = Placed(c, Both(c, Band(c, p, n)))
  <2>1. \A i \in from : one(i) = Placed(c, Both(c, Band(c, i, i + 1)))
    <3> TAKE i \in from
    <3>1. i \in Nat /\ P <= i /\ i < n /\ i < n + (n % 2)
      BY <1>2, <1>3
    <3> DEFINE g == L - 1 - i
    <3>2. nr(i) = Real(c, i) /\ sr(i) = Real(c, g) /\ ni(i) = Imag(c, i) /\ si(i) = Imag(c, g)
      BY <1>4, <3>1
    <3> HIDE DEF g
    <3>3. one(i) = NearCell(c, i, Real(c, i) (-) Imag(c, g), Real(c, g) (+) Imag(c, i))
                   ## FarCell(c, i, Real(c, i) (+) Imag(c, g), Real(c, g) (-) Imag(c, i))
      BY <3>2
    <3> QED BY <1>2, <1>3, <1>6, <3>1, <3>3, OnePlaced DEF g
  <2>2. from = p..(n - 1)
    BY <1>5
  <2> HIDE DEF one, c, from
  <2>3. {one(i) : i \in from} = {Placed(c, Both(c, Band(c, i, i + 1))) : i \in p..(n - 1)}
    BY <2>1, <2>2
  <2>4. Merge({Placed(c, Both(c, Band(c, i, i + 1))) : i \in p..(n - 1)}) = Placed(c, Both(c, Band(c, p, n)))
    BY <1>2, <1>5, MergeBands
  <2> QED BY <2>3, <2>4
<1>7. ASSUME ~c.magic PROVE Merge({pair(i) : i \in E}) = Placed(c, Both(c, Band(c, p, n + (n % 2))))
  <2>1. \A i \in E : pair(i) = Placed(c, Both(c, Band(c, i, i + 2)))
    <3> TAKE i \in E
    <3> DEFINE e == i + 1
               f == L - 2 - i
               g == L - 1 - i
    <3>1. i \in Nat /\ P <= i /\ i < n /\ i % 2 = 0
      <4>1. i \in p..(n - 1) /\ i % 2 = 0
        BY <1>5
      <4> HIDE DEF E, n
      <4>2. i \in Nat /\ p <= i /\ i < n
        BY <1>2, <1>5, <4>1
      <4> QED BY <1>5, <4>1, <4>2
    <3>2. i < n + (n % 2) /\ e \in Nat /\ P <= e /\ e < n + (n % 2) /\ L - 1 - e = f
      <4>1. n \in Nat /\ L = 2 * n /\ p \in Nat /\ p <= i /\ i \in Nat /\ i < n /\ i % 2 = 0
        BY <1>2, <1>3, <1>5, <3>1
      <4> HIDE DEF E, n, L
      <4>2. i < n + (n % 2) /\ e \in Nat /\ p <= e /\ e < n + (n % 2) /\ L - 1 - e = f
        BY <4>1
      <4> QED BY <1>5, <4>2
    <3>3. /\ nr(i) = Real(c, i) /\ sr(i) = Real(c, g) /\ ni(i) = Imag(c, i) /\ si(i) = Imag(c, g)
          /\ nr(e) = Real(c, e) /\ sr(e) = Real(c, f) /\ ni(e) = Imag(c, e) /\ si(e) = Imag(c, f)
      BY <1>4, <3>1, <3>2
    <3> HIDE DEF f, g
    <3>4. pair(i) = NearCell(c, i \div 2, Real(c, i) (-) Imag(c, i + 1), Real(c, i + 1) (+) Imag(c, i))
                    ## FarCell(c, i \div 2, Real(c, i) (+) Imag(c, i + 1), Real(c, i + 1) (-) Imag(c, i))
                    ## NearCell(c, n - 1 - i \div 2, Real(c, f) (-) Imag(c, g), Real(c, g) (+) Imag(c, f))
                    ## FarCell(c, n - 1 - i \div 2, Real(c, f) (+) Imag(c, g), Real(c, g) (-) Imag(c, f))
      BY <3>3
    <3> QED BY <1>2, <1>3, <1>7, <3>1, <3>4, PairPlaced DEF f, g
  <2>2. E = {x \in p..(n - 1) : x % 2 = 0}
    BY <1>5
  <2> HIDE DEF pair, c, E
  <2>3. {pair(i) : i \in E} = {Placed(c, Both(c, Band(c, i, i + 2))) : i \in {x \in p..(n - 1) : x % 2 = 0}}
    BY <2>1, <2>2
  <2>4. Merge({Placed(c, Both(c, Band(c, i, i + 2))) : i \in {x \in p..(n - 1) : x % 2 = 0}})
          = Placed(c, Both(c, Band(c, p, n + (n % 2))))
    BY <1>2, <1>5, MergeBands
  <2> QED BY <2>3, <2>4
<1>8. zeros = Zeros(c, Both(c, Band(c, 0, p)))
  <2> DEFINE l == P \div 2
             m == n
  <2>1. l \in Nat /\ 2 * l = p /\ m = RowLen(c) \div 2
    <3>1. RowLen(c) = L
      BY <1>2, LayoutFacts
    <3>2. L \div 2 = n
      BY <1>2, <1>3
    <3> QED BY <1>3, <1>5, <3>1, <3>2
  <2> HIDE DEF l, m
  <2>2. 2 * l <= NLAT_2(c)
    BY <1>5, <2>1
  <2>3. ZeroCells(c, PolarCells(c, l, m)) = Zeros(c, Both(c, Band(c, 0, IF Packed(c) THEN 2 * l ELSE l)))
    BY <1>2, <1>3, <2>1, <2>2, PolarZeros
  <2> QED BY <1>2, <2>1, <2>3 DEF l, m
<1> DEFINE w == IF c.magic THEN n ELSE n + (n % 2)
<1>9. mem' = Filled(c, p, w, p)
  <2> HIDE DEF c, n, one, pair, zeros, E, from
  <2>1. (IF c.magic THEN Merge({one(i) : i \in from}) ELSE Merge({pair(i) : i \in E})) = Placed(c, Both(c, Band(c, p, w)))
    BY <1>6, <1>7
  <2> QED BY <1>1, <1>8, <2>1 DEF Filled
<1>10. Ended(c, mem')
  <2>1. w = IF c.magic THEN NLAT_2(c) ELSE NLAT_2(c) + (NLAT_2(c) % 2)
    BY DEF n
  <2>2. Polar(c) = p
    BY <1>3, <1>5
  <2> HIDE DEF w, c
  <2> QED BY <1>2, <1>9, <2>1, <2>2, EndOfMic
<1>11. RowsState(c, "analyse", k, mem', buffer)
  BY <1>1, <1>10 DEF RowsInv, RowsState
<1> QED BY <1>1, <1>11 DEF RowsInv

(* Analysis leaves the rows as they are. *)
LEMMA AnalysisRows ==
  ASSUME RowsInv, Analyse \/ SumBlock
  PROVE  RowsInv'
<1>1. call' = call /\ mem' = mem /\ buffer' = buffer /\ pc' \in {"sums", "done"} /\ pc \in {"analyse", "sums"}
  BY DEF Analyse, SumBlock
<1>2. RowsState(call, pc', k', mem, buffer)
  BY <1>1 DEF RowsInv, RowsState
<1> QED BY <1>1, <1>2 DEF RowsInv

(* The rows are empty at the start. *)
LEMMA RowsStart ==
  ASSUME Init
  PROVE  RowsInv
<1>1. call \in Calls /\ pc = "poles" /\ k = 0 /\ mem = [a \in {} |-> Zero] /\ buffer = {}
  BY DEF Init
<1> QED BY <1>1 DEF RowsInv, RowsState

(* Every step leaves the rows as they must be. *)
LEMMA RowsStep ==
  ASSUME NoneMisplaced, RowsInv, [Next]_vars
  PROVE  RowsInv'
<1>1. CASE FlyPoles
  BY <1>1, FlyPolesRows
<1>2. CASE FixedPoles
  BY <1>2, FixedPolesRows
<1>3. CASE NoPoles
  BY <1>3, NoPolesRows
<1>4. CASE FlyBlock
  BY <1>4, FlyBlockRows
<1>5. CASE MicBlock
  BY <1>5, MicBlockRows
<1>6. CASE MicStoreM0
  BY <1>6, MicStoreM0Rows
<1>7. CASE MicStore
  BY <1>7, MicStoreRows
<1>8. CASE Analyse \/ SumBlock
  BY <1>8, AnalysisRows
<1>9. CASE UNCHANGED vars
  BY <1>9 DEF vars, RowsInv
<1> QED BY <1>1, <1>2, <1>3, <1>4, <1>5, <1>6, <1>7, <1>8, <1>9 DEF Next

(* What the array holds at a double of either row. *)
LEMMA FilledAt ==
  ASSUME NEW c \in Calls, NEW u \in Nat, NEW v \in Nat, NEW z \in Nat
  PROVE  /\ \A d : d \in Both(c, Band(c, u, v)) => /\ RowAt(c) + d \in DOMAIN Filled(c, u, v, z)
                                                  /\ Filled(c, u, v, z)[RowAt(c) + d] = Expected(c, d)
         /\ \A d : d \in Both(c, Band(c, 0, z)) /\ d \notin Both(c, Band(c, u, v)) =>
              /\ RowAt(c) + d \in DOMAIN Filled(c, u, v, z)
              /\ Filled(c, u, v, z)[RowAt(c) + d] = Zero
<1> DEFINE r == RowAt(c)
           D == Both(c, Band(c, u, v))
           E == Both(c, Band(c, 0, z))
           P == Placed(c, D)
           Z == Zeros(c, E)
<1>1. r \in Nat
  BY RowAtInt
<1>2. Mirrored(c) \in Int /\ D \subseteq Int /\ E \subseteq Int
  <2>1. Packed(c) => Mirrored(c) \in Int
    BY LayoutFacts
  <2>2. Band(c, u, v) \subseteq Int /\ Band(c, 0, z) \subseteq Int
    BY DEF Band
  <2>3. Mirrored(c) \in Int
    BY CallFacts DEF Mirrored
  <2> HIDE DEF D, E
  <2>4. \A S : S \subseteq Int => Both(c, S) \subseteq Int
    <3> DEFINE M == Mirrored(c)
    <3> TAKE S
    <3> HAVE S \subseteq Int
    <3>1. M \in Int
      BY <2>3
    <3> HIDE DEF M
    <3>2. \A d \in S : M + d \in Int
      BY <3>1
    <3>3. Both(c, S) = S \/ Both(c, S) = S \cup {M + d : d \in S}
      BY DEF Both, M
    <3> QED BY <3>2, <3>3
  <2> QED BY <2>2, <2>3, <2>4 DEF D, E
<1>3. DOMAIN P = {r + d : d \in D} /\ DOMAIN Z = {r + d : d \in E}
  BY DEF Placed, Zeros
<1>4. \A d \in D : r + d \in DOMAIN P /\ P[r + d] = Expected(c, d)
  <2> TAKE d \in D
  <2> HIDE DEF r, D
  <2>1. d \in Int /\ (r + d) - r = d
    BY <1>1, <1>2
  <2>2. P[r + d] = Expected(c, (r + d) - r)
    BY DEF Placed, r
  <2> QED BY <1>3, <2>1, <2>2
<1>5. \A d \in E : r + d \in DOMAIN Z /\ Z[r + d] = Zero
  BY DEF Zeros
<1>6. \A d \in Int : r + d \in DOMAIN P => d \in D
  <2> HIDE DEF r, D, P
  <2> QED BY <1>1, <1>2, <1>3
<1>7. Filled(c, u, v, z) = P ## Z
  BY DEF Filled
<1> HIDE DEF P, Z, r, D, E
<1>8. \A x \in DOMAIN P : x \in DOMAIN (P ## Z) /\ (P ## Z)[x] = P[x]
  BY DEF ##
<1>9. \A x \in DOMAIN Z : x \in DOMAIN (P ## Z) /\ (x \notin DOMAIN P => (P ## Z)[x] = Z[x])
  BY DEF ##
<1>10. \A d : d \in D => r + d \in DOMAIN (P ## Z) /\ (P ## Z)[r + d] = Expected(c, d)
  BY <1>4, <1>8
<1>11. \A d : d \in E /\ d \notin D => r + d \in DOMAIN (P ## Z) /\ (P ## Z)[r + d] = Zero
  BY <1>2, <1>5, <1>6, <1>9
<1> QED BY <1>7, <1>10, <1>11 DEF D, E, r

(* The rows which the array must hold when they have been stored. *)
Bounds(c, u, v) ==
  /\ u \in Nat /\ v \in Nat /\ u <= Polar(c) /\ NLAT_2(c) <= v /\ v <= c.nlat
  /\ Packed(c) /\ ~c.magic => u % 2 = 0 /\ v % 2 = 0
  /\ c.magic => v <= NLAT_2(c)

(* A latitude which has not been stored was cleared, and the polar optimisation skips it. *)
LEMMA LatitudeCovered ==
  ASSUME NEW c \in Calls, NEW u, NEW v, Bounds(c, u, v), NEW x \in Nat, x < c.nlat, ~Within(c, x, u, v)
  PROVE  Within(c, x, 0, Polar(c)) /\ c.im > 0 /\ North(c, x) < c.tm
<1> DEFINE L == c.nlat
           N == NLAT_2(c)
           P == Polar(c)
           T == c.tm
           n == North(c, x)
<1>1. L \in Nat /\ N \in Nat /\ P \in Nat /\ T \in Nat /\ P <= T /\ 2 * N <= L + 1 /\ L <= 2 * N /\ (c.im = 0 => P = 0) /\ c.im \in Nat
  <2>1. L \in Nat /\ c.im \in Nat /\ N = (L + 1) \div 2
    BY CallFacts DEF NLAT_2
  <2>2. P \in Nat /\ T \in Nat /\ P <= T /\ (c.im = 0 => P = 0)
    BY PolarFacts
  <2> HIDE DEF L, N, P, T
  <2>3. N \in Nat /\ 2 * N <= L + 1 /\ L <= 2 * N
    BY <2>1
  <2> QED BY <2>1, <2>2, <2>3
<1>2. u \in Nat /\ v \in Nat /\ u <= P /\ N <= v
  BY DEF Bounds
<1>3. n = IF x < N THEN x ELSE L - 1 - x
  BY DEF North
<1>4. x \notin u..(v - 1) /\ L - 1 - x \notin u..(v - 1)
  BY DEF Within
<1>5. (n = x \/ n = L - 1 - x) /\ n \in Nat /\ n < N
  <2>1. x < L /\ x \in Nat
    OBVIOUS
  <2> HIDE DEF L, N, P, T, n
  <2> QED BY <1>1, <1>3, <2>1
<1>6. n < P
  <2> HIDE DEF L, N, P, T, n
  <2>1. n \notin u..(v - 1)
    BY <1>4, <1>5
  <2> QED BY <1>1, <1>2, <1>5, <2>1
<1>7. n \in 0..(P - 1) /\ n < T /\ c.im > 0
  <2> HIDE DEF L, N, T, P, n
  <2> QED BY <1>1, <1>5, <1>6
<1>8. Within(c, x, 0, P)
  <2> HIDE DEF n, P
  <2> QED BY <1>5, <1>7 DEF Within
<1> QED BY <1>7, <1>8

(* The two doubles of a complex number are stored together. *)
LEMMA CellsTogether ==
  ASSUME NEW c \in Calls, NEW u, NEW v, Bounds(c, u, v), NEW d \in 0..(RowLen(c) - 1), d % 2 = 0, c.magic => c.nlat % 2 = 0
  PROVE  /\ d + 1 \in 0..(RowLen(c) - 1)
         /\ Within(c, Lat(c, d + 1), u, v) <=> Within(c, Lat(c, d), u, v)
<1> DEFINE L == c.nlat
           R == RowLen(c)
           e == d + 1
           x == Lat(c, d)
           y == Lat(c, e)
<1>1. L \in Nat /\ R \in Nat /\ R % 2 = 0 /\ d \in Nat /\ d < R
  <2>1. L \in Nat
    BY CallFacts
  <2>2. (Packed(c) => R = L /\ L % 2 = 0) /\ (~Packed(c) => R = 2 * L)
    BY LayoutFacts
  <2> HIDE DEF L, R
  <2>3. R \in Nat /\ R % 2 = 0
    BY <2>1, <2>2
  <2> QED BY <2>1, <2>3 DEF R
<1>2. e \in 0..(R - 1)
  <2> HIDE DEF R
  <2> QED BY <1>1
<1>3. x \in Nat /\ x < L /\ y \in Nat /\ y < L
  <2> HIDE DEF e
  <2> QED BY <1>2, LatFacts
<1>4. e % 2 = 1 /\ e \div 2 = d \div 2 /\ e \in Nat /\ (e \div 2) % 2 = (d \div 2) % 2 /\ e \div 4 = d \div 4
  <2>1. e % 2 = 1 /\ e \div 2 = d \div 2 /\ e \in Nat
    BY <1>1
  <2> QED BY <1>1, <2>1
<1> HIDE DEF e
<1>5. y = x \/ y = L - 1 - x \/ (Packed(c) /\ ~c.magic /\ x = d /\ y = d + 1)
  <2>1. CASE Packed(c) /\ ~c.magic
    BY <1>2, <2>1, LatFacts DEF e
  <2>2. CASE ~Packed(c) /\ ~c.magic
    BY <1>2, <1>4, <2>2, LatFacts
  <2>3. CASE Packed(c) /\ c.magic
    <3>1. x = d \div 2 /\ y = L - 1 - e \div 2
      BY <1>2, <1>4, <2>3, LatFacts
    <3> QED BY <1>4, <3>1
  <2>4. CASE ~Packed(c) /\ c.magic
    <3>1. IF (d \div 2) % 2 = 0 THEN x = d \div 4 ELSE x = L - 1 - d \div 4
      BY <2>4, LatFacts
    <3>2. IF (e \div 2) % 2 = 0 THEN y = e \div 4 ELSE y = L - 1 - e \div 4
      BY <1>2, <2>4, LatFacts
    <3> HIDE DEF x, y, L
    <3> QED BY <1>4, <3>1, <3>2
  <2> QED BY <2>1, <2>2, <2>3, <2>4, LayoutFacts, CallFacts
<1>6. y \in u..(v - 1) \/ L - 1 - y \in u..(v - 1) <=> x \in u..(v - 1) \/ L - 1 - x \in u..(v - 1)
  <2>1. CASE y = x
    BY <2>1
  <2>2. CASE y = L - 1 - x
    <3> HIDE DEF x, y, L
    <3>1. L - 1 - y = x
      BY <1>1, <1>3, <2>2
    <3> QED BY <2>2, <3>1
  <2>3. CASE Packed(c) /\ ~c.magic /\ x = d /\ y = d + 1
    <3>1. u \in Nat /\ v \in Nat /\ u % 2 = 0 /\ v % 2 = 0
      BY <2>3 DEF Bounds
    <3>2. L % 2 = 0
      BY <2>3, LayoutFacts
    <3> HIDE DEF x, y, L
    <3>3. d \in u..(v - 1) <=> d + 1 \in u..(v - 1)
      BY <1>1, <3>1
    <3>4. L - 1 - d \in u..(v - 1) <=> L - 1 - (d + 1) \in u..(v - 1)
      BY <1>1, <3>1, <3>2
    <3> QED BY <2>3, <3>3, <3>4
  <2> QED BY <1>5, <2>1, <2>2, <2>3
<1>7. Within(c, y, u, v) <=> Within(c, x, u, v)
  <2> HIDE DEF x, y
  <2> QED BY <1>6 DEF Within
<1> QED BY <1>2, <1>7 DEF e

(* Both doubles of a complex number hold what is expected, or both are zero where the polar optimisation
   skips their latitudes. *)
CellHolds(m, a, c, d, re, im) ==
  LET e == d + 1
  IN  /\ a \in DOMAIN m /\ a + 1 \in DOMAIN m
      /\ \/ m[a] = re /\ m[a + 1] = im
         \/ /\ m[a] = Zero /\ m[a + 1] = Zero
            /\ c.im > 0 /\ North(c, Lat(c, d)) < c.tm /\ North(c, Lat(c, e)) < c.tm

(* The rows hold what is expected. *)
LEMMA EndedRight ==
  ASSUME NEW c \in Calls, NEW m, Ended(c, m), NEW d \in 0..(RowLen(c) - 1), d % 2 = 0, c.magic => c.nlat % 2 = 0
  PROVE  /\ CellHolds(m, RowAt(c) + d, c, d, Near(c, d), Near(c, d + 1))
         /\ HasMirror(c) => CellHolds(m, RowAt(c) + Mirrored(c) + d, c, d, Far(c, d), Far(c, d + 1))
<1>1. PICK u \in Nat, v \in Nat : Bounds(c, u, v) /\ m = Filled(c, u, v, Polar(c))
  BY DEF Ended, Bounds
<1> DEFINE e == d + 1
           R == RowLen(c)
           M == Mirrored(c)
           r == RowAt(c)
           P == Polar(c)
           x == Lat(c, d)
           y == Lat(c, e)
           B == Band(c, u, v)
           Z == Band(c, 0, P)
<1>2. e \in 0..(R - 1) /\ (Within(c, y, u, v) <=> Within(c, x, u, v))
  BY <1>1, CellsTogether
<1> HIDE DEF e
<1>3. x \in Nat /\ x < c.nlat /\ y \in Nat /\ y < c.nlat
  BY <1>2, LatFacts
<1>4. \/ d \in B /\ e \in B
      \/ /\ d \notin B /\ e \notin B /\ d \in Z /\ e \in Z
         /\ c.im > 0 /\ North(c, x) < c.tm /\ North(c, y) < c.tm
  <2>1. CASE Within(c, x, u, v)
    BY <1>2, <2>1 DEF Band
  <2>2. CASE ~Within(c, x, u, v)
    <3>1. Within(c, x, 0, P) /\ c.im > 0 /\ North(c, x) < c.tm
      BY <1>1, <1>3, <2>2, LatitudeCovered
    <3>2. Within(c, y, 0, P) /\ North(c, y) < c.tm
      BY <1>1, <1>2, <1>3, <2>2, LatitudeCovered
    <3> QED BY <1>2, <2>2, <3>1, <3>2 DEF Band
  <2> QED BY <2>1, <2>2
<1>5. R \in Nat /\ d \in Nat /\ d < R /\ e \in Nat /\ e < R /\ r \in Nat /\ P \in Nat /\ B \subseteq 0..(R - 1) /\ Z \subseteq 0..(R - 1)
  <2>1. R \in Nat
    BY LayoutFacts, CallFacts DEF RowLen
  <2>2. r \in Nat /\ P \in Nat
    BY RowAtInt, PolarFacts
  <2>3. B \subseteq 0..(R - 1) /\ Z \subseteq 0..(R - 1)
    BY DEF Band
  <2> HIDE DEF R, B, Z, r, P
  <2>4. d \in 0..(R - 1)
    BY DEF R
  <2> QED BY <1>2, <2>1, <2>2, <2>3, <2>4
<1>6. HasMirror(c) => M \in Nat /\ R <= M
  BY LayoutFacts
<1>7. /\ \A a : a \in Both(c, B) => r + a \in DOMAIN m /\ m[r + a] = Expected(c, a)
      /\ \A a : a \in Both(c, Z) /\ a \notin Both(c, B) => r + a \in DOMAIN m /\ m[r + a] = Zero
  <2> HIDE DEF B, Z, P, r
  <2> QED BY <1>1, <1>5, FilledAt DEF B, Z, P, r
<1>8. \A a \in {d, e} : /\ Expected(c, a) = Near(c, a)
                        /\ HasMirror(c) => Expected(c, M + a) = Far(c, a)
  <2> TAKE a \in {d, e}
  <2>1. a \in Nat /\ a < R
    BY <1>5
  <2>2. ASSUME HasMirror(c) PROVE ~(M + a < R) /\ (M + a) - M = a
    <3> HIDE DEF M, R
    <3> QED BY <1>5, <1>6, <2>1, <2>2
  <2> QED BY <2>1, <2>2 DEF Expected
<1>9. \A a \in {d, e} : \A S : S \subseteq 0..(R - 1) =>
         /\ a \in Both(c, S) <=> a \in S
         /\ HasMirror(c) => (M + a \in Both(c, S) <=> a \in S)
  <2> TAKE a \in {d, e}
  <2> TAKE S
  <2> HAVE S \subseteq 0..(R - 1)
  <2>1. a \in Nat /\ a < R
    BY <1>5
  <2>2. CASE ~HasMirror(c)
    BY <2>2 DEF Both
  <2>3. CASE HasMirror(c)
    <3>1. Both(c, S) = S \cup {M + q : q \in S}
      BY <2>3 DEF Both
    <3> HIDE DEF M, R
    <3>2. \A q \in S : q \in Nat /\ q < R
      BY <1>5
    <3>3. a \notin {M + q : q \in S}
      BY <1>5, <1>6, <2>1, <2>3, <3>2
    <3>4. M + a \notin S
      BY <1>5, <1>6, <2>1, <2>3, <3>2
    <3>5. M + a \in {M + q : q \in S} <=> a \in S
      BY <1>6, <2>1, <2>3, <3>2
    <3> QED BY <3>1, <3>3, <3>4, <3>5
  <2> QED BY <2>2, <2>3
<1>10. r + d + 1 = r + e /\ (HasMirror(c) => r + M + d = r + (M + d) /\ r + M + d + 1 = r + (M + e))
  <2>1. e = d + 1
    BY DEF e
  <2> HIDE DEF M, r
  <2> QED BY <1>5, <1>6, <2>1
<1>11. CellHolds(m, r + d, c, d, Near(c, d), Near(c, e))
  <2> HIDE DEF B, Z, x, y, r
  <2>1. CASE d \in B /\ e \in B
    <3>1. r + d \in DOMAIN m /\ r + e \in DOMAIN m /\ m[r + d] = Near(c, d) /\ m[r + e] = Near(c, e)
      BY <1>5, <1>7, <1>8, <1>9, <2>1
    <3> QED BY <1>10, <3>1 DEF CellHolds
  <2>2. CASE /\ d \notin B /\ e \notin B /\ d \in Z /\ e \in Z
             /\ c.im > 0 /\ North(c, x) < c.tm /\ North(c, y) < c.tm
    <3>1. r + d \in DOMAIN m /\ r + e \in DOMAIN m /\ m[r + d] = Zero /\ m[r + e] = Zero
      BY <1>5, <1>7, <1>9, <2>2
    <3>2. r + d \in DOMAIN m /\ r + d + 1 \in DOMAIN m /\ m[r + d] = Zero /\ m[r + d + 1] = Zero
      BY <1>10, <3>1
    <3> QED BY <2>2, <3>2 DEF CellHolds, x, y, e
  <2> QED BY <1>4, <2>1, <2>2
<1>12. HasMirror(c) => CellHolds(m, r + M + d, c, d, Far(c, d), Far(c, e))
  <2> HAVE HasMirror(c)
  <2> HIDE DEF B, Z, x, y, r, M
  <2>1. CASE d \in B /\ e \in B
    <3>1. /\ r + (M + d) \in DOMAIN m /\ r + (M + e) \in DOMAIN m
          /\ m[r + (M + d)] = Far(c, d) /\ m[r + (M + e)] = Far(c, e)
      BY <1>5, <1>7, <1>8, <1>9, <2>1
    <3> QED BY <1>10, <3>1 DEF CellHolds
  <2>2. CASE /\ d \notin B /\ e \notin B /\ d \in Z /\ e \in Z
             /\ c.im > 0 /\ North(c, x) < c.tm /\ North(c, y) < c.tm
    <3>1. r + (M + d) \in DOMAIN m /\ r + (M + e) \in DOMAIN m /\ m[r + (M + d)] = Zero /\ m[r + (M + e)] = Zero
      BY <1>5, <1>7, <1>9, <2>2
    <3>2. r + M + d \in DOMAIN m /\ r + M + d + 1 \in DOMAIN m /\ m[r + M + d] = Zero /\ m[r + M + d + 1] = Zero
      BY <1>10, <3>1
    <3> QED BY <2>2, <3>2 DEF CellHolds, x, y, e
  <2> QED BY <1>4, <2>1, <2>2
<1> QED BY <1>11, <1>12 DEF e

(* What is expected at the two doubles of a complex number. *)
LEMMA NearFar ==
  ASSUME NEW c, NEW j \in Nat
  PROVE  LET d == 2 * j
             e == 2 * j + 1
         IN  /\ Packed(c) => /\ Near(c, d) = Re(c, d) (-) Im(c, e) /\ Near(c, e) = Re(c, e) (+) Im(c, d)
                             /\ Far(c, d) = Re(c, d) (+) Im(c, e) /\ Far(c, e) = Re(c, e) (-) Im(c, d)
                             /\ Lat(c, d) = LatAt(c, d) /\ Lat(c, e) = LatAt(c, e)
             /\ ~Packed(c) => /\ Near(c, d) = Re(c, j) /\ Near(c, e) = Im(c, j)
                              /\ Lat(c, d) = LatAt(c, j) /\ Lat(c, e) = LatAt(c, j)
<1> DEFINE d == 2 * j
           e == 2 * j + 1
<1>1. d % 2 = 0 /\ e % 2 # 0 /\ e - 1 = d /\ d + 1 = e /\ d \div 2 = j /\ e \div 2 = j
  OBVIOUS
<1> HIDE DEF d, e
<1>2. /\ Packed(c) => /\ Near(c, d) = Re(c, d) (-) Im(c, e) /\ Near(c, e) = Re(c, e) (+) Im(c, d)
                      /\ Far(c, d) = Re(c, d) (+) Im(c, e) /\ Far(c, e) = Re(c, e) (-) Im(c, d)
                      /\ Lat(c, d) = LatAt(c, d) /\ Lat(c, e) = LatAt(c, e)
      /\ ~Packed(c) => /\ Near(c, d) = Re(c, j) /\ Near(c, e) = Im(c, j)
                       /\ Lat(c, d) = LatAt(c, j) /\ Lat(c, e) = LatAt(c, j)
  BY <1>1 DEF Near, Far, Lat
<1> QED BY <1>2 DEF d, e

(* The rows which have been stored are right. *)
LEMMA RowsHold ==
  ASSUME NoneMisplaced, RowsInv
  PROVE  RowsRight
<1> SUFFICES ASSUME pc \in {"analyse", "sums", "done"}
             PROVE  RowsRight
  BY DEF RowsRight
<1> DEFINE c == call
           R == RowLen(c)
<1>1. c \in Calls /\ Ended(c, mem) /\ StoresWell(c)
  BY DEF RowsInv, RowsState, NoneMisplaced
<1>2. c.magic => c.nlat % 2 = 0
  BY <1>1, MagicEven
<1>3. c.nlat \in Nat /\ (Packed(c) => R = c.nlat /\ c.nlat % 2 = 0) /\ (~Packed(c) => R = 2 * c.nlat)
  BY <1>1, LayoutFacts, CallFacts
<1>4. \A j \in Nat : 2 * j \in 0..(R - 1) =>
         /\ CellHolds(mem, RowAt(c) + 2 * j, c, 2 * j, Near(c, 2 * j), Near(c, 2 * j + 1))
         /\ HasMirror(c) => CellHolds(mem, RowAt(c) + Mirrored(c) + 2 * j, c, 2 * j, Far(c, 2 * j), Far(c, 2 * j + 1))
  <2> TAKE j \in Nat
  <2> DEFINE d == 2 * j
  <2>1. d % 2 = 0
    OBVIOUS
  <2> HAVE d \in 0..(R - 1)
  <2> HIDE DEF d, c
  <2>2. /\ CellHolds(mem, RowAt(c) + d, c, d, Near(c, d), Near(c, d + 1))
        /\ HasMirror(c) => CellHolds(mem, RowAt(c) + Mirrored(c) + d, c, d, Far(c, d), Far(c, d + 1))
    BY <1>1, <1>2, <2>1, EndedRight DEF R
  <2> QED BY <2>2 DEF d
<1>5. CASE Packed(c)
  <2> SUFFICES ASSUME NEW j \in 0..(c.nlat \div 2 - 1)
               PROVE  LET a == 2 * j   b == 2 * j + 1
                          plus == CellRight(c, RowAt(c) + 2 * j, Re(c, a) (-) Im(c, b), Re(c, b) (+) Im(c, a), {a, b})
                          minus == CellRight(c, RowAt(c) + Mirrored(c) + 2 * j, Re(c, a) (+) Im(c, b),
                                             Re(c, b) (-) Im(c, a), {a, b})
                      IN  plus /\ (HasMirror(c) => minus)
    BY <1>5 DEF RowsRight
  <2> DEFINE a == 2 * j
             b == 2 * j + 1
             q == RowAt(c) + a
             t == RowAt(c) + Mirrored(c) + a
  <2>1. j \in Nat /\ a \in 0..(R - 1) /\ a + 1 = b
    <3> DEFINE L == c.nlat
    <3>1. L \in Nat /\ R = L /\ L % 2 = 0 /\ j \in 0..(L \div 2 - 1)
      BY <1>3, <1>5
    <3> HIDE DEF L, R
    <3> QED BY <3>1
  <2>2. /\ Near(c, a) = Re(c, a) (-) Im(c, b) /\ Near(c, b) = Re(c, b) (+) Im(c, a)
        /\ Far(c, a) = Re(c, a) (+) Im(c, b) /\ Far(c, b) = Re(c, b) (-) Im(c, a)
        /\ Lat(c, a) = LatAt(c, a) /\ Lat(c, b) = LatAt(c, b)
    BY <1>5, <2>1, NearFar
  <2>3. /\ CellHolds(mem, q, c, a, Near(c, a), Near(c, b))
        /\ HasMirror(c) => CellHolds(mem, t, c, a, Far(c, a), Far(c, b))
    BY <1>4, <2>1
  <2> HIDE DEF a, b, q, t, c
  <2>4. \A at, re, im : CellHolds(mem, at, c, a, re, im) => CellRight(c, at, re, im, {a, b})
    BY <2>1, <2>2 DEF CellHolds, CellRight, Read, MayBeZero
  <2>5. CellRight(c, q, Near(c, a), Near(c, b), {a, b})
    BY <2>3, <2>4
  <2>6. HasMirror(c) => CellRight(c, t, Far(c, a), Far(c, b), {a, b})
    BY <2>3, <2>4
  <2> QED BY <2>2, <2>5, <2>6 DEF a, b, q, t
<1>6. CASE ~Packed(c)
  <2> SUFFICES ASSUME NEW p \in 0..(c.nlat - 1)
               PROVE  CellRight(c, RowAt(c) + 2 * p, Re(c, p), Im(c, p), {p})
    BY <1>6 DEF RowsRight
  <2> DEFINE a == 2 * p
             q == RowAt(c) + a
  <2>1. p \in Nat /\ a \in 0..(R - 1)
    <3> DEFINE L == c.nlat
    <3>1. L \in Nat /\ R = 2 * L /\ p \in 0..(L - 1)
      BY <1>3, <1>6
    <3> HIDE DEF L, R
    <3> QED BY <3>1
  <2>2. Near(c, a) = Re(c, p) /\ Near(c, a + 1) = Im(c, p) /\ Lat(c, a) = LatAt(c, p) /\ Lat(c, a + 1) = LatAt(c, p)
    BY <1>6, <2>1, NearFar
  <2>3. CellHolds(mem, q, c, a, Near(c, a), Near(c, a + 1))
    BY <1>4, <2>1
  <2> HIDE DEF a, q, c
  <2>4. CellRight(c, q, Re(c, p), Im(c, p), {p})
    BY <2>2, <2>3 DEF CellHolds, CellRight, Read, MayBeZero
  <2> QED BY <2>4 DEF a, q
<1> QED BY <1>5, <1>6

-----------------------------------------------------------------------------
(* Nothing is stored outside the rows.                                     *)

(* Forms made of latitudes which exist. *)
Clean(a) == \A x \in DOMAIN a : x[1] # "junk"

(* Sums and differences of such forms are such forms. *)
LEMMA CleanSums ==
  ASSUME NEW a, NEW b, Clean(a), Clean(b)
  PROVE  Clean(a (+) b) /\ Clean(a (-) b) /\ Clean(Zero)
<1>1. \A d : DOMAIN (a (+) d) \subseteq DOMAIN a \cup DOMAIN d
  BY DEF (+)
<1>2. DOMAIN Times(-1, b) = DOMAIN b
  BY DEF Times
<1>3. \A d : DOMAIN d = DOMAIN b => Clean(a (+) d)
  BY <1>1 DEF Clean
<1>4. Clean(a (-) b)
  BY <1>2, <1>3 DEF (-)
<1>5. Clean(Zero)
  BY DEF Clean, Zero
<1> QED BY <1>3, <1>4, <1>5

(* Parts at the latitudes of the grid. *)
LEMMA CleanParts ==
  ASSUME NEW c \in Calls, NEW f \in Even \cup Odd, NEW y \in Nat, y < c.nlat
  PROVE  Clean(Part(c, f, y))
<1>1. f # "junk"
  BY DEF Even, Odd
<1>2. \A i : Clean(One(<<f, i>>))
  <2> TAKE i
  <2>1. DOMAIN One(<<f, i>>) = {<<f, i>>} /\ <<f, i>>[1] = f
    BY DEF One
  <2> QED BY <1>1, <2>1 DEF Clean
<1>3. \A i : Clean(Times(-1, One(<<f, i>>)))
  <2> TAKE i
  <2>1. DOMAIN Times(-1, One(<<f, i>>)) = DOMAIN One(<<f, i>>)
    BY DEF Times
  <2> QED BY <1>2, <2>1 DEF Clean
<1>4. Clean(Zero)
  BY DEF Clean, Zero
<1>5. \/ y < c.nlat - 1 - y \/ y = c.nlat - 1 - y \/ y > c.nlat - 1 - y
  BY CallFacts
<1> QED BY <1>2, <1>3, <1>4, <1>5, PartIs

(* What is expected in the rows is made of latitudes which exist. *)
LEMMA CleanRows ==
  ASSUME NEW c \in Calls, NEW d \in 0..(RowLen(c) - 1)
  PROVE  Clean(Near(c, d)) /\ (Packed(c) => Clean(Far(c, d)))
<1> DEFINE R == RowLen(c)
           Fine(p) == LatAt(c, p) \in Nat /\ LatAt(c, p) < c.nlat
<1>1. \A p : Fine(p) => Clean(Re(c, p)) /\ Clean(Im(c, p))
  <2> TAKE p
  <2> DEFINE y == LatAt(c, p)
  <2> HAVE Fine(p)
  <2>1. \A f \in Even \cup Odd : Clean(Part(c, f, y))
    BY CleanParts
  <2> HIDE DEF y
  <2>2. Clean(Part(c, "er", y) (+) Part(c, "od", y)) /\ Clean(Part(c, "ei", y) (+) Part(c, "oi", y)) /\ Clean(Zero)
    BY <2>1, CleanSums DEF Even, Odd
  <2> QED BY <2>2 DEF Re, Im, y
<1>2. d \in Nat /\ d < R /\ R \in Nat
  <2>1. R \in Nat
    BY LayoutFacts, CallFacts DEF RowLen
  <2> QED BY <2>1
<1>3. CASE Packed(c)
  <2>1. \A e \in 0..(R - 1) : Fine(e)
    BY <1>3, LatFacts DEF Lat
  <2>2. R % 2 = 0
    BY <1>3, LayoutFacts
  <2>3. Fine(d) /\ (d % 2 = 0 => Fine(d + 1)) /\ (d % 2 # 0 => Fine(d - 1))
    <3> HIDE DEF R, Fine
    <3>1. (d % 2 = 0 => d + 1 \in 0..(R - 1)) /\ (d % 2 # 0 => d - 1 \in 0..(R - 1)) /\ d \in 0..(R - 1)
      BY <1>2, <2>2
    <3> QED BY <2>1, <3>1
  <2> HIDE DEF Fine
  <2>4. CASE d % 2 = 0
    <3>1. Clean(Re(c, d)) /\ Clean(Im(c, d + 1))
      BY <1>1, <2>3, <2>4
    <3> QED BY <1>3, <2>4, <3>1, CleanSums DEF Near, Far
  <2>5. CASE d % 2 # 0
    <3>1. Clean(Re(c, d)) /\ Clean(Im(c, d - 1))
      BY <1>1, <2>3, <2>5
    <3> QED BY <1>3, <2>5, <3>1, CleanSums DEF Near, Far
  <2> QED BY <2>4, <2>5
<1>4. CASE ~Packed(c)
  <2>1. Fine(d \div 2)
    BY <1>4, LatFacts DEF Lat
  <2> QED BY <1>1, <1>4, <2>1 DEF Near
<1> QED BY <1>3, <1>4

(* What has been stored is in the rows of the order. *)
LEMMA FilledInside ==
  ASSUME NEW c \in Calls, NEW u \in Nat, NEW v \in Nat, NEW z \in Nat
  PROVE  LET m == Filled(c, u, v, z)
             row(r) == {RowAt(c) + r + d : d \in 0..(RowLen(c) - 1)}
         IN  /\ DOMAIN m \subseteq IF HasMirror(c) THEN row(0) \cup row(Mirrored(c)) ELSE row(0)
             /\ \A a \in DOMAIN m : Clean(m[a])
<1> DEFINE m == Filled(c, u, v, z)
           R == RowLen(c)
           M == Mirrored(c)
           r0 == RowAt(c)
           row(r) == {r0 + r + d : d \in 0..(R - 1)}
           B == Band(c, u, v)
           Z == Band(c, 0, z)
           D == Both(c, B)
           E == Both(c, Z)
<1>1. DOMAIN m = {r0 + d : d \in D} \cup {r0 + d : d \in E}
  <2>1. DOMAIN Placed(c, D) = {r0 + d : d \in D} /\ DOMAIN Zeros(c, E) = {r0 + d : d \in E}
    BY DEF Placed, Zeros
  <2>2. m = Placed(c, D) ## Zeros(c, E)
    BY DEF Filled
  <2> HIDE DEF m, D, E, r0
  <2> QED BY <2>1, <2>2 DEF ##
<1>2. B \subseteq 0..(R - 1) /\ Z \subseteq 0..(R - 1)
  BY DEF Band
<1>3. R \in Nat /\ r0 \in Nat /\ (HasMirror(c) => M \in Nat /\ R <= M /\ Packed(c))
  <2>1. R \in Nat
    BY LayoutFacts, CallFacts DEF RowLen
  <2>2. r0 \in Nat
    BY RowAtInt
  <2>3. HasMirror(c) => M \in Nat /\ R <= M /\ Packed(c)
    BY LayoutFacts
  <2> QED BY <2>1, <2>2, <2>3
<1>4. \A S : S \subseteq 0..(R - 1) => \A a \in Both(c, S) : a \in 0..(R - 1) \/ (HasMirror(c) /\ \E q \in 0..(R - 1) : a = M + q)
  BY DEF Both
<1>5. \A a \in D \cup E : a \in 0..(R - 1) \/ (HasMirror(c) /\ \E q \in 0..(R - 1) : a = M + q)
  <2> HIDE DEF R, M, B, Z
  <2> QED BY <1>2, <1>4
<1>6. DOMAIN m \subseteq IF HasMirror(c) THEN row(0) \cup row(M) ELSE row(0)
  <2> SUFFICES ASSUME NEW a \in D \cup E
               PROVE  r0 + a \in IF HasMirror(c) THEN row(0) \cup row(M) ELSE row(0)
    <3> HIDE DEF m, r0, D, E, row
    <3> QED BY <1>1
  <2>1. CASE a \in 0..(R - 1)
    <3> HIDE DEF R, r0, M
    <3>1. r0 + a = r0 + 0 + a
      BY <1>3, <2>1
    <3>2. r0 + a \in row(0)
      BY <2>1, <3>1
    <3> HIDE DEF row
    <3> QED BY <3>2
  <2>2. CASE HasMirror(c) /\ \E q \in 0..(R - 1) : a = M + q
    <3> HIDE DEF R, r0, M
    <3>1. PICK q \in 0..(R - 1) : a = M + q
      BY <2>2
    <3>2. r0 + a = r0 + M + q
      BY <1>3, <2>2, <3>1
    <3>3. r0 + a \in row(M)
      BY <3>2
    <3> HIDE DEF row
    <3> QED BY <2>2, <3>3
  <2> QED BY <1>5, <2>1, <2>2
<1>7. \A a \in D \cup E : Clean(m[r0 + a])
  <2> TAKE a \in D \cup E
  <2>1. m[r0 + a] = Expected(c, a) \/ m[r0 + a] = Zero
    <3> HIDE DEF m, r0, B, Z
    <3> QED BY FilledAt DEF m, r0, B, Z
  <2>2. Clean(Expected(c, a))
    <3>1. CASE a \in 0..(R - 1)
      <4>1. a < R
        BY <1>3, <3>1
      <4> QED BY <3>1, <4>1, CleanRows DEF Expected
    <3>2. CASE HasMirror(c) /\ \E q \in 0..(R - 1) : a = M + q
      <4>1. PICK q \in 0..(R - 1) : a = M + q
        BY <3>2
      <4>2. ~(a < R) /\ a - M = q
        <5> HIDE DEF R, M
        <5> QED BY <1>3, <3>2, <4>1
      <4>3. Expected(c, a) = Far(c, q)
        BY <4>2 DEF Expected
      <4> QED BY <1>3, <3>2, <4>3, CleanRows
    <3> QED BY <1>5, <3>1, <3>2
  <2>3. Clean(Zero)
    BY DEF Clean, Zero
  <2> HIDE DEF m, r0
  <2> QED BY <2>1, <2>2, <2>3
<1>8. \A a \in DOMAIN m : Clean(m[a])
  <2> HIDE DEF m, r0, D, E
  <2> QED BY <1>1, <1>7
<1> HIDE DEF m
<1> QED BY <1>6, <1>8 DEF m

(* Types, and nothing outside the rows. *)
LEMMA TypesHold ==
  ASSUME RowsInv, WeightsInv
  PROVE  TypeOK
<1>1. /\ call \in Calls /\ pc \in {"poles", "blocks", "store", "analyse", "sums", "done"}
      /\ buffer \subseteq 0..(NLAT_2(call) + call.nway * VSIZE2(call) - 2)
  BY DEF RowsInv, RowsState
<1>2. k \in 0..(Blocks(call) + NW(call))
  <2> DEFINE b == Blocks(call)
             n == NW(call)
             w == call.nway
  <2>1. b \in Nat /\ n \in Nat /\ w \in Nat /\ w <= n
    BY <1>1, SizeFacts, CallFacts DEF NW
  <2>2. k \in Nat /\ (k = 0 \/ k <= b - 1 + w \/ k <= b - 1 + n)
    BY <1>1 DEF RowsInv, RowsState, WeightsInv
  <2> HIDE DEF b, n, w
  <2>3. k \in 0..(b + n)
    BY <2>1, <2>2
  <2> QED BY <2>3 DEF b, n
<1>3. InsideRows
  <2>1. CASE mem = [a \in {} |-> Zero]
    <3>1. DOMAIN mem = {}
      BY <2>1
    <3> QED BY <3>1 DEF InsideRows
  <2>2. CASE \E u, v, z \in Nat : mem = Filled(call, u, v, z)
    <3>1. PICK u \in Nat, v \in Nat, z \in Nat : mem = Filled(call, u, v, z)
      BY <2>2
    <3> DEFINE row(r) == {RowAt(call) + r + d : d \in 0..(RowLen(call) - 1)}
    <3>2. /\ DOMAIN mem \subseteq IF HasMirror(call) THEN row(0) \cup row(Mirrored(call)) ELSE row(0)
          /\ \A a \in DOMAIN mem : Clean(mem[a])
      BY <1>1, <3>1, FilledInside
    <3> QED BY <3>2 DEF InsideRows, Clean
  <2>3. mem = [a \in {} |-> Zero] \/ \E u, v, z \in Nat : mem = Filled(call, u, v, z)
    <3>1. Polar(call) \in Nat
      BY <1>1, PolarFacts
    <3>2. CASE pc = "blocks" /\ call.kernel = "fly"
      <4>1. k \in Nat /\ Start(call) \in Nat /\ VSIZE2(call) \in Nat
        BY <1>1, <3>2, PolarFacts, SizeFacts DEF RowsInv, RowsState
      <4>2. VSIZE2(call) * Start(call) \in Nat /\ VSIZE2(call) * k \in Nat
        <5>1. \A x, y \in Nat : x * y \in Nat
          OBVIOUS
        <5> QED BY <4>1, <5>1
      <4>3. mem = Filled(call, VSIZE2(call) * Start(call), VSIZE2(call) * k, Polar(call))
        BY <3>2 DEF RowsInv, RowsState
      <4> QED BY <3>1, <4>2, <4>3
    <3>3. CASE pc \in {"analyse", "sums", "done"}
      <4>1. Ended(call, mem)
        BY <3>3 DEF RowsInv, RowsState
      <4> QED BY <3>1, <4>1 DEF Ended
    <3>4. CASE pc = "poles" \/ (pc \in {"blocks", "store"} /\ call.kernel = "mic")
      BY <3>4 DEF RowsInv, RowsState
    <3>5. call.kernel \in {"fly", "mic"} /\ (pc = "store" => call.kernel = "mic")
      BY <1>1, CallFacts DEF RowsInv, RowsState
    <3> QED BY <1>1, <3>2, <3>3, <3>4, <3>5
  <2> QED BY <2>1, <2>2, <2>3
<1> QED BY <1>1, <1>2, <1>3 DEF TypeOK

-----------------------------------------------------------------------------
(* Analysis.                                                               *)

(* What the sums and differences of two forms give back. *)
LEMMA SumsOfForms ==
  ASSUME NEW x, NEW p, IsForm(x), IsForm(p)
  PROVE  LET f == x (+) p
             g == x (-) p
         IN  /\ f (+) g = Times(2, x) /\ g (+) f = Times(2, x)
             /\ f (-) g = Times(2, p) /\ Times(-1, g (-) f) = Times(2, p)
<1> DEFINE f == x (+) p
           g == x (-) p
<1>1. IsForm(f) /\ IsForm(g) /\ \A s : At(f, s) = At(x, s) + At(p, s) /\ At(g, s) = At(x, s) - At(p, s)
  BY PlusForm, MinusForm
<1>2. \A s : At(x, s) \in Int /\ At(p, s) \in Int
  BY AtInt
<1>3. \A a : IsForm(a) => IsForm(Times(2, a)) /\ \A s : At(Times(2, a), s) = 2 * At(a, s)
  BY TimesForm
<1> HIDE DEF f, g
<1>4. f (+) g = Times(2, x)
  <2>1. IsForm(f (+) g) /\ \A s : At(f (+) g, s) = At(f, s) + At(g, s)
    BY <1>1, PlusForm
  <2>2. \A s : At(f (+) g, s) = At(Times(2, x), s)
    BY <1>1, <1>2, <1>3, <2>1
  <2> QED BY <1>3, <2>1, <2>2, FormsEqual
<1>5. g (+) f = Times(2, x)
  BY <1>1, <1>4, FormLaws
<1>6. f (-) g = Times(2, p)
  <2>1. IsForm(f (-) g) /\ \A s : At(f (-) g, s) = At(f, s) - At(g, s)
    BY <1>1, MinusForm
  <2>2. \A s : At(f (-) g, s) = At(Times(2, p), s)
    BY <1>1, <1>2, <1>3, <2>1
  <2> QED BY <1>3, <2>1, <2>2, FormsEqual
<1>7. Times(-1, g (-) f) = Times(2, p)
  <2> DEFINE h == g (-) f
  <2>1. IsForm(h) /\ \A s : At(h, s) = At(g, s) - At(f, s)
    BY <1>1, MinusForm
  <2> HIDE DEF h
  <2>2. IsForm(Times(-1, h)) /\ \A s : At(Times(-1, h), s) = (-1) * At(h, s)
    BY <2>1, NegativeForm
  <2>3. \A s : At(Times(-1, h), s) = At(Times(2, p), s)
    BY <1>1, <1>2, <1>3, <2>1, <2>2
  <2>4. Times(-1, h) = Times(2, p)
    BY <1>3, <2>2, <2>3, FormsEqual
  <2> QED BY <2>4 DEF h
<1> QED BY <1>4, <1>5, <1>6, <1>7 DEF f, g

(* The field and its mirror image give the even and the odd part back, doubled; so do their doubles. *)
LEMMA PartsOfForms ==
  ASSUME NEW e, NEW o, IsForm(e), IsForm(o)
  PROVE  LET x == e (+) o
             y == e (-) o
         IN  /\ x (+) y = Times(2, e) /\ x (-) y = Times(2, o)
             /\ Times(2, x) (+) Times(2, y) = Times(4, e) /\ Times(2, x) (-) Times(2, y) = Times(4, o)
<1> DEFINE x == e (+) o
           y == e (-) o
<1>1. IsForm(x) /\ IsForm(y) /\ \A s : At(x, s) = At(e, s) + At(o, s) /\ At(y, s) = At(e, s) - At(o, s)
  BY PlusForm, MinusForm
<1>2. \A s : At(e, s) \in Int /\ At(o, s) \in Int
  BY AtInt
<1>3. \A a : IsForm(a) => IsForm(Times(2, a)) /\ \A s : At(Times(2, a), s) = 2 * At(a, s)
  BY TimesForm
<1>4. \A a : IsForm(a) => IsForm(Times(4, a)) /\ \A s : At(Times(4, a), s) = 4 * At(a, s)
  BY TimesForm
<1>5. x (+) y = Times(2, e) /\ x (-) y = Times(2, o)
  BY SumsOfForms
<1> HIDE DEF x, y
<1> DEFINE v == Times(2, x)
           w == Times(2, y)
<1>6. IsForm(v) /\ IsForm(w) /\ \A s : At(v, s) = 2 * At(x, s) /\ At(w, s) = 2 * At(y, s)
  BY <1>1, <1>3
<1> HIDE DEF v, w
<1>7. v (+) w = Times(4, e)
  <2>1. IsForm(v (+) w) /\ \A s : At(v (+) w, s) = At(v, s) + At(w, s)
    BY <1>6, PlusForm
  <2>2. \A s : At(v (+) w, s) = At(Times(4, e), s)
    BY <1>1, <1>2, <1>4, <1>6, <2>1
  <2> QED BY <1>4, <2>1, <2>2, FormsEqual
<1>8. v (-) w = Times(4, o)
  <2>1. IsForm(v (-) w) /\ \A s : At(v (-) w, s) = At(v, s) - At(w, s)
    BY <1>6, MinusForm
  <2>2. \A s : At(v (-) w, s) = At(Times(4, o), s)
    BY <1>1, <1>2, <1>4, <1>6, <2>1
  <2> QED BY <1>4, <2>1, <2>2, FormsEqual
<1> QED BY <1>5, <1>7, <1>8 DEF x, y, v, w

(* The latitudes which analysis sums. *)
From(c) == IF c.im = 0 THEN 0 ELSE c.tm
Summed(c) == From(c)..(NLAT_2(c) - 1)

(* At these latitudes and their mirror images both doubles of the complex number, in both rows, are
   what is expected. *)
LEMMA CellRead ==
  ASSUME NEW c \in Calls, NEW m, Ended(c, m), c.magic => c.nlat % 2 = 0, NEW i \in Summed(c),
         NEW d \in 0..(RowLen(c) - 1), d % 2 = 0,
         Lat(c, d) \in {i, c.nlat - 1 - i} \/ Lat(c, d + 1) \in {i, c.nlat - 1 - i}
  PROVE  LET r == RowAt(c)
             M == Mirrored(c)
         IN  /\ r + d \in DOMAIN m /\ m[r + d] = Near(c, d) /\ r + d + 1 \in DOMAIN m /\ m[r + d + 1] = Near(c, d + 1)
             /\ HasMirror(c) => /\ r + M + d \in DOMAIN m /\ m[r + M + d] = Far(c, d)
                                /\ r + M + d + 1 \in DOMAIN m /\ m[r + M + d + 1] = Far(c, d + 1)
<1>1. \A x \in {i, c.nlat - 1 - i} : c.im > 0 /\ North(c, x) < c.tm => FALSE
  <2> TAKE x \in {i, c.nlat - 1 - i}
  <2> HAVE c.im > 0 /\ North(c, x) < c.tm
  <2> DEFINE L == c.nlat
             N == NLAT_2(c)
             T == c.tm
  <2>1. L \in Nat /\ N \in Nat /\ T \in Nat /\ 2 * N <= L + 1 /\ L <= 2 * N /\ c.im \in Nat
    <3>1. L \in Nat /\ c.im \in Nat /\ T \in Nat /\ N = (L + 1) \div 2
      BY CallFacts DEF NLAT_2
    <3> HIDE DEF L, N, T
    <3> QED BY <3>1
  <2>2. i \in T..(N - 1)
    BY <2>1 DEF Summed, From
  <2>3. North(c, x) = IF x < N THEN x ELSE L - 1 - x
    BY DEF North
  <2>4. x = i \/ x = L - 1 - i
    OBVIOUS
  <2>5. North(c, x) < T
    OBVIOUS
  <2> HIDE DEF L, N, T
  <2>6. i \in Nat /\ T <= i /\ i < N
    BY <2>1, <2>2
  <2> QED BY <2>1, <2>3, <2>4, <2>5, <2>6
<1>2. /\ CellHolds(m, RowAt(c) + d, c, d, Near(c, d), Near(c, d + 1))
      /\ HasMirror(c) => CellHolds(m, RowAt(c) + Mirrored(c) + d, c, d, Far(c, d), Far(c, d + 1))
  BY EndedRight
<1>3. ~(c.im > 0 /\ North(c, Lat(c, d)) < c.tm /\ North(c, Lat(c, d + 1)) < c.tm)
  BY <1>1
<1> QED BY <1>2, <1>3 DEF CellHolds

(* The latitudes which analysis sums are among those it makes parts of. *)
LEMMA SummedFacts ==
  ASSUME call \in Calls, NEW i \in Summed(call)
  PROVE  /\ i \in Nat /\ i < NLAT_2(call) /\ call.nlat \in Nat /\ NLAT_2(call) \in Nat
         /\ i < call.nlat /\ call.nlat - 1 - i \in Nat /\ call.nlat - 1 - i < call.nlat
         /\ 2 * NLAT_2(call) <= call.nlat + 1
         /\ i \in Lats(0) /\ (From(call) = call.tm => i \in Lats(First)) /\ (call.im > 0 => i \in Lats(First))
<1> DEFINE L == call.nlat
           N == NLAT_2(call)
           T == call.tm
           V == VSIZE2(call)
           b == Blocks(call)
           X == b * V
           F == First
<1>1. L \in Nat /\ N \in Nat /\ 2 * N <= L + 1 /\ T \in Nat /\ call.im \in Nat
  <2>1. L \in Nat /\ T \in Nat /\ call.im \in Nat /\ N = (L + 1) \div 2
    BY CallFacts DEF NLAT_2
  <2> HIDE DEF L, N, T
  <2> QED BY <2>1
<1>2. X \in Nat /\ N <= X
  <2>1. V \in {1, 2, 4, 8} /\ b \in Nat /\ N <= b * V
    BY SizeFacts
  <2> HIDE DEF b, V, N
  <2>2. b * V \in Nat
    BY <2>1
  <2> QED BY <2>1, <2>2
<1>3. i \in From(call)..(N - 1) /\ From(call) \in {0, T} /\ (call.im > 0 => From(call) = T)
  BY <1>1 DEF Summed, From
<1>4. F \in Nat /\ F <= T
  <2> DEFINE t == T \div V
             s == t * V
  <2>1. T \in Nat /\ V \in {1, 2, 4, 8}
    BY <1>1, SizeFacts
  <2>2. F = (s \div 2) * 2
    BY DEF First
  <2> HIDE DEF V, T, F
  <2>3. t \in Nat /\ s \in Nat /\ s <= T
    <3>1. CASE V = 1
      BY <2>1, <3>1
    <3>2. CASE V = 2
      BY <2>1, <3>2
    <3>3. CASE V = 4
      BY <2>1, <3>3
    <3>4. CASE V = 8
      BY <2>1, <3>4
    <3> QED BY <2>1, <3>1, <3>2, <3>3, <3>4
  <2> HIDE DEF t, s
  <2> QED BY <2>1, <2>2, <2>3
<1>5. Lats(0) = 0..(X - 1) /\ Lats(First) = F..(X - 1)
  BY DEF Lats
<1> HIDE DEF L, N, T, X, F
<1>6. i \in Nat /\ i < N /\ i < L /\ L - 1 - i \in Nat /\ L - 1 - i < L
  BY <1>1, <1>3
<1>7. i \in 0..(X - 1) /\ (From(call) = T => i \in F..(X - 1)) /\ (call.im > 0 => i \in F..(X - 1))
  BY <1>1, <1>2, <1>3, <1>4, <1>6
<1> QED BY <1>1, <1>5, <1>6, <1>7 DEF L, N, T

(* The parts from the field and its mirror image. *)
LEMMA FieldParts ==
  ASSUME NEW c \in Calls, NEW i \in Nat, i < c.nlat
  PROVE  LET x == Real(c, i)
             y == Real(c, c.nlat - 1 - i)
             p == Imag(c, i)
             q == Imag(c, c.nlat - 1 - i)
         IN  /\ x (+) y = Times(2, Part(c, "er", i)) /\ x (-) y = Times(2, Part(c, "od", i))
             /\ Times(2, x) (+) Times(2, y) = Times(4, Part(c, "er", i))
             /\ Times(2, x) (-) Times(2, y) = Times(4, Part(c, "od", i))
             /\ c.im # 0 => /\ p (+) q = Times(2, Part(c, "ei", i)) /\ p (-) q = Times(2, Part(c, "oi", i))
                            /\ Times(2, p) (+) Times(2, q) = Times(4, Part(c, "ei", i))
                            /\ Times(2, p) (-) Times(2, q) = Times(4, Part(c, "oi", i))
<1> DEFINE er == Part(c, "er", i)
           od == Part(c, "od", i)
           ei == Part(c, "ei", i)
           oi == Part(c, "oi", i)
<1>1. IsForm(er) /\ IsForm(od) /\ IsForm(ei) /\ IsForm(oi)
  BY PartFacts DEF Even, Odd
<1>2. Real(c, i) = er (+) od /\ Real(c, c.nlat - 1 - i) = er (-) od
  BY FieldFacts DEF Real
<1>3. c.im # 0 => Imag(c, i) = ei (+) oi /\ Imag(c, c.nlat - 1 - i) = ei (-) oi
  BY FieldFacts DEF Imag
<1> HIDE DEF er, od, ei, oi
<1>4. /\ (er (+) od) (+) (er (-) od) = Times(2, er) /\ (er (+) od) (-) (er (-) od) = Times(2, od)
      /\ Times(2, er (+) od) (+) Times(2, er (-) od) = Times(4, er)
      /\ Times(2, er (+) od) (-) Times(2, er (-) od) = Times(4, od)
  BY <1>1, PartsOfForms
<1>5. /\ (ei (+) oi) (+) (ei (-) oi) = Times(2, ei) /\ (ei (+) oi) (-) (ei (-) oi) = Times(2, oi)
      /\ Times(2, ei (+) oi) (+) Times(2, ei (-) oi) = Times(4, ei)
      /\ Times(2, ei (+) oi) (-) Times(2, ei (-) oi) = Times(4, oi)
  BY <1>1, PartsOfForms
<1> QED BY <1>2, <1>3, <1>4, <1>5 DEF er, od, ei, oi

(* What analysis reads in a cell of the row of the order, whose two rows have changed places. *)
LEMMA RowReads ==
  ASSUME call \in Calls, HasMirror(call), Ended(call, mem), call.magic => call.nlat % 2 = 0, NEW i \in Summed(call),
         NEW d \in 0..(call.nlat - 1), d % 2 = 0,
         Lat(call, d) \in {i, call.nlat - 1 - i} \/ Lat(call, d + 1) \in {i, call.nlat - 1 - i}
  PROVE  /\ Row(d) = Far(call, d) /\ Row(d + 1) = Far(call, d + 1)
         /\ MirrorRow(d) = Near(call, d) /\ MirrorRow(d + 1) = Near(call, d + 1)
<1> DEFINE r == RowAt(call)
           M == Mirrored(call)
<1>1. r \in Nat /\ M \in Nat /\ RowLen(call) = call.nlat
  BY RowAtInt, LayoutFacts
<1>2. /\ r + d \in DOMAIN mem /\ mem[r + d] = Near(call, d) /\ r + d + 1 \in DOMAIN mem /\ mem[r + d + 1] = Near(call, d + 1)
      /\ r + M + d \in DOMAIN mem /\ mem[r + M + d] = Far(call, d)
      /\ r + M + d + 1 \in DOMAIN mem /\ mem[r + M + d + 1] = Far(call, d + 1)
  BY <1>1, CellRead
<1>3. d \in Int
  OBVIOUS
<1>4. r + d + 1 = r + (d + 1) /\ r + M + d + 1 = r + M + (d + 1)
  <2> HIDE DEF r, M
  <2> QED BY <1>1, <1>3
<1> QED BY <1>2, <1>4 DEF Row, MirrorRow, Read

(* Two latitudes to a cell, from north to south: both are found there, doubled. *)
LEMMA CellSums ==
  ASSUME call \in Calls, HasMirror(call), ~call.magic, Ended(call, mem), NEW i \in Summed(call),
         NEW d \in 0..(call.nlat - 1), d % 2 = 0,
         d \in {i, call.nlat - 1 - i} \/ d + 1 \in {i, call.nlat - 1 - i}
  PROVE  /\ d + 1 < call.nlat
         /\ Row(d) (+) MirrorRow(d) = Times(2, Real(call, d))
         /\ Row(d + 1) (+) MirrorRow(d + 1) = Times(2, Real(call, d + 1))
         /\ Row(d) (-) MirrorRow(d) = Times(2, Imag(call, d + 1))
         /\ Times(-1, Row(d + 1) (-) MirrorRow(d + 1)) = Times(2, Imag(call, d))
<1> DEFINE c == call
           L == c.nlat
           e == d + 1
<1>1. Packed(c) /\ RowLen(c) = L /\ L \in Nat /\ L % 2 = 0
  BY LayoutFacts, CallFacts
<1>2. d \in Nat /\ d < L /\ e \in Nat /\ e < L /\ e % 2 = 1 /\ e - 1 = d
  <2>1. d \in 0..(L - 1)
    OBVIOUS
  <2> HIDE DEF L
  <2> QED BY <1>1, <2>1
<1>3. Lat(c, d) = d /\ Lat(c, e) = e
  <2>1. d \in 0..(RowLen(c) - 1) /\ e \in 0..(RowLen(c) - 1)
    <3> HIDE DEF L, e
    <3> QED BY <1>1, <1>2
  <2> HIDE DEF e, c
  <2> QED BY <1>1, <2>1, LatFacts DEF c
<1>4. Row(d) = Far(c, d) /\ Row(e) = Far(c, e) /\ MirrorRow(d) = Near(c, d) /\ MirrorRow(e) = Near(c, e)
  BY <1>3, RowReads
<1> HIDE DEF e
<1>5. Near(c, d) = Real(c, d) (-) Imag(c, e) /\ Far(c, d) = Real(c, d) (+) Imag(c, e)
  BY <1>1, <1>2, PackedNorthSouth DEF e
<1>6. Near(c, e) = Real(c, e) (+) Imag(c, d) /\ Far(c, e) = Real(c, e) (-) Imag(c, d)
  BY <1>1, <1>2, PackedNorthSouth
<1>7. IsForm(Real(c, d)) /\ IsForm(Imag(c, d)) /\ IsForm(Real(c, e)) /\ IsForm(Imag(c, e))
  BY <1>2, FieldFacts
<1>8. Row(d) (+) MirrorRow(d) = Times(2, Real(c, d)) /\ Row(d) (-) MirrorRow(d) = Times(2, Imag(c, e))
  BY <1>4, <1>5, <1>7, SumsOfForms
<1>9. Row(e) (+) MirrorRow(e) = Times(2, Real(c, e)) /\ Times(-1, Row(e) (-) MirrorRow(e)) = Times(2, Imag(c, d))
  BY <1>4, <1>6, <1>7, SumsOfForms
<1> QED BY <1>2, <1>8, <1>9 DEF e

(* A record of the parts, n times what synthesis put there. *)
PartsAre(w, c, i, n) ==
  /\ w.er = Times(n, Part(c, "er", i)) /\ w.od = Times(n, Part(c, "od", i))
  /\ c.im > 0 => w.ei = Times(n, Part(c, "ei", i)) /\ w.oi = Times(n, Part(c, "oi", i))

(* The analysis of rows from north to south, two latitudes to a complex number. *)
LEMMA SymAsymQRight ==
  ASSUME call \in Calls, HasMirror(call), ~call.magic, Ended(call, mem), NEW i \in Summed(call)
  PROVE  i \in DOMAIN SymAsymQ /\ PartsAre(SymAsymQ[i], call, i, 4)
<1> DEFINE c == call
           L == c.nlat
           k0 == (i \div 2) * 2
           south == L - 2 - k0
           z == L - 1 - i
           sum(d) == Row(d) (+) MirrorRow(d)
           dif(d) == Row(d) (-) MirrorRow(d)
<1>1. /\ c.im # 0 /\ c.im > 0 /\ L % 2 = 0 /\ L \in Nat /\ i \in Nat /\ i < L /\ i \in Lats(First)
      /\ i < NLAT_2(c) /\ L = 2 * NLAT_2(c) /\ NLAT_2(c) \in Nat
  BY SummedFacts, LayoutFacts, CallFacts
<1>2. SymAsymQ[i] =
        IF i = k0 THEN [er |-> sum(k0) (+) sum(south + 1), od |-> sum(k0) (-) sum(south + 1),
                        ei |-> Times(-1, dif(k0 + 1)) (+) dif(south), oi |-> Times(-1, dif(k0 + 1)) (-) dif(south)]
        ELSE [er |-> sum(k0 + 1) (+) sum(south), od |-> sum(k0 + 1) (-) sum(south),
              ei |-> dif(k0) (+) Times(-1, dif(south + 1)), oi |-> dif(k0) (-) Times(-1, dif(south + 1))]
  BY <1>1 DEF SymAsymQ
<1>3. i \in DOMAIN SymAsymQ
  BY <1>1 DEF SymAsymQ
<1>4. /\ k0 \in 0..(L - 1) /\ k0 % 2 = 0 /\ south \in 0..(L - 1) /\ south % 2 = 0
      /\ i = k0 => south + 1 = z
      /\ i # k0 => k0 + 1 = i /\ south = z
  <2> DEFINE N == NLAT_2(c)
  <2>1. L = 2 * N /\ N \in Nat /\ i \in Nat /\ i < N
    BY <1>1
  <2> HIDE DEF L, N
  <2> QED BY <2>1
<1>5. k0 \in {i, z} \/ k0 + 1 \in {i, z}
  BY <1>4
<1>6. south \in {i, z} \/ south + 1 \in {i, z}
  BY <1>4
<1> HIDE DEF k0, south
<1>7. /\ sum(k0) = Times(2, Real(c, k0)) /\ sum(k0 + 1) = Times(2, Real(c, k0 + 1))
      /\ dif(k0) = Times(2, Imag(c, k0 + 1)) /\ Times(-1, dif(k0 + 1)) = Times(2, Imag(c, k0))
  BY <1>4, <1>5, CellSums
<1>8. /\ sum(south) = Times(2, Real(c, south)) /\ sum(south + 1) = Times(2, Real(c, south + 1))
      /\ dif(south) = Times(2, Imag(c, south + 1)) /\ Times(-1, dif(south + 1)) = Times(2, Imag(c, south))
  BY <1>4, <1>6, CellSums
<1>9. /\ Times(2, Real(c, i)) (+) Times(2, Real(c, z)) = Times(4, Part(c, "er", i))
      /\ Times(2, Real(c, i)) (-) Times(2, Real(c, z)) = Times(4, Part(c, "od", i))
      /\ Times(2, Imag(c, i)) (+) Times(2, Imag(c, z)) = Times(4, Part(c, "ei", i))
      /\ Times(2, Imag(c, i)) (-) Times(2, Imag(c, z)) = Times(4, Part(c, "oi", i))
  BY <1>1, FieldParts
<1> HIDE DEF sum, dif, z, c
<1>10. CASE i = k0
  <2>1. south + 1 = z
    BY <1>4, <1>10
  <2>2. /\ SymAsymQ[i].er = sum(k0) (+) sum(south + 1) /\ SymAsymQ[i].od = sum(k0) (-) sum(south + 1)
        /\ SymAsymQ[i].ei = Times(-1, dif(k0 + 1)) (+) dif(south) /\ SymAsymQ[i].oi = Times(-1, dif(k0 + 1)) (-) dif(south)
    BY <1>2, <1>10
  <2>3. PartsAre(SymAsymQ[i], c, i, 4)
    BY <1>7, <1>8, <1>9, <1>10, <2>1, <2>2 DEF PartsAre
  <2> QED BY <1>3, <2>3 DEF c
<1>11. CASE i # k0
  <2>1. k0 + 1 = i /\ south = z
    BY <1>4, <1>11
  <2>2. /\ SymAsymQ[i].er = sum(k0 + 1) (+) sum(south) /\ SymAsymQ[i].od = sum(k0 + 1) (-) sum(south)
        /\ SymAsymQ[i].ei = dif(k0) (+) Times(-1, dif(south + 1)) /\ SymAsymQ[i].oi = dif(k0) (-) Times(-1, dif(south + 1))
    BY <1>2, <1>11
  <2>3. PartsAre(SymAsymQ[i], c, i, 4)
    BY <1>7, <1>8, <1>9, <2>1, <2>2 DEF PartsAre
  <2> QED BY <1>3, <2>3 DEF c
<1> QED BY <1>10, <1>11

(* The analysis of rows with north and south in turn. *)
LEMMA SymAsymMagicQRight ==
  ASSUME call \in Calls, HasMirror(call), call.magic, Ended(call, mem), NEW i \in Summed(call)
  PROVE  i \in DOMAIN SymAsymMagicQ /\ PartsAre(SymAsymMagicQ[i], call, i, 4)
<1> DEFINE c == call
           L == c.nlat
           d == 2 * i
           e == 2 * i + 1
           z == L - 1 - i
           r == Row(d) (+) MirrorRow(d)
           y == MirrorRow(e) (-) Row(e)
           s == MirrorRow(e) (+) Row(e)
           t == Row(d) (-) MirrorRow(d)
<1>1. /\ c.im # 0 /\ c.im > 0 /\ L % 2 = 0 /\ L \in Nat /\ i \in Nat /\ i < L /\ i \in Lats(First) /\ z \in Nat /\ z < L
      /\ i < NLAT_2(c) /\ L = 2 * NLAT_2(c) /\ NLAT_2(c) \in Nat /\ Packed(c) /\ RowLen(c) = L
  BY SummedFacts, LayoutFacts, CallFacts
<1>2. SymAsymMagicQ[i] = [er |-> r (+) s, ei |-> y (+) t, od |-> r (-) s, oi |-> y (-) t]
  BY <1>1 DEF SymAsymMagicQ
<1>3. i \in DOMAIN SymAsymMagicQ
  BY <1>1 DEF SymAsymMagicQ
<1>4. d \in 0..(L - 1) /\ d % 2 = 0 /\ d + 1 = e /\ d \div 2 = i
  <2> DEFINE N == NLAT_2(c)
  <2>1. L = 2 * N /\ N \in Nat /\ i \in Nat /\ i < N
    BY <1>1
  <2> HIDE DEF L, N
  <2> QED BY <2>1
<1>5. /\ Near(c, d) = Real(c, i) (-) Imag(c, z) /\ Near(c, e) = Real(c, z) (+) Imag(c, i)
      /\ Far(c, d) = Real(c, i) (+) Imag(c, z) /\ Far(c, e) = Real(c, z) (-) Imag(c, i)
  BY <1>1, PackedInTurn
<1> HIDE DEF d, e
<1>6. Lat(c, d) = i
  <2>1. d \in 0..(RowLen(c) - 1)
    BY <1>1, <1>4
  <2> HIDE DEF L, c
  <2> QED BY <1>1, <1>4, <2>1, LatFacts DEF c
<1>7. Row(d) = Far(c, d) /\ Row(e) = Far(c, e) /\ MirrorRow(d) = Near(c, d) /\ MirrorRow(e) = Near(c, e)
  <2>1. /\ Row(d) = Far(c, d) /\ Row(d + 1) = Far(c, d + 1)
        /\ MirrorRow(d) = Near(c, d) /\ MirrorRow(d + 1) = Near(c, d + 1)
    BY <1>1, <1>4, <1>6, RowReads
  <2> QED BY <1>4, <2>1
<1>8. IsForm(Real(c, i)) /\ IsForm(Imag(c, i)) /\ IsForm(Real(c, z)) /\ IsForm(Imag(c, z))
  <2> HIDE DEF z
  <2> QED BY <1>1, FieldFacts
<1>9. r = Times(2, Real(c, i)) /\ t = Times(2, Imag(c, z))
  BY <1>5, <1>7, <1>8, SumsOfForms
<1>10. s = Times(2, Real(c, z)) /\ y = Times(2, Imag(c, i))
  BY <1>5, <1>7, <1>8, SumsOfForms
<1>11. /\ Times(2, Real(c, i)) (+) Times(2, Real(c, z)) = Times(4, Part(c, "er", i))
       /\ Times(2, Real(c, i)) (-) Times(2, Real(c, z)) = Times(4, Part(c, "od", i))
       /\ Times(2, Imag(c, i)) (+) Times(2, Imag(c, z)) = Times(4, Part(c, "ei", i))
       /\ Times(2, Imag(c, i)) (-) Times(2, Imag(c, z)) = Times(4, Part(c, "oi", i))
  BY <1>1, FieldParts
<1> HIDE DEF r, s, t, y, z, c
<1>12. PartsAre(SymAsymMagicQ[i], c, i, 4)
  BY <1>2, <1>9, <1>10, <1>11 DEF PartsAre
<1> QED BY <1>3, <1>12 DEF c

(* A double of the row of the order, at one of these latitudes. *)
LEMMA DoubleRead ==
  ASSUME call \in Calls, Ended(call, mem), call.magic => call.nlat % 2 = 0, NEW i \in Summed(call),
         NEW d \in 0..(RowLen(call) - 1), Lat(call, d) \in {i, call.nlat - 1 - i}
  PROVE  Read(RowAt(call) + d) = Near(call, d)
<1> DEFINE r == RowAt(call)
           R == RowLen(call)
<1>1. r \in Nat /\ R \in Nat /\ d \in Nat /\ d < R /\ R % 2 = 0
  <2>1. r \in Nat /\ call.nlat \in Nat /\ (Packed(call) => R = call.nlat /\ call.nlat % 2 = 0) /\ (~Packed(call) => R = 2 * call.nlat)
    BY RowAtInt, LayoutFacts, CallFacts
  <2> DEFINE L == call.nlat
  <2>2. L \in Nat /\ ((R = L /\ L % 2 = 0) \/ R = 2 * L) /\ d \in 0..(R - 1)
    BY <2>1
  <2> HIDE DEF R, L
  <2> QED BY <2>1, <2>2
<1>2. CASE d % 2 = 0
  <2>1. r + d \in DOMAIN mem /\ mem[r + d] = Near(call, d)
    BY <1>2, CellRead
  <2> QED BY <2>1 DEF Read
<1>3. CASE d % 2 # 0
  <2> DEFINE e == d - 1
  <2>1. e \in 0..(R - 1) /\ e % 2 = 0 /\ e + 1 = d /\ r + e + 1 = r + d
    <3> HIDE DEF r, R
    <3> QED BY <1>1, <1>3
  <2> HIDE DEF e
  <2>2. Lat(call, e + 1) \in {i, call.nlat - 1 - i}
    BY <2>1
  <2>3. r + e + 1 \in DOMAIN mem /\ mem[r + e + 1] = Near(call, e + 1)
    BY <2>1, <2>2, CellRead
  <2> QED BY <2>1, <2>3 DEF Read
<1> QED BY <1>2, <1>3

(* The analysis of row 0. *)
LEMMA SymAsymM0Right ==
  ASSUME call \in Calls, Packed(call), call.im = 0, ~call.magic, Ended(call, mem), NEW i \in Summed(call)
  PROVE  i \in DOMAIN SymAsymM0 /\ PartsAre(SymAsymM0[i], call, i, 2)
<1> DEFINE c == call
           L == c.nlat
           z == L - 1 - i
<1>1. /\ L \in Nat /\ i \in Nat /\ i < L /\ z \in Nat /\ z < L /\ i \in Lats(0) /\ RowAt(c) = 0 /\ RowLen(c) = L
  BY SummedFacts, RowAtInt, LayoutFacts
<1>2. i \in DOMAIN SymAsymM0 /\ SymAsymM0[i] = NorthSouth(Read(i), Read(z))
  BY <1>1 DEF SymAsymM0
<1>3. \A d \in {i, z} : Read(d) = Real(c, d)
  <2> TAKE d \in {i, z}
  <2>1. d \in Nat /\ d < L /\ d \in 0..(RowLen(c) - 1) /\ RowAt(c) + d = d
    <3> HIDE DEF L, z
    <3> QED BY <1>1
  <2>2. Lat(c, d) = d
    BY <2>1, LatFacts
  <2>3. Read(RowAt(c) + d) = Near(c, d)
    BY <2>1, <2>2, DoubleRead
  <2>4. Near(c, d) = Real(c, d)
    BY <2>1, PackedNorthSouth
  <2> QED BY <2>1, <2>3, <2>4
<1>4. Real(c, i) (+) Real(c, z) = Times(2, Part(c, "er", i)) /\ Real(c, i) (-) Real(c, z) = Times(2, Part(c, "od", i))
  BY <1>1, FieldParts
<1> HIDE DEF z
<1> QED BY <1>2, <1>3, <1>4 DEF PartsAre, NorthSouth

(* The analysis of row 0 with SHTNS4MAGIC. *)
LEMMA SymAsymMagicM0Right ==
  ASSUME call \in Calls, Packed(call), call.im = 0, call.magic, Ended(call, mem), NEW i \in Summed(call)
  PROVE  i \in DOMAIN SymAsymMagicM0 /\ PartsAre(SymAsymMagicM0[i], call, i, 2)
<1> DEFINE c == call
           L == c.nlat
           z == L - 1 - i
           d == 2 * i
           e == 2 * i + 1
<1>1. /\ L \in Nat /\ L % 2 = 0 /\ i \in Nat /\ i < L /\ z \in Nat /\ z < L /\ i \in Lats(0) /\ RowAt(c) = 0 /\ RowLen(c) = L
      /\ i < NLAT_2(c) /\ L = 2 * NLAT_2(c) /\ NLAT_2(c) \in Nat
  BY SummedFacts, RowAtInt, LayoutFacts
<1>2. i \in DOMAIN SymAsymMagicM0 /\ SymAsymMagicM0[i] = NorthSouth(Read(d), Read(e))
  BY <1>1 DEF SymAsymMagicM0
<1>3. d \in 0..(L - 1) /\ e \in 0..(L - 1) /\ d % 2 = 0 /\ e % 2 = 1 /\ d \div 2 = i /\ e \div 2 = i
  <2> DEFINE N == NLAT_2(c)
  <2>1. L = 2 * N /\ N \in Nat /\ i \in Nat /\ i < N
    BY <1>1
  <2> HIDE DEF L, N
  <2> QED BY <2>1
<1>4. Near(c, d) = Real(c, i) /\ Near(c, e) = Real(c, z)
  BY <1>1, PackedInTurn
<1> HIDE DEF d, e
<1>5. d \in 0..(RowLen(c) - 1) /\ e \in 0..(RowLen(c) - 1) /\ RowAt(c) + d = d /\ RowAt(c) + e = e
  <2> HIDE DEF L
  <2> QED BY <1>1, <1>3
<1>6. Lat(c, d) = i /\ Lat(c, e) = z
  BY <1>3, <1>5, LatFacts
<1>7. Read(RowAt(c) + d) = Near(c, d) /\ Read(RowAt(c) + e) = Near(c, e)
  BY <1>1, <1>5, <1>6, DoubleRead
<1>8. Real(c, i) (+) Real(c, z) = Times(2, Part(c, "er", i)) /\ Real(c, i) (-) Real(c, z) = Times(2, Part(c, "od", i))
  BY <1>1, FieldParts
<1>9. Read(d) = Real(c, i) /\ Read(e) = Real(c, z)
  BY <1>4, <1>5, <1>7
<1>10. /\ SymAsymMagicM0[i].er = Real(c, i) (+) Real(c, z) /\ SymAsymMagicM0[i].od = Real(c, i) (-) Real(c, z)
  BY <1>2, <1>9 DEF NorthSouth
<1> HIDE DEF c, z
<1>11. c.im = 0
  BY DEF c
<1>12. PartsAre(SymAsymMagicM0[i], c, i, 2)
  BY <1>8, <1>10, <1>11 DEF PartsAre
<1> QED BY <1>2, <1>12 DEF c

(* The analysis of one order. *)
LEMMA FixedRight ==
  ASSUME call \in Calls, call.kind = "fixed", Ended(call, mem), call.magic => call.nlat % 2 = 0, NEW i \in Summed(call)
  PROVE  i \in DOMAIN FixedSymAsym /\ PartsAre(FixedSymAsym[i], call, i, 2)
<1> DEFINE c == call
           L == c.nlat
           z == L - 1 - i
           n == 2 * (IF c.magic THEN 2 * i ELSE i)
           s == 2 * (IF c.magic THEN 2 * i + 1 ELSE L - 1 - i)
<1>1. /\ L \in Nat /\ i \in Nat /\ i < L /\ z \in Nat /\ z < L /\ i < NLAT_2(c) /\ NLAT_2(c) \in Nat /\ 2 * NLAT_2(c) <= L + 1
      /\ i \in Lats(0) /\ (c.im > 0 => i \in Lats(First)) /\ RowAt(c) = 0 /\ ~Packed(c) /\ RowLen(c) = 2 * L /\ c.im \in Nat
      /\ c.magic \in BOOLEAN
  BY SummedFacts, LayoutFacts, CallFacts DEF Packed, RowAt
<1>2. i \in Lats(IF c.im = 0 THEN 0 ELSE First)
  BY <1>1
<1>3. i \in DOMAIN FixedSymAsym /\ FixedSymAsym[i] = [er |-> Read(n) (+) Read(s), od |-> Read(n) (-) Read(s),
            ei |-> Read(n + 1) (+) Read(s + 1), oi |-> Read(n + 1) (-) Read(s + 1)]
  BY <1>2 DEF FixedSymAsym
<1>4. \A d \in 0..(2 * L - 1) : Lat(c, d) \in {i, z} => Read(d) = Near(c, d)
  <2> TAKE d \in 0..(2 * L - 1)
  <2> HAVE Lat(c, d) \in {i, z}
  <2>1. Read(RowAt(c) + d) = Near(c, d)
    BY <1>1, DoubleRead
  <2>2. RowAt(c) + d = d
    BY <1>1
  <2> QED BY <2>1, <2>2
<1>5. Read(n) = Real(c, i) /\ Read(s) = Real(c, z) /\ Read(n + 1) = Imag(c, i) /\ Read(s + 1) = Imag(c, z)
  <2>1. CASE ~c.magic
    <3>1. /\ \A d \in {n, n + 1} : d \in 0..(2 * L - 1) /\ d \div 2 = i
          /\ \A d \in {s, s + 1} : d \in 0..(2 * L - 1) /\ d \div 2 = z
      <4>1. n = 2 * i /\ s = 2 * z
        BY <2>1
      <4> HIDE DEF n, s, L, z
      <4> QED BY <1>1, <4>1
    <3>2. \A d \in 0..(2 * L - 1) : Lat(c, d) = d \div 2
      BY <1>1, <2>1, LatFacts
    <3>3. \A d \in {n, n + 1, s, s + 1} : Read(d) = Near(c, d)
      <4> HIDE DEF n, s, c
      <4> QED BY <1>4, <3>1, <3>2
    <3>4. /\ Near(c, 2 * i) = Real(c, i) /\ Near(c, 2 * i + 1) = Imag(c, i)
          /\ Near(c, 2 * z) = Real(c, z) /\ Near(c, 2 * z + 1) = Imag(c, z)
      <4> HIDE DEF z
      <4> QED BY <1>1, <2>1, PlainNorthSouth
    <3>5. n = 2 * i /\ s = 2 * z
      BY <2>1
    <3> HIDE DEF n, s, z, c
    <3> QED BY <3>3, <3>4, <3>5
  <2>2. CASE c.magic
    <3>1. L % 2 = 0
      BY <2>2
    <3>2. n = 4 * i /\ n + 1 = 4 * i + 1 /\ s = 4 * i + 2 /\ s + 1 = 4 * i + 3
      BY <1>1, <2>2
    <3>3. /\ \A d \in {n, n + 1} : d \in 0..(2 * L - 1) /\ d \div 4 = i /\ (d \div 2) % 2 = 0
          /\ \A d \in {s, s + 1} : d \in 0..(2 * L - 1) /\ d \div 4 = i /\ (d \div 2) % 2 # 0
      <4> DEFINE N == NLAT_2(c)
      <4>1. i \in Nat /\ i < N /\ N \in Nat /\ 2 * N <= L + 1 /\ L \in Nat
        BY <1>1
      <4> HIDE DEF n, s, L, N
      <4>2. 4 * i + 3 <= 2 * L - 1
        BY <3>1, <4>1
      <4> QED BY <3>2, <4>1, <4>2
    <3>4. \A d \in 0..(2 * L - 1) : IF (d \div 2) % 2 = 0 THEN Lat(c, d) = d \div 4 ELSE Lat(c, d) = L - 1 - d \div 4
      BY <1>1, <2>2, LatFacts
    <3>5. \A d \in {n, n + 1, s, s + 1} : Read(d) = Near(c, d)
      <4>1. \A d \in {n, n + 1} : Lat(c, d) = i
        <5> HIDE DEF n, s, c
        <5> QED BY <3>3, <3>4
      <4>2. \A d \in {s, s + 1} : Lat(c, d) = z
        <5> HIDE DEF n, s, c
        <5> QED BY <3>3, <3>4
      <4> HIDE DEF n, s, c, z
      <4> QED BY <1>4, <3>3, <4>1, <4>2
    <3>6. /\ Near(c, 4 * i) = Real(c, i) /\ Near(c, 4 * i + 1) = Imag(c, i)
          /\ Near(c, 4 * i + 2) = Real(c, z) /\ Near(c, 4 * i + 3) = Imag(c, z)
      BY <1>1, <2>2, PlainInTurn
    <3> HIDE DEF n, s, z, c
    <3> QED BY <3>2, <3>5, <3>6
  <2> QED BY <1>1, <2>1, <2>2
<1>6. /\ Real(c, i) (+) Real(c, z) = Times(2, Part(c, "er", i)) /\ Real(c, i) (-) Real(c, z) = Times(2, Part(c, "od", i))
      /\ c.im # 0 => /\ Imag(c, i) (+) Imag(c, z) = Times(2, Part(c, "ei", i))
                     /\ Imag(c, i) (-) Imag(c, z) = Times(2, Part(c, "oi", i))
  BY <1>1, FieldParts
<1> HIDE DEF n, s, z, c
<1>7. PartsAre(FixedSymAsym[i], c, i, 2)
  BY <1>1, <1>3, <1>5, <1>6 DEF PartsAre
<1> QED BY <1>3, <1>7 DEF c

(* Analysis gives the parts back. *)
LEMMA AnalyseGivesBack ==
  ASSUME NoneMisplaced, RowsInv, Analyse
  PROVE  RoundTrip'
<1> DEFINE c == call
           n == IF HasMirror(c) THEN 4 ELSE 2
<1>1. /\ pc = "analyse" /\ call' = c
      /\ parts' = CASE ~Packed(c) /\ c.kind # "fixed" -> parts
                    [] c.kind = "fixed" -> FixedSymAsym
                    [] Packed(c) /\ c.kind = "m0" -> IF c.magic THEN SymAsymMagicM0 ELSE SymAsymM0
                    [] Packed(c) /\ c.kind = "m" /\ ~c.magic -> SymAsymQ
                    [] Packed(c) /\ c.kind = "m" /\ c.magic -> SymAsymMagicQ
  BY DEF Analyse
<1>2. c \in Calls /\ Ended(c, mem) /\ (c.magic => c.nlat % 2 = 0)
  <2>1. c \in Calls /\ Ended(c, mem)
    BY <1>1 DEF RowsInv, RowsState
  <2>2. StoresWell(c)
    BY <2>1 DEF NoneMisplaced
  <2> QED BY <2>1, <2>2, MagicEven
<1>3. /\ c.magic \in BOOLEAN /\ c.kind \in {"m0", "m", "fixed"} /\ c.im \in Nat
      /\ (c.kind = "m0" => c.im = 0) /\ (c.kind = "m" => c.im > 0)
  BY <1>2, CallFacts DEF CallExists
<1>4. ASSUME Packed(c) \/ c.kind = "fixed", NEW i \in Summed(c)
      PROVE  i \in DOMAIN parts' /\ PartsAre(parts'[i], c, i, n)
  <2>1. CASE c.kind = "fixed"
    <3>1. parts' = FixedSymAsym
      BY <1>1, <2>1
    <3>2. n = 2
      BY <2>1 DEF HasMirror, Packed
    <3>3. i \in DOMAIN FixedSymAsym /\ PartsAre(FixedSymAsym[i], c, i, 2)
      BY <1>2, <2>1, FixedRight
    <3> HIDE DEF c, n
    <3> QED BY <3>1, <3>2, <3>3
  <2>2. CASE Packed(c) /\ c.kind = "m0" /\ c.magic
    <3>1. parts' = SymAsymMagicM0
      BY <1>1, <2>2
    <3>2. n = 2
      BY <1>3, <2>2 DEF HasMirror
    <3>3. i \in DOMAIN SymAsymMagicM0 /\ PartsAre(SymAsymMagicM0[i], c, i, 2)
      BY <1>2, <1>3, <2>2, SymAsymMagicM0Right
    <3> HIDE DEF c, n
    <3> QED BY <3>1, <3>2, <3>3
  <2>3. CASE Packed(c) /\ c.kind = "m0" /\ ~c.magic
    <3>1. parts' = SymAsymM0
      BY <1>1, <2>3
    <3>2. n = 2
      BY <1>3, <2>3 DEF HasMirror
    <3>3. i \in DOMAIN SymAsymM0 /\ PartsAre(SymAsymM0[i], c, i, 2)
      BY <1>2, <1>3, <2>3, SymAsymM0Right
    <3> HIDE DEF c, n
    <3> QED BY <3>1, <3>2, <3>3
  <2>4. CASE Packed(c) /\ c.kind = "m" /\ ~c.magic
    <3>1. parts' = SymAsymQ
      BY <1>1, <2>4
    <3>2. HasMirror(c) /\ n = 4
      BY <1>3, <2>4 DEF HasMirror
    <3>3. i \in DOMAIN SymAsymQ /\ PartsAre(SymAsymQ[i], c, i, 4)
      BY <1>2, <2>4, <3>2, SymAsymQRight
    <3> HIDE DEF c, n
    <3> QED BY <3>1, <3>2, <3>3
  <2>5. CASE Packed(c) /\ c.kind = "m" /\ c.magic
    <3>1. parts' = SymAsymMagicQ
      BY <1>1, <2>5
    <3>2. HasMirror(c) /\ n = 4
      BY <1>3, <2>5 DEF HasMirror
    <3>3. i \in DOMAIN SymAsymMagicQ /\ PartsAre(SymAsymMagicQ[i], c, i, 4)
      BY <1>2, <2>5, <3>2, SymAsymMagicQRight
    <3> HIDE DEF c, n
    <3> QED BY <3>1, <3>2, <3>3
  <2> QED BY <1>3, <1>4, <2>1, <2>2, <2>3, <2>4, <2>5
<1>5. ASSUME Packed(c) \/ c.kind = "fixed", NEW i \in Summed(c)
      PROVE  /\ i \in DOMAIN parts'
             /\ parts'[i].er = Times(n, Part(c, "er", i)) /\ parts'[i].od = Times(n, Part(c, "od", i))
             /\ c.im > 0 => parts'[i].ei = Times(n, Part(c, "ei", i)) /\ parts'[i].oi = Times(n, Part(c, "oi", i))
  <2>1. i \in DOMAIN parts' /\ PartsAre(parts'[i], c, i, n)
    BY <1>4, <1>5
  <2> HIDE DEF c, n
  <2> QED BY <2>1 DEF PartsAre
<1>6. Summed(c) = (IF c.im = 0 THEN 0 ELSE c.tm)..(NLAT_2(c) - 1)
  BY DEF Summed, From
<1>7. call' = call
  BY <1>1
<1> QED BY <1>5, <1>6, <1>7 DEF RoundTrip

(* It is so from then on. *)
LEMMA RoundTripStep ==
  ASSUME NoneMisplaced, RowsInv, RoundTrip, [Next]_vars
  PROVE  RoundTrip'
<1>1. CASE Analyse
  BY <1>1, AnalyseGivesBack
<1>2. CASE SumBlock
  <2>1. pc = "sums" /\ call' = call /\ parts' = parts
    BY <1>2 DEF SumBlock
  <2> QED BY <2>1 DEF RoundTrip
<1>3. CASE FlyPoles \/ FixedPoles \/ NoPoles \/ FlyBlock \/ MicBlock \/ MicStoreM0 \/ MicStore
  <2>1. pc' # "sums"
    BY <1>3 DEF FlyPoles, FixedPoles, NoPoles, FlyBlock, MicBlock, MicStoreM0, MicStore
  <2> QED BY <2>1 DEF RoundTrip
<1>4. CASE UNCHANGED vars
  BY <1>4 DEF vars, RoundTrip
<1> QED BY <1>1, <1>2, <1>3, <1>4 DEF Next

(* All of this holds throughout. *)
THEOREM RowsInvariant ==
  ASSUME NoneMisplaced
  PROVE  Spec => [](RowsInv /\ WeightsInv /\ RoundTrip)
<1>1. Init => RowsInv /\ WeightsInv /\ RoundTrip
  <2> SUFFICES ASSUME Init PROVE RowsInv /\ WeightsInv /\ RoundTrip
    OBVIOUS
  <2>1. RowsInv
    BY RowsStart
  <2>2. WeightsInv
    BY DEF Init, WeightsInv
  <2>3. RoundTrip
    BY DEF Init, RoundTrip
  <2> QED BY <2>1, <2>2, <2>3
<1>2. RowsInv /\ WeightsInv /\ RoundTrip /\ [Next]_vars => (RowsInv /\ WeightsInv /\ RoundTrip)'
  BY RowsStep, WeightsStep, RoundTripStep
<1> QED BY <1>1, <1>2, PTL DEF Spec

(* For any grid, block size, vector extension, layout and polar optimisation the program accepts, except
   where a macro is wrong, the rows hold at each latitude the value of the field there, or zero where
   the polar optimisation skips it: however blocks overlap, run over the equator, or are cleared. *)
THEOREM RowsAreRight ==
  ASSUME NoneMisplaced
  PROVE  Spec => []RowsRight
<1>1. RowsInv => RowsRight
  BY RowsHold
<1> QED BY <1>1, RowsInvariant, PTL

(* The stores of the kernels stay in the two rows of the order and hold no latitude which does not exist;
   the local arrays of mic are large enough. *)
THEOREM RowsTyped ==
  ASSUME NoneMisplaced
  PROVE  Spec => []TypeOK
<1>1. RowsInv /\ WeightsInv => TypeOK
  BY TypesHold
<1> QED BY <1>1, RowsInvariant, PTL

(* Whatever the layout, analysis finds in the rows of synthesis the parts which synthesis has put there,
   at each latitude from the polar optimisation to the equator. *)
THEOREM PartsComeBack ==
  ASSUME NoneMisplaced
  PROVE  Spec => []RoundTrip
BY RowsInvariant, PTL
=============================================================================
