------------------------- MODULE GpuKernels_proofs -------------------------
(***************************************************************************)
(* No race, no deadlock at a barrier, and no access outside of an array,   *)
(* in the kernels of GpuKernels, for all sizes, launches and shapes of     *)
(* blocks which LaunchAssumption allows.                                   *)
(*                                                                         *)
(* Shared memory is cut into what each warp may write.  What one warp does *)
(* between two barriers is written within its own part, and is read there  *)
(* or in arrays that nobody writes between these two barriers.  For this   *)
(* every warp has to be at the same place of the program after the same    *)
(* barrier: the degree a warp has come to is a function of the number of   *)
(* barriers it has passed, and so is the number of the last barrier.       *)
(***************************************************************************)
EXTENDS GpuKernels, FiniteSetTheorems, TLAPS

-----------------------------------------------------------------------------
(* Induction over the natural numbers, for sets rather than predicates.     *)

(* A set with 0 and with the successor of each of its numbers has all. *)
LEMMA SetInduction ==
  ASSUME NEW P, 0 \in P, \A k \in Nat : k \in P => k + 1 \in P
  PROVE  Nat \subseteq P
<1> SUFFICES ASSUME NEW n \in Nat, n \notin P PROVE FALSE
  OBVIOUS
<1> DEFINE D == {k \in 0..n : k \notin P}
           f == [k \in D |-> k - 1]
<1>1. IsFiniteSet(0..n)
  BY FS_Interval
<1>2. IsFiniteSet(D)
  BY <1>1, FS_Subset
<1>3. IsFiniteSet(D \ {n}) /\ Cardinality(D \ {n}) = Cardinality(D) - 1 /\ Cardinality(D) \in Nat
  <2>1. n \in D
    OBVIOUS
  <2> QED BY <1>2, <2>1, FS_RemoveElement, FS_CardinalityType
<1>4. \A k \in D : k - 1 \in D \ {n}
  <2> TAKE k \in D
  <2>1. k \in Nat /\ k # 0
    OBVIOUS
  <2>2. k - 1 \in Nat /\ (k - 1) + 1 = k /\ k - 1 \in 0..n /\ k - 1 # n
    BY <2>1
  <2>3. k - 1 \notin P
    BY <2>2
  <2> QED BY <2>2, <2>3
<1>5. f \in Injection(D, D \ {n})
  BY <1>4 DEF Injection, IsInjective
<1>6. Cardinality(D) <= Cardinality(D \ {n})
  BY <1>2, <1>3, <1>5, FS_Injection DEF ExistsInjection
<1> QED BY <1>3, <1>6

(* A set of natural numbers which is not empty has a least element. *)
LEMMA LeastExists ==
  ASSUME NEW S \in SUBSET Nat, S # {}
  PROVE  \E least \in S : \A n \in S : least <= n
<1> SUFFICES ASSUME \A least \in S : \E n \in S : ~(least <= n) PROVE FALSE
  OBVIOUS
<1> DEFINE P == {k \in Nat : \A n \in S : n >= k}
<1>1. 0 \in P
  OBVIOUS
<1>2. \A k \in Nat : k \in P => k + 1 \in P
  <2> SUFFICES ASSUME NEW k \in Nat, k \in P, NEW n \in S, ~(n >= k + 1) PROVE FALSE
    OBVIOUS
  <2>1. n = k
    OBVIOUS
  <2>2. PICK least \in S : ~(n <= least)
    OBVIOUS
  <2> QED BY <2>1, <2>2
<1> HIDE DEF P
<1>3. Nat \subseteq P
  BY <1>1, <1>2, SetInduction
<1>4. PICK n \in S : TRUE
  OBVIOUS
<1>5. n + 1 \in P
  BY <1>3, <1>4
<1> QED BY <1>4, <1>5 DEF P

-----------------------------------------------------------------------------
(***************************************************************************)
(* The inductive invariant                                                 *)
(***************************************************************************)
\* The warp that owns number i of array a; the numbers of ak move by two after the first barrier.
Owner(J, a, i, n) ==
  LET B == Shape[J.kern].threads
      W == Shape[J.kern].warp
  IN  IF J.kern \in Transpose THEN (i \div (W \div 2)) % (B \div W)
      ELSE IF J.kern \in Ileg /\ a = "ak" /\ n > 0 THEN (i - 2) \div W
      ELSE (i % B) \div W

\* The arrays that may be written after the n-th barrier; the others are only read.
WrittenIn(J, n) ==
  IF J.kern = "leg_high" THEN Arrays
  ELSE IF J.kern = "ileg_high" THEN IF n % 2 = 1 THEN {"yl", "reo"} ELSE {"ak"}
  ELSE IF J.kern \in Ileg
  THEN IF n = 0 THEN {"yl", "ak"} ELSE IF n % 2 = 0 THEN {"yl"}
       ELSE IF n > 2 * J.fields THEN {"ak"} ELSE {}
  ELSE IF n % 2 = 0 THEN Arrays ELSE {}

MayWrite(J, n, w, c) == c[1] \in WrittenIn(J, n) /\ Owner(J, c[1], c[2], n) = w
MayRead(J, n, w, c) == Owner(J, c[1], c[2], n) = w \/ c[1] \notin WrittenIn(J, n)
Inside(c) == c[2] \in Indices(c[1])

AccessInv ==
  /\ DOMAIN log = {"bar", "r", "w"}
  /\ \A z \in log.w : MayWrite(job, log.bar, z[2], z[1]) /\ Inside(z[1])
  /\ \A z \in log.r : MayRead(job, log.bar, z[2], z[1]) /\ Inside(z[1])

\* The degree which each kernel has come to after 2i+1 barriers.
M0L(B, i) ==
  IF i = 0 THEN 2 ELSE 2 + 2 * ((B - 5) \div 4) + (i - 1) * (2 * ((B - 3) \div 4))
LowL(B, M, i) == M + i * (B \div 2)
IlegL(M, i) == M + i * LSPAN
\* The barriers of ileg_ before its loop.
Base(J) == IF J.kern = "ileg_high" THEN 1 ELSE 2 * J.fields

\* Whether a warp comes to barrier b.
Comes(J, b) ==
  LET B == Shape[J.kern].threads
      M == J.im * MRES
  IN  \/ b = 0
      \/ J.kern = "leg_m0" /\ (b = 1 \/ M0L(B, b \div 2) < J.llim)
      \/ J.kern = "leg_low" /\ (b = 1 \/ LowL(B, M, (b \div 2) - 1) <= J.llim - (B \div 2))
      \/ J.kern \in Ileg /\ (b <= Base(J) + 2 \/ IlegL(M, (b - Base(J) - 1) \div 2) <= J.llim)
      \/ J.kern \in Convert \cup Transpose /\ b = 1

\* Where a warp is: its registers l, k, f and lo, its next step p and its last barrier b.
M0At(B, L, l, k, f, p, b) ==
  \/ p \in {"load", "start"} /\ b = (IF p = "load" THEN 0 ELSE 1) /\ l = 0
  \/ /\ p = "run" /\ b % 2 = 1
     /\ f \in Nat /\ k = 2 * f - (IF b = 1 THEN 2 ELSE 0) /\ 0 <= k /\ k <= B - 3
     /\ \/ l = M0L(B, b \div 2) /\ k = (IF b = 1 THEN 2 ELSE 0)
        \/ l >= L /\ l <= L + 1 /\ M0L(B, (b \div 2) + 1) >= L
  \/ /\ p = "run" /\ b > 0 /\ b % 2 = 0
     /\ l = M0L(B, b \div 2) /\ l < L /\ k \in Int /\ k + 6 >= B
  \/ /\ p \in {"store", "done"} /\ b % 2 = 1
     /\ M0L(B, (b \div 2) + 1) >= L /\ 0 <= l /\ (l <= 3 \/ l <= L + 1)

LowAt(B, M, L, l, p, b) ==
  \/ p = "load" /\ b = 0 /\ l = M
  \/ p = "run" /\ b % 2 = 1 /\ l = LowL(B, M, b \div 2)
  \/ p = "refill" /\ b > 0 /\ b % 2 = 0 /\ l = LowL(B, M, b \div 2)
  \/ p \in {"store", "done"} /\ b % 2 = 1 /\ LowL(B, M, b \div 2) > L - (B \div 2)

HighAt(M, l, lo, p, b) ==
  lo \in Nat /\ (p = "load" => l = M) /\ b = 0 /\ p \in {"load", "climb", "store", "done"}

IlegAt(J, M, l, f, p, b) ==
  LET i == (b - Base(J)) \div 2
      own == J.kern = "ileg_high"
  IN  /\ f \in 0..(J.fields - 1)
      /\ \/ p = "load" /\ b = 0 /\ f = 0 /\ l = M
         \/ p = "field" /\ b = (IF own THEN 1 ELSE 2 * f) /\ l = M
         \/ p = "gather" /\ ~own /\ b = 2 * f + 1 /\ l = M
         \/ p = "start" /\ b = (IF own THEN 1 ELSE 2 * J.fields - 1) /\ l = M
         \/ p = "fill" /\ b >= Base(J) /\ (b - Base(J)) % 2 = 0 /\ l = IlegL(M, i) /\ l <= J.llim
         \/ p = "sum" /\ b > Base(J) /\ (b - Base(J)) % 2 = 1 /\ l = IlegL(M, i) /\ l <= J.llim
         \/ p = "done" /\ b > Base(J) /\ (b - Base(J)) % 2 = 0 /\ l = IlegL(M, i) /\ l > J.llim

OnceAt(J, p, b) ==
  \/ p = "load" /\ b = 0
  \/ p = (IF J.kern \in Convert THEN "convert" ELSE "turn") /\ b = 1
  \/ p = "done" /\ b = 1

Names == {"l", "al", "k", "f", "p", "q", "lo", "first", "terms", "twice", "reo"}
WarpOK(J, x, p, b) ==
  LET B == Shape[J.kern].threads
      M == J.im * MRES
  IN  /\ DOMAIN x = Names /\ x.l \in M..(LMAX + 2 + LSPAN) /\ x.al \in Nat
      /\ b \in Nat /\ p \in Steps /\ Comes(J, b)
      /\ J.kern = "leg_m0" => M0At(B, J.llim, x.l, x.k, x.f, p, b)
      /\ J.kern = "leg_low" => LowAt(B, M, J.llim, x.l, p, b)
      /\ J.kern = "leg_high" => HighAt(M, x.l, x.lo, p, b)
      /\ J.kern \in Ileg => IlegAt(J, M, x.l, x.f, p, b)
      /\ J.kern \in Convert \cup Transpose => OnceAt(J, p, b)

IInv ==
  /\ job \in Jobs /\ blk \in 0..(Blocks - 1)
  /\ pc \in [Warps -> Steps] /\ bar \in [Warps -> Nat] /\ DOMAIN regs = Warps
  /\ \A w \in Warps : WarpOK(job, regs[w], pc[w], bar[w])
  /\ DOMAIN mem = Arrays /\ \A a \in Arrays : DOMAIN mem[a] = Indices(a)
  /\ AccessInv

-----------------------------------------------------------------------------
(* Division.                                                               *)

(* The quotient and the remainder of a sum that is split already. *)
LEMMA Split ==
  ASSUME NEW b \in Nat \ {0}, NEW k \in Nat, NEW j \in 0..(b - 1)
  PROVE  (k * b + j) \div b = k /\ (k * b + j) % b = j /\ k * b \in Nat
<1> DEFINE z == k * b + j
           q == z \div b
<1>1. k * b \in Nat /\ z \in Nat
  OBVIOUS
<1>2. z = b * q + (z % b) /\ z % b \in 0..(b - 1) /\ q \in Int
  BY <1>1
<1>3. q = k
  <2> HIDE DEF z, q
  <2>1. CASE q >= k + 1
    <3> DEFINE d == q - k - 1
    <3>1. d \in Nat /\ q = k + 1 + d
      BY <1>2, <2>1
    <3> HIDE DEF d
    <3>2. b * q = k * b + b + b * d /\ b * d \in Nat
      BY <3>1
    <3> QED BY <1>2, <3>2 DEF z
  <2>2. CASE q <= k - 1
    <3> DEFINE d == k - q - 1
    <3>1. d \in Nat /\ k = q + 1 + d
      BY <1>2, <2>2
    <3> HIDE DEF d
    <3>2. k * b = b * q + b + b * d /\ b * d \in Nat
      BY <1>2, <3>1
    <3> QED BY <1>2, <3>2 DEF z
  <2> QED BY <1>2, <2>1, <2>2
<1>4. b * q = k * b
  BY <1>3
<1> QED BY <1>1, <1>2, <1>3, <1>4

(* A number that is divisible is the product. *)
LEMMA Exact ==
  ASSUME NEW b \in Nat \ {0}, NEW z \in Nat, z % b = 0
  PROVE  z = (z \div b) * b /\ z \div b \in Nat /\ (z > 0 => z \div b > 0)
<1>1. z = b * (z \div b) + (z % b) /\ z \div b \in Nat
  OBVIOUS
<1> DEFINE q == z \div b
<1> HIDE DEF q
<1>2. z = b * q /\ q \in Nat
  BY <1>1 DEF q
<1>3. b * q = q * b /\ (q = 0 => b * q = 0)
  BY <1>2
<1> QED BY <1>2, <1>3 DEF q

(* Products keep order. *)
LEMMA Monotone ==
  ASSUME NEW i \in Int, NEW j \in Int, NEW k \in Nat, i <= j
  PROVE  i * k <= j * k /\ i * k \in Int /\ j * k \in Int
<1> DEFINE d == j - i
<1>1. d \in Nat /\ j = i + d
  OBVIOUS
<1> HIDE DEF d
<1>2. j * k = i * k + d * k /\ d * k \in Nat /\ i * k \in Int
  BY <1>1
<1> QED BY <1>2

(* The halves of a number of barriers. *)
LEMMA OddEven ==
  ASSUME NEW b \in Nat
  PROVE  /\ b \div 2 \in Nat /\ b % 2 \in {0, 1} /\ b = 2 * (b \div 2) + (b % 2)
         /\ b % 2 = 1 => (b + 1) \div 2 = (b \div 2) + 1 /\ (b + 1) % 2 = 0
         /\ b % 2 = 0 => (b + 1) \div 2 = b \div 2 /\ (b + 1) % 2 = 1
OBVIOUS

-----------------------------------------------------------------------------
(* Launches, blocks and warps.                                             *)

LaunchOK(J) ==
  /\ J \in Jobs /\ J.kern \in Kernels /\ J.S \in 0..1 /\ J.im \in 0..MMAX /\ J.llim \in 0..(LMAX + 1)
  /\ J.n \in Nat \ {0} /\ J.fields \in 1..2
  /\ J.im * MRES \in 0..LMAX /\ J.im * MRES <= J.llim /\ J.llim <= LMAX + J.S
  /\ J.kern \in {"leg_m0", "ileg_m0"} => J.im = 0
  /\ J.kern \in {"leg_m0", "leg_high", "ileg_high"} => J.fields = 1

(* What is assumed of a launch. *)
LEMMA LaunchFacts ==
  ASSUME NEW J \in Jobs PROVE LaunchOK(J)
<1>1. J \in JobType
  BY SizesAssumption
<1>2. J.kern \in Kernels /\ J.S \in 0..1 /\ J.im \in 0..MMAX /\ J.llim \in 0..(LMAX + 1)
      /\ J.n \in Nat \ {0} /\ J.fields \in 1..2
  BY <1>1 DEF JobType
<1>3. J.im * MRES <= MMAX * MRES /\ J.im * MRES \in Nat
  <2>1. J.im \in Nat /\ MMAX \in Nat /\ MRES \in Nat /\ J.im <= MMAX
    BY <1>2, SizesAssumption
  <2> QED BY <2>1, Monotone
<1>4. J.im * MRES \in 0..LMAX
  BY <1>3, SizesAssumption
<1>5. /\ J.im * MRES <= J.llim /\ J.llim <= LMAX + J.S
      /\ J.kern \in {"leg_m0", "ileg_m0"} => J.im = 0
      /\ J.kern \in {"leg_m0", "leg_high", "ileg_high"} => J.fields = 1
  BY LaunchAssumption
<1> QED BY <1>2, <1>4, <1>5 DEF LaunchOK

BlockOK(B, W) ==
  /\ B \in Nat \ {0} /\ W \in Nat \ {0} /\ B \div W \in Nat \ {0} /\ B = (B \div W) * W

(* A block is a whole number of warps. *)
LEMMA BlockFacts ==
  ASSUME NEW k \in Kernels PROVE BlockOK(Shape[k].threads, Shape[k].warp)
<1>1. Shape[k] \in [threads: Nat \ {0}, warp: Nat \ {0}]
  BY SizesAssumption
<1>2. Shape[k].threads \in Nat \ {0} /\ Shape[k].warp \in Nat \ {0}
  BY <1>1
<1>3. Shape[k].threads % Shape[k].warp = 0
  BY LaunchAssumption
<1> QED BY <1>2, <1>3, Exact DEF BlockOK

(* The lanes of a warp are threads of the block, and no others are in this warp. *)
LEMMA LaneFacts ==
  ASSUME NEW B, NEW W, BlockOK(B, W), NEW w \in 0..((B \div W) - 1),
         NEW j \in (w * W)..((w + 1) * W - 1)
  PROVE  j \in 0..(B - 1) /\ j \div W = w /\ j % B = j
<1> DEFINE N == B \div W
<1>1. N \in Nat \ {0} /\ B = N * W /\ B \in Nat \ {0} /\ W \in Nat \ {0} /\ w \in 0..(N - 1)
  BY DEF BlockOK
<1> HIDE DEF N
<1>2. w * W \in Nat /\ (w + 1) * W = w * W + W /\ (w + 1) * W <= N * W
  <2>1. w + 1 \in Int /\ N \in Int /\ w + 1 <= N /\ W \in Nat
    BY <1>1
  <2> QED BY <1>1, <2>1, Monotone
<1>3. j \in 0..(B - 1) /\ j - w * W \in 0..(W - 1) /\ j = w * W + (j - w * W)
  <2> DEFINE s == w * W
             e == (w + 1) * W
  <2>1. s \in Nat /\ e = s + W /\ e <= B /\ j \in s..(e - 1)
    BY <1>1, <1>2
  <2> HIDE DEF s, e
  <2>2. j \in 0..(B - 1) /\ j - s \in 0..(W - 1) /\ j = s + (j - s)
    BY <1>1, <2>1
  <2> QED BY <2>2 DEF s
<1>4. j \div W = w
  BY <1>1, <1>3, Split
<1>5. j % B = j
  BY <1>1, <1>3
<1> QED BY <1>3, <1>4, <1>5

(* What the definitions of GpuKernels are for the launch of a state. *)
LEMMA StateFacts ==
  ASSUME job \in Jobs
  PROVE  /\ LaunchOK(job) /\ BlockOK(BLOCKSIZE, WARPSZE)
         /\ kern = job.kern /\ im = job.im /\ m = job.im * MRES /\ llim = job.llim /\ nlat_2 = job.n
         /\ \A w \in Warps : w \in Nat /\ \A j \in Lanes(w) :
              j \in 0..(BLOCKSIZE - 1) /\ j \div WARPSZE = w /\ j % BLOCKSIZE = j
<1>1. LaunchOK(job)
  BY LaunchFacts
<1>2. BlockOK(BLOCKSIZE, WARPSZE)
  BY <1>1, BlockFacts DEF LaunchOK, BLOCKSIZE, WARPSZE, kern
<1>3. ASSUME NEW w \in Warps, NEW j \in Lanes(w)
      PROVE  j \in 0..(BLOCKSIZE - 1) /\ j \div WARPSZE = w /\ j % BLOCKSIZE = j
  BY <1>2, LaneFacts DEF Warps, Lanes
<1>4. \A w \in Warps : w \in Nat
  BY <1>2 DEF Warps, BlockOK
<1> QED BY <1>1, <1>2, <1>3, <1>4 DEF kern, im, m, llim, nlat_2

-----------------------------------------------------------------------------
(* One step of one warp.                                                   *)

After(b, sync) == IF sync THEN b + 1 ELSE b

PutsOK(w, puts) ==
  \A a \in DOMAIN puts : \A i \in DOMAIN puts[a] :
    MayWrite(job, bar[w], w, <<a, i>>) /\ Inside(<<a, i>>)
ReadsOK(w, reads) == \A c \in reads : MayRead(job, bar[w], w, c) /\ Inside(c)

(* What depends on the launch only does not change within it. *)
LEMMA Frame ==
  ASSUME job' = job
  PROVE  Warps' = Warps /\ Blocks' = Blocks /\ \A a : Indices(a)' = Indices(a)
<1>1. kern' = kern /\ im' = im /\ nlat_2' = nlat_2
  BY DEF kern, im, nlat_2
<1>2. BLOCKSIZE' = BLOCKSIZE /\ WARPSZE' = WARPSZE
  BY <1>1 DEF BLOCKSIZE, WARPSZE
<1>3. TILE_DIM' = TILE_DIM /\ dim0' = dim0 /\ dim1' = dim1 /\ LegBlock' = LegBlock
  BY <1>1, <1>2 DEF TILE_DIM, dim0, dim1, LegBlock
<1>4. Warps' = Warps
  BY <1>2 DEF Warps
<1>5. Blocks' = Blocks
  BY <1>1, <1>2, <1>3 DEF Blocks
<1>6. ASSUME NEW a PROVE Indices(a)' = Indices(a)
  BY <1>1, <1>2 DEF Indices, Size
<1> QED BY <1>4, <1>5, <1>6

(* A step keeps the invariant when the warp comes to a place where it may  *)
(* be, and touches what it may.                                            *)
LEMMA StepKeeps ==
  ASSUME IInv, NEW w \in Warps, NEW r, NEW puts, NEW reads, NEW sync \in BOOLEAN, NEW next,
         Step(w, r, puts, reads, sync, next),
         WarpOK(job, r, next, After(bar[w], sync)), PutsOK(w, puts), ReadsOK(w, reads)
  PROVE  IInv'
<1>1. /\ job \in Jobs /\ blk \in 0..(Blocks - 1)
      /\ pc \in [Warps -> Steps] /\ bar \in [Warps -> Nat] /\ DOMAIN regs = Warps
      /\ \A v \in Warps : WarpOK(job, regs[v], pc[v], bar[v])
      /\ DOMAIN mem = Arrays /\ \A a \in Arrays : DOMAIN mem[a] = Indices(a)
      /\ AccessInv
  BY DEF IInv
<1>2. job' = job /\ blk' = blk
  BY DEF Step
<1>3. Warps' = Warps /\ Blocks' = Blocks /\ \A a : Indices(a)' = Indices(a)
  BY <1>2, Frame
<1>4. next \in Steps /\ After(bar[w], sync) \in Nat
  BY DEF WarpOK
<1>5. bar' = [bar EXCEPT ![w] = After(bar[w], sync)]
  <2>1. bar' = IF sync THEN [bar EXCEPT ![w] = @ + 1] ELSE bar
    BY DEF Step
  <2>2. CASE sync
    BY <2>1, <2>2 DEF After
  <2>3. CASE ~sync
    BY <1>1, <2>1, <2>3 DEF After
  <2> QED BY <2>2, <2>3
<1>6. regs' = [regs EXCEPT ![w] = r] /\ pc' = [pc EXCEPT ![w] = next]
  BY DEF Step
<1>7. /\ (pc \in [Warps -> Steps])' /\ (bar \in [Warps -> Nat])' /\ (DOMAIN regs = Warps)'
  BY <1>1, <1>3, <1>4, <1>5, <1>6
<1>8. ASSUME NEW v \in Warps PROVE WarpOK(job', regs'[v], pc'[v], bar'[v])
  <2>1. CASE v = w
    BY <1>1, <1>2, <1>5, <1>6, <2>1
  <2>2. CASE v # w
    BY <1>1, <1>2, <1>5, <1>6, <2>2
  <2> QED BY <2>1, <2>2
<1>9. DOMAIN mem' = Arrays /\ \A a \in Arrays : DOMAIN mem'[a] = Indices(a)'
  <2>1. mem' = [a \in Arrays |-> IF a \in DOMAIN puts THEN Put(mem[a], puts[a]) ELSE mem[a]]
    BY DEF Step
  <2>2. \A a \in Arrays : DOMAIN Put(mem[a], puts[a]) = DOMAIN mem[a]
    BY DEF Put
  <2> QED BY <1>1, <1>3, <2>1, <2>2
<1>10. AccessInv'
  <2> DEFINE old == IF log.bar = bar[w] THEN log ELSE [bar |-> bar[w], r |-> {}, w |-> {}]
             written == UNION {Cells(a, DOMAIN puts[a]) : a \in DOMAIN puts}
  <2>1. log' = [old EXCEPT !.r = @ \cup {<<c, w>> : c \in reads},
                           !.w = @ \cup {<<c, w>> : c \in written}]
    BY DEF Step
  <2>2. /\ DOMAIN old = {"bar", "r", "w"} /\ old.bar = bar[w]
        /\ \A z \in old.w : MayWrite(job, bar[w], z[2], z[1]) /\ Inside(z[1])
        /\ \A z \in old.r : MayRead(job, bar[w], z[2], z[1]) /\ Inside(z[1])
    BY <1>1 DEF AccessInv
  <2>3. \A c \in written : MayWrite(job, bar[w], w, c) /\ Inside(c)
    BY DEF PutsOK, Cells
  <2>4. \A c \in reads : MayRead(job, bar[w], w, c) /\ Inside(c)
    BY DEF ReadsOK
  <2> HIDE DEF old, written
  <2>5. /\ DOMAIN log' = {"bar", "r", "w"} /\ log'.bar = bar[w]
        /\ log'.r = old.r \cup {<<c, w>> : c \in reads}
        /\ log'.w = old.w \cup {<<c, w>> : c \in written}
    BY <2>1, <2>2
  <2>6. \A c : Inside(c)' = Inside(c)
    BY <1>3 DEF Inside
  <2>7. ASSUME NEW z \in log'.w PROVE MayWrite(job', log'.bar, z[2], z[1]) /\ Inside(z[1])'
    BY <1>2, <2>2, <2>3, <2>5, <2>6, <2>7
  <2>8. ASSUME NEW z \in log'.r PROVE MayRead(job', log'.bar, z[2], z[1]) /\ Inside(z[1])'
    BY <1>2, <2>2, <2>4, <2>5, <2>6, <2>8
  <2> QED BY <2>5, <2>7, <2>8 DEF AccessInv
<1> QED BY <1>1, <1>2, <1>3, <1>7, <1>8, <1>9, <1>10 DEF IInv

-----------------------------------------------------------------------------
(* The start of a block.                                                   *)

(* The row of an order starts within the table. *)
LEMMA RowFacts ==
  ASSUME job \in Jobs PROVE AlRow \in Nat /\ QlRow \in Nat
<1>1. /\ LaunchOK(job) /\ im = job.im /\ m = job.im * MRES
  BY StateFacts
<1>2. im \in Nat /\ m \in 0..LMAX /\ LMAX \in Nat /\ MRES \in Nat \ {0} /\ job.S \in 0..1
  BY <1>1, SizesAssumption DEF LaunchOK
<1>3. CASE im = 0
  BY <1>3 DEF AlRow, QlRow
<1>4. CASE im # 0
  <2>1. 1 * MRES <= im * MRES
    <3>1. im \in Int /\ 1 <= im
      BY <1>2, <1>4
    <3> QED BY <1>2, <3>1, Monotone
  <2> DEFINE c == 2 * (LMAX + 1) - (m + MRES)
  <2>2. c \in Nat
    BY <1>1, <1>2, <2>1
  <2>3. im * c \in Nat
    BY <1>2, <2>2
  <2> DEFINE e == im * c
  <2>4. e \div 2 \in Nat
    <3> HIDE DEF e
    <3> QED BY <2>3 DEF e
  <2>5. ImRow \in Nat
    BY <2>4 DEF ImRow
  <2> HIDE DEF c, e
  <2>6. job.S * im \in Nat
    BY <1>2
  <2> QED BY <1>2, <1>4, <2>5, <2>6 DEF AlRow, QlRow
<1> QED BY <1>3, <1>4

(* There is a block. *)
LEMMA BlocksFact ==
  ASSUME job \in Jobs PROVE Blocks \in Nat \ {0}
<1>1. /\ LaunchOK(job) /\ BlockOK(BLOCKSIZE, WARPSZE) /\ kern = job.kern /\ nlat_2 = job.n
  BY StateFacts
<1>2. BLOCKSIZE \in Nat \ {0} /\ NW \in Nat \ {0} /\ nlat_2 \in Nat \ {0} /\ kern \in Kernels
  BY <1>1, SizesAssumption DEF BlockOK, LaunchOK
<1>3. ASSUME NEW a \in Nat \ {0}, NEW b \in Nat \ {0} PROVE Ceil(a, b) \in Nat \ {0}
  <2> DEFINE q == (a + b - 1) \div b
  <2>1. a + b - 1 = b * q + ((a + b - 1) % b) /\ (a + b - 1) % b \in 0..(b - 1) /\ q \in Nat
    OBVIOUS
  <2>2. q # 0
    <3> HIDE DEF q
    <3> SUFFICES ASSUME q = 0 PROVE FALSE
      OBVIOUS
    <3>1. b * q = 0
      OBVIOUS
    <3> QED BY <2>1, <3>1
  <2> QED BY <2>1, <2>2 DEF Ceil
<1>4. CASE kern \in Leg
  <2>1. LegBlock \in Nat \ {0}
    BY <1>2 DEF LegBlock
  <2>2. Ceil(nlat_2, LegBlock) \in Nat \ {0}
    BY <1>2, <1>3, <2>1
  <2> QED BY <1>4, <2>2 DEF Blocks, Leg, Ileg, Convert, Transpose
<1>5. CASE kern \in Ileg
  <2>2. Ceil(nlat_2, BLOCKSIZE) \in Nat \ {0}
    BY <1>2, <1>3
  <2> QED BY <1>5, <2>2 DEF Blocks, Leg, Ileg, Convert, Transpose
<1>6. CASE kern \in Convert
  <2>1. BLOCKSIZE - 4 \in Nat \ {0} /\ 2 * (LMAX + 2) \in Nat \ {0}
    BY <1>2, <1>6, LaunchAssumption, SizesAssumption DEF BLOCKSIZE
  <2>2. Ceil(2 * (LMAX + 2), BLOCKSIZE - 4) \in Nat \ {0}
    BY <1>3, <2>1
  <2> QED BY <1>6, <2>2 DEF Blocks, Leg, Ileg, Convert, Transpose
<1>7. CASE kern \in Transpose
  <2>1. TILE_DIM > 0 /\ TILE_DIM \in Nat /\ nlat_2 % TILE_DIM = 0 /\ NPHI % TILE_DIM = 0
    <3>1. Shape[kern].warp \in Nat
      BY <1>1 DEF BlockOK, WARPSZE
    <3>2. Shape[kern].warp \div 2 > 0 /\ job.n % (Shape[kern].warp \div 2) = 0
            /\ NPHI % (Shape[kern].warp \div 2) = 0
      BY <1>1, <1>7, LaunchAssumption DEF LaunchOK
    <3> QED BY <1>1, <3>1, <3>2 DEF TILE_DIM, WARPSZE
  <2>2. NPHI \in Nat \ {0}
    BY SizesAssumption
  <2>3. nlat_2 \div TILE_DIM \in Nat \ {0} /\ NPHI \div TILE_DIM \in Nat \ {0}
    BY <1>2, <2>1, <2>2, Exact
  <2>4. dim0 \div TILE_DIM \in Nat \ {0} /\ dim1 \div TILE_DIM \in Nat \ {0}
    BY <2>3 DEF dim0, dim1
  <2> DEFINE x == dim0 \div TILE_DIM
             y == dim1 \div TILE_DIM
  <2>5. x * y \in Nat \ {0}
    <3> HIDE DEF x, y
    <3>1. x \in Nat \ {0} /\ y \in Nat \ {0}
      BY <2>4 DEF x, y
    <3>2. 1 * y <= x * y
      BY <3>1, Monotone
    <3> QED BY <3>1, <3>2
  <2> QED BY <1>7, <2>5 DEF Blocks, Leg, Ileg, Convert, Transpose
<1> QED BY <1>2, <1>4, <1>5, <1>6, <1>7 DEF Kernels

(* Each warp may start a block. *)
LEMMA StartOK ==
  ASSUME job \in Jobs PROVE WarpOK(job, Registers, "load", 0)
<1>1. LaunchOK(job) /\ m = job.im * MRES /\ AlRow \in Nat
  BY StateFacts, RowFacts
<1>2. /\ DOMAIN Registers = Names /\ Registers.l = m /\ Registers.al = AlRow /\ Registers.f = 0
      /\ Registers.lo = m
  BY DEF Registers, Names
<1>3. m \in 0..LMAX /\ m \in m..(LMAX + 2 + LSPAN) /\ LSPAN \in Nat
  BY <1>1, SizesAssumption DEF LaunchOK
<1>4. job.kern = "leg_m0" => m = 0
  <2>1. job.kern = "leg_m0" => job.im = 0
    BY <1>1 DEF LaunchOK
  <2>2. MRES \in Nat
    BY SizesAssumption
  <2> QED BY <1>1, <2>1, <2>2
<1>5. job.kern = "leg_m0" => M0At(Shape[job.kern].threads, job.llim, Registers.l, Registers.k, Registers.f, "load", 0)
  BY <1>2, <1>4 DEF M0At
<1>6. job.kern = "leg_low" => LowAt(Shape[job.kern].threads, m, job.llim, Registers.l, "load", 0)
  BY <1>2 DEF LowAt
<1>7. job.kern \in Ileg => IlegAt(job, m, Registers.l, Registers.f, "load", 0)
  <2>1. 0 \in 0..(job.fields - 1)
    BY <1>1 DEF LaunchOK
  <2> QED BY <1>2, <2>1 DEF IlegAt
<1>8. Comes(job, 0) /\ HighAt(m, Registers.l, Registers.lo, "load", 0) /\ OnceAt(job, "load", 0) /\ "load" \in Steps
  BY <1>2, <1>3 DEF Comes, HighAt, OnceAt, Steps
<1> QED BY <1>1, <1>2, <1>3, <1>5, <1>6, <1>7, <1>8 DEF WarpOK

(* It holds at the start of a launch. *)
LEMMA InitOK == Init => IInv
<1> SUFFICES ASSUME Init PROVE IInv
  OBVIOUS
<1>1. job \in Jobs /\ blk = 0 /\ pc = [w \in Warps |-> "load"] /\ bar = [w \in Warps |-> 0]
      /\ regs = [w \in Warps |-> Registers] /\ mem = Empty /\ log = [bar |-> 0, r |-> {}, w |-> {}]
  BY DEF Init
<1>2. blk \in 0..(Blocks - 1)
  BY <1>1, BlocksFact
<1>3. \A w \in Warps : WarpOK(job, regs[w], pc[w], bar[w])
  BY <1>1, StartOK
<1>4. pc \in [Warps -> Steps] /\ bar \in [Warps -> Nat] /\ DOMAIN regs = Warps
  BY <1>1 DEF Steps
<1>5. DOMAIN mem = Arrays /\ \A a \in Arrays : DOMAIN mem[a] = Indices(a)
  BY <1>1 DEF Empty
<1>6. AccessInv
  BY <1>1 DEF AccessInv
<1> QED BY <1>1, <1>2, <1>3, <1>4, <1>5, <1>6 DEF IInv

(* The next block starts like the first. *)
LEMMA NextBlockKeeps == IInv /\ NextBlock => IInv'
<1> SUFFICES ASSUME IInv, NextBlock PROVE IInv'
  OBVIOUS
<1>1. job \in Jobs /\ blk \in 0..(Blocks - 1)
  BY DEF IInv
<1>2. /\ job' = job /\ blk < Blocks - 1 /\ blk' = blk + 1
      /\ pc' = [w \in Warps |-> "load"] /\ bar' = [w \in Warps |-> 0]
      /\ regs' = [w \in Warps |-> Registers] /\ mem' = Empty /\ log' = [bar |-> 0, r |-> {}, w |-> {}]
  BY DEF NextBlock
<1>3. Warps' = Warps /\ Blocks' = Blocks /\ \A a : Indices(a)' = Indices(a)
  BY <1>2, Frame
<1>4. Blocks \in Nat
  BY <1>1, BlocksFact
<1>5. blk' \in 0..(Blocks' - 1)
  BY <1>1, <1>2, <1>3, <1>4
<1>6. \A w \in Warps' : WarpOK(job', regs'[w], pc'[w], bar'[w])
  BY <1>1, <1>2, <1>3, StartOK
<1>7. (pc \in [Warps -> Steps])' /\ (bar \in [Warps -> Nat])' /\ (DOMAIN regs = Warps)'
  BY <1>2, <1>3 DEF Steps
<1>8. DOMAIN mem' = Arrays /\ \A a \in Arrays : DOMAIN mem'[a] = Indices(a)'
  BY <1>2, <1>3 DEF Empty
<1>9. AccessInv'
  BY <1>2 DEF AccessInv
<1> QED BY <1>1, <1>2, <1>5, <1>6, <1>7, <1>8, <1>9 DEF IInv

-----------------------------------------------------------------------------
(* What each kernel does with its registers.                               *)

(* What the invariant says of one warp, and of the launch it belongs to. *)
LEMMA WarpFacts ==
  ASSUME IInv, NEW w \in Warps
  PROVE  /\ job \in Jobs /\ bar[w] \in Nat /\ WarpOK(job, regs[w], pc[w], bar[w])
         /\ LaunchOK(job) /\ BlockOK(BLOCKSIZE, WARPSZE)
         /\ kern = job.kern /\ im = job.im /\ m = job.im * MRES /\ llim = job.llim
         /\ LMAX \in Nat /\ LSPAN \in Nat /\ LSPAN >= 4
BY StateFacts, SizesAssumption, LaunchAssumption DEF IInv, WarpOK

(* The registers after a sum. *)
LEMMA SumRegs ==
  ASSUME NEW r, DOMAIN r = Names, NEW A, NEW shift, NEW n, NEW C, NEW s, s = Sum(r, A, shift, n, C)
  PROVE  /\ DOMAIN s = Names /\ s.l = r.l + n /\ s.al = r.al + 2 * n /\ s.k = r.k /\ s.f = r.f
         /\ s.lo = r.lo /\ s.first = r.first /\ s.reo = r.reo
<1> DEFINE y == Ladder(r, A, n)
           Term(f, i, ri) ==
             <<f, ri, i % 2, IF C[f, i, ri] = <<"q", f, y[i + shift], ri>> THEN y[i + shift] ELSE Wrong>>
           new == {Term(f, i, ri) : f \in FieldSet, ri \in 0..(IF im = 0 THEN 0 ELSE 1),
                                    i \in {x \in 0..(n - 1) : r.l + x - (x % 2) >= r.first}}
           t == r.terms \cup new
           e == r.twice \/ new \cap r.terms # {}
<1>1. s = [r EXCEPT !.p = y[n], !.q = y[n + 1], !.l = @ + n, !.al = @ + 2 * n, !.terms = t, !.twice = e]
  BY DEF Sum
<1> HIDE DEF y, t, e
<1> QED BY <1>1 DEF Names

(***************************************************************************)
(* leg_m0_kernel                                                           *)
(***************************************************************************)
M0Block(B) == B \in Nat /\ B % 4 = 0 /\ B > 8

(* A block of the table is as many degrees as there are in shared memory; the first is shorter. *)
LEMMA M0Next ==
  ASSUME NEW B, M0Block(B), NEW i \in Nat
  PROVE  /\ M0L(B, i) \in Nat /\ M0L(B, i) >= 2
         /\ M0L(B, i + 1) = M0L(B, i) + 2 * ((B - (IF i = 0 THEN 5 ELSE 3)) \div 4)
<1> DEFINE a == 2 * ((B - 5) \div 4)
           c == 2 * ((B - 3) \div 4)
<1>1. a \in Nat /\ c \in Nat
  BY DEF M0Block
<1>2. M0L(B, i) = (IF i = 0 THEN 2 ELSE 2 + a + (i - 1) * c) /\ M0L(B, i + 1) = 2 + a + ((i + 1) - 1) * c
  BY DEF M0L
<1> HIDE DEF a, c
<1>3. CASE i = 0
  <2>1. 0 * c = 0 /\ (i + 1) - 1 = 0
    BY <1>1, <1>3
  <2>2. M0L(B, i) = 2 /\ M0L(B, i + 1) = 2 + a
    BY <1>1, <1>2, <1>3, <2>1
  <2> QED BY <1>1, <1>3, <2>2 DEF a
<1>4. CASE i # 0
  <2> DEFINE z == (i - 1) * c
  <2>1. i - 1 \in Nat /\ (i + 1) - 1 = (i - 1) + 1
    BY <1>4
  <2>2. ((i - 1) + 1) * c = z + c /\ z \in Nat
    BY <1>1, <2>1
  <2> HIDE DEF z
  <2>3. M0L(B, i) = 2 + a + z /\ M0L(B, i + 1) = 2 + a + (z + c)
    BY <1>2, <1>4, <2>1, <2>2 DEF z
  <2> QED BY <1>1, <1>4, <2>2, <2>3 DEF c
<1> QED BY <1>3, <1>4

(* A run of leg_m0 reads within shared memory, and comes to the next degree it may be at. *)
LEMMA M0RunMath ==
  ASSUME NEW B, M0Block(B), NEW L \in Nat, NEW b \in Nat, NEW l \in Int, NEW k, NEW f,
         M0At(B, L, l, k, f, "run", b),
         l < L, k + 6 < B,
         NEW n, n = 2 * Least(Pairs(L - l), (B - 6 - k + 3) \div 4),
         NEW l2, l2 = l + n, NEW k2, k2 = k + 2 * n, NEW f2, f2 = f + n
  PROVE  /\ n \in Nat /\ k \in Nat /\ f \in Nat /\ k + 2 * n <= B - 2 /\ 2 * (f + n) <= B
         /\ b % 2 = 1
         /\ l2 < L => M0L(B, (b + 1) \div 2) < L
         /\ l2 <= L + 1
         /\ l2 < L => M0At(B, L, l2, k2, f2, "run", b + 1)
         /\ ~(l2 < L) => M0At(B, L, l2, k2, f2, "run", b)
<1> DEFINE i == b \div 2
<1>1. /\ b % 2 = 1 /\ k = (IF b = 1 THEN 2 ELSE 0) /\ f \in Int /\ 0 <= f
      /\ l = M0L(B, i) /\ k = 2 * f - (IF b = 1 THEN 2 ELSE 0)
  <2>1. b % 2 \in {0, 1}
    BY OddEven
  <2>2. ~(b % 2 = 0 /\ k \in Int /\ k + 6 >= B)
    BY DEF M0Block
  <2> QED BY <2>1, <2>2 DEF M0At, M0Block
<1>2. i \in Nat /\ (i = 0 <=> b = 1) /\ (b + 1) \div 2 = i + 1 /\ (b + 1) % 2 = 0
  BY <1>1, OddEven
<1> HIDE DEF i
<1> DEFINE q == (B - 3 - k) \div 4
<1>3. /\ M0L(B, i) \in Nat /\ M0L(B, i + 1) = M0L(B, i) + 2 * q
  <2>1. M0L(B, i + 1) = M0L(B, i) + 2 * ((B - (IF i = 0 THEN 5 ELSE 3)) \div 4) /\ M0L(B, i) \in Nat
    BY <1>2, M0Next
  <2>2. B - 3 - k = B - (IF i = 0 THEN 5 ELSE 3)
    BY <1>1, <1>2 DEF M0Block
  <2> QED BY <2>1, <2>2
<1>4. q \in Nat /\ 4 * q <= B - 3 - k /\ 4 * q >= B - 6 - k /\ k \in {0, 2}
  BY <1>1 DEF M0Block
<1> DEFINE u == (L - l + 1) \div 2
<1>5. n = 2 * (IF u <= q THEN u ELSE q)
  <2>1. B - 6 - k + 3 = B - 3 - k
    BY <1>4 DEF M0Block
  <2> QED BY <2>1 DEF Least, Pairs
<1>10. u \in Nat /\ 2 * u >= L - l /\ 2 * u <= L - l + 1
  OBVIOUS
<1> HIDE DEF q, u
<1>6. /\ n \in Nat /\ n <= 2 * q /\ l + n <= L + 1
      /\ n = 2 * q \/ (l + n >= L)
  BY <1>4, <1>5, <1>10
<1>7. l2 = l + n /\ l2 \in Int /\ k2 \in Nat /\ f2 \in Nat
  BY <1>1, <1>4, <1>6
<1>8. CASE l2 < L
  <2>1. n = 2 * q /\ l2 = M0L(B, i + 1)
    BY <1>1, <1>3, <1>6, <1>7, <1>8, <1>4
  <2>2. k2 + 6 >= B /\ k2 \in Int
    BY <1>4, <2>1 DEF M0Block
  <2>3. M0At(B, L, l2, k2, f2, "run", b + 1)
    BY <1>2, <1>8, <2>1, <2>2 DEF M0At
  <2>4. k + 2 * n <= B - 2 /\ 2 * (f + n) <= B
    BY <1>1, <1>4, <1>6 DEF M0Block
  <2>5. l2 <= L + 1
    BY <1>6, <1>7
  <2>6. M0L(B, (b + 1) \div 2) < L
    BY <1>2, <1>8, <2>1
  <2> QED BY <1>1, <1>4, <1>6, <1>8, <2>3, <2>4, <2>5, <2>6
<1>9. CASE ~(l2 < L)
  <2>1. l2 >= L /\ l2 <= L + 1
    BY <1>6, <1>7, <1>9
  <2>2. M0L(B, i + 1) >= L
    BY <1>1, <1>3, <1>4, <1>6, <1>7, <2>1
  <2>3. k2 = 2 * f2 - (IF b = 1 THEN 2 ELSE 0) /\ k2 <= B - 3
    BY <1>1, <1>4, <1>6 DEF M0Block
  <2>4. M0At(B, L, l2, k2, f2, "run", b)
    BY <1>1, <1>7, <2>1, <2>2, <2>3 DEF M0At, i
  <2>5. k + 2 * n <= B - 2 /\ 2 * (f + n) <= B
    BY <1>1, <1>4, <1>6 DEF M0Block
  <2> QED BY <1>1, <1>4, <1>6, <1>9, <2>1, <2>4, <2>5
<1> QED BY <1>8, <1>9

(* When the degrees end with an even number of them, the last coefficients are still there. *)
LEMMA M0LastMath ==
  ASSUME NEW B, M0Block(B), NEW L \in Nat, NEW b \in Nat, NEW l \in Nat, NEW k, NEW f,
         M0At(B, L, l, k, f, "run", b), b = 0 \/ b = 1 \/ M0L(B, b \div 2) < L, l >= L
  PROVE  /\ k \in Nat /\ f \in Nat /\ k + 1 <= B - 1 /\ f <= (B \div 2) - 1
         /\ b % 2 = 1 /\ (l <= 3 \/ l <= L + 1)
         /\ M0L(B, (b \div 2) + 1) >= L
         /\ l = L => (l + 1 <= 3 \/ l + 1 <= L + 1)
<1> DEFINE i == b \div 2
<1>1. /\ b % 2 = 1 /\ f \in Nat /\ k = 2 * f - (IF b = 1 THEN 2 ELSE 0) /\ 0 <= k /\ k <= B - 3
      /\ \/ l = M0L(B, i) /\ k = (IF b = 1 THEN 2 ELSE 0)
         \/ l >= L /\ l <= L + 1 /\ M0L(B, i + 1) >= L
  BY OddEven DEF M0At
<1>2. i \in Nat /\ (i = 0 <=> b = 1)
  BY <1>1, OddEven
<1>3. M0L(B, 0) = 2
  BY DEF M0L
<1>4. M0L(B, i + 1) >= M0L(B, i) /\ M0L(B, i) \in Nat /\ M0L(B, i + 1) \in Nat
  <2> DEFINE q == 2 * ((B - (IF i = 0 THEN 5 ELSE 3)) \div 4)
  <2>1. q \in Nat
    BY DEF M0Block
  <2> HIDE DEF q
  <2>2. M0L(B, i + 1) = M0L(B, i) + q /\ M0L(B, i) \in Nat
    BY <1>2, M0Next DEF q
  <2> QED BY <2>1, <2>2
<1>5. k \in Nat /\ k + 1 <= B - 1 /\ f <= (B \div 2) - 1
  BY <1>1 DEF M0Block
<1>6. CASE l = M0L(B, i)
  <2>1. b = 1
    BY <1>1, <1>4, <1>6 DEF i
  <2>2. l = 2
    BY <1>2, <1>3, <1>6, <2>1
  <2>3. M0L(B, i + 1) >= L
    BY <1>4, <1>6
  <2> QED BY <1>1, <1>5, <2>2, <2>3 DEF i
<1>7. CASE l >= L /\ l <= L + 1 /\ M0L(B, i + 1) >= L
  BY <1>1, <1>5, <1>7 DEF i
<1> QED BY <1>1, <1>6, <1>7

(* A refill is between two barriers to which all warps come. *)
LEMMA M0RefillMath ==
  ASSUME NEW B, M0Block(B), NEW L \in Nat, NEW b \in Nat, NEW l \in Nat, NEW k, NEW f,
         M0At(B, L, l, k, f, "run", b), l < L, k + 6 >= B
  PROVE  /\ b % 2 = 0 /\ (b + 1) \div 2 = b \div 2 /\ M0L(B, (b + 1) \div 2) < L
         /\ M0At(B, L, l, 0, 0, "run", b + 1)
<1>1. b % 2 \in {0, 1}
  BY OddEven
<1>2. b % 2 # 1
  <2> SUFFICES ASSUME b % 2 = 1 PROVE FALSE
    OBVIOUS
  <2>1. k = (IF b = 1 THEN 2 ELSE 0)
    BY DEF M0At
  <2>2. k \in {0, 2}
    BY <2>1
  <2> QED BY <2>2 DEF M0Block
<1>3. b > 0 /\ b % 2 = 0 /\ l = M0L(B, b \div 2)
  BY <1>1, <1>2 DEF M0At
<1>4. (b + 1) \div 2 = b \div 2 /\ (b + 1) % 2 = 1 /\ b + 1 # 1
  BY <1>3, OddEven
<1>6. M0At(B, L, l, 0, 0, "run", b + 1)
  <2> DEFINE c == b + 1
             z == 0
  <2>1. c % 2 = 1 /\ c # 1 /\ l = M0L(B, c \div 2)
    BY <1>3, <1>4
  <2> HIDE DEF c
  <2>2. z \in Nat /\ 0 <= z /\ z <= B - 3 /\ z = 2 * z - 0
    BY DEF M0Block
  <2> HIDE DEF z
  <2>4. z = 0 /\ (IF c = 1 THEN 2 ELSE 0) = 0
    BY <2>1 DEF z
  <2>3. M0At(B, L, l, z, z, "run", c)
    BY <2>1, <2>2, <2>4 DEF M0At
  <2> QED BY <2>3 DEF c, z
<1> QED BY <1>3, <1>4, <1>6

(* Which arrays there are, for each kernel. *)
LEMMA Sizes ==
  ASSUME NEW a
  PROVE  /\ kern = "leg_m0" => Indices("ak") = 0..(BLOCKSIZE - 1) /\ Indices("qk") = 0..((BLOCKSIZE \div 2) - 1)
         /\ kern \in {"leg_low", "leg_high"} =>
              Indices("ak") = 0..(BLOCKSIZE - 1) /\ Indices("qk") = 0..(job.fields * BLOCKSIZE - 1)
         /\ kern \in Ileg => Indices("ak") = 0..(2 * LSPAN + 1) /\ Indices("yl") = 0..(LSPAN * BLOCKSIZE - 1)
         /\ kern = "ileg_high" => Indices("reo") = 0..(4 * BLOCKSIZE - 1)
         /\ kern \in Convert /\ a \in {"M", "sl", "tl"} => Indices(a) = 0..(BLOCKSIZE - 1)
         /\ kern \in Transpose => Indices("tile") = 0..((WARPSZE \div 2) * (WARPSZE \div 2) - 1)
<1>1. LSPAN \in Nat
  BY SizesAssumption
<1>2. (2 * LSPAN + 2) - 1 = 2 * LSPAN + 1
  BY <1>1
<1>3. kern = "leg_m0" => Size("ak") = BLOCKSIZE /\ Size("qk") = BLOCKSIZE \div 2
  BY DEF Size, Leg, Ileg
<1>4. kern \in {"leg_low", "leg_high"} => Size("ak") = BLOCKSIZE /\ Size("qk") = job.fields * BLOCKSIZE
  BY DEF Size, Leg, Ileg
<1>5. kern \in Ileg => Size("ak") = 2 * LSPAN + 2 /\ Size("yl") = LSPAN * BLOCKSIZE
  BY DEF Size, Leg, Ileg, AkSize
<1>6. kern = "ileg_high" => Size("reo") = 4 * BLOCKSIZE
  BY DEF Size
<1>7. kern \in Convert /\ a \in {"M", "sl", "tl"} => Size(a) = BLOCKSIZE
  BY DEF Size
<1>8. kern \in Transpose => Size("tile") = (WARPSZE \div 2) * (WARPSZE \div 2)
  BY DEF Size
<1> QED BY <1>2, <1>3, <1>4, <1>5, <1>6, <1>7, <1>8 DEF Indices

(* The kernels that write before each even barrier and read before each odd one. *)
Alternating == {"leg_m0", "leg_low"} \cup Convert

(* What a warp of these kernels may write, after an even number of barriers. *)
LEMMA EvenWrite ==
  ASSUME NEW J, J.kern \in Alternating, NEW b, b % 2 = 0, NEW w, NEW a \in Arrays, NEW i,
         (i % Shape[J.kern].threads) \div Shape[J.kern].warp = w
  PROVE  MayWrite(J, b, w, <<a, i>>)
BY DEF MayWrite, WrittenIn, Owner, Alternating, Convert, Ileg, Transpose

(* It may read everything, after an odd number. *)
LEMMA OddRead ==
  ASSUME NEW J, J.kern \in Alternating, NEW b, b % 2 = 1, NEW w, NEW c
  PROVE  MayRead(J, b, w, c)
BY DEF MayRead, WrittenIn, Alternating, Convert, Ileg

(* Putting together what is to be known of a warp of leg_m0. *)
LEMMA M0WarpOK ==
  ASSUME job \in Jobs, kern = "leg_m0", NEW r, DOMAIN r = Names, NEW p \in Steps, NEW b \in Nat,
         r.l \in 0..(LMAX + 2 + LSPAN), r.al \in Nat, b = 0 \/ b = 1 \/ M0L(BLOCKSIZE, b \div 2) < llim,
         M0At(BLOCKSIZE, llim, r.l, r.k, r.f, p, b)
  PROVE  WarpOK(job, r, p, b)
<1>1. kern = job.kern /\ llim = job.llim /\ job.im = 0
  BY StateFacts DEF LaunchOK
<1>2. job.im * MRES = 0
  BY <1>1, SizesAssumption
<1>3. Comes(job, b)
  BY <1>1 DEF Comes, BLOCKSIZE
<1> QED BY <1>1, <1>2, <1>3 DEF WarpOK, BLOCKSIZE, Ileg, Convert, Transpose

(* What the invariant says of a warp of leg_m0. *)
LEMMA M0Have ==
  ASSUME IInv, NEW w \in Warps, kern = "leg_m0"
  PROVE  /\ M0Block(BLOCKSIZE) /\ llim \in Nat /\ llim <= LMAX + 1 /\ LMAX \in Nat /\ LSPAN \in Nat /\ m = 0
         /\ DOMAIN regs[w] = Names /\ bar[w] \in Nat /\ job \in Jobs
         /\ regs[w].l \in 0..(LMAX + 2 + LSPAN) /\ regs[w].al \in Nat
         /\ bar[w] = 0 \/ bar[w] = 1 \/ M0L(BLOCKSIZE, bar[w] \div 2) < llim
         /\ M0At(BLOCKSIZE, llim, regs[w].l, regs[w].k, regs[w].f, pc[w], bar[w])
         /\ \A j \in Lanes(w) : j \in 0..(BLOCKSIZE - 1) /\ j \div WARPSZE = w /\ j % BLOCKSIZE = j
         /\ job.kern \in Alternating /\ BLOCKSIZE = Shape[job.kern].threads /\ WARPSZE = Shape[job.kern].warp
         /\ Indices("ak") = 0..(BLOCKSIZE - 1) /\ Indices("qk") = 0..((BLOCKSIZE \div 2) - 1)
<1>1. /\ job \in Jobs /\ bar[w] \in Nat /\ WarpOK(job, regs[w], pc[w], bar[w])
      /\ LaunchOK(job) /\ BlockOK(BLOCKSIZE, WARPSZE)
      /\ kern = job.kern /\ m = job.im * MRES /\ llim = job.llim
      /\ LMAX \in Nat /\ LSPAN \in Nat
  BY WarpFacts
<1>2. BLOCKSIZE = Shape[job.kern].threads /\ WARPSZE = Shape[job.kern].warp
  BY <1>1 DEF BLOCKSIZE, WARPSZE
<1>3. M0Block(BLOCKSIZE)
  BY <1>1, <1>2, LaunchAssumption DEF M0Block, BlockOK
<1>4. m = 0
  BY <1>1, SizesAssumption DEF LaunchOK
<1>5. llim \in Nat /\ llim <= LMAX + 1
  BY <1>1 DEF LaunchOK
<1>6. /\ DOMAIN regs[w] = Names /\ regs[w].l \in 0..(LMAX + 2 + LSPAN) /\ regs[w].al \in Nat
      /\ M0At(BLOCKSIZE, llim, regs[w].l, regs[w].k, regs[w].f, pc[w], bar[w])
      /\ Comes(job, bar[w])
  BY <1>1, <1>2, <1>4 DEF WarpOK
<1>7. bar[w] = 0 \/ bar[w] = 1 \/ M0L(BLOCKSIZE, bar[w] \div 2) < llim
  BY <1>1, <1>2, <1>6 DEF Comes, Ileg, Convert, Transpose
<1>8. \A j \in Lanes(w) : j \in 0..(BLOCKSIZE - 1) /\ j \div WARPSZE = w /\ j % BLOCKSIZE = j
  BY <1>1, StateFacts
<1>9. Indices("ak") = 0..(BLOCKSIZE - 1) /\ Indices("qk") = 0..((BLOCKSIZE \div 2) - 1)
  BY Sizes
<1> QED BY <1>1, <1>2, <1>3, <1>4, <1>5, <1>6, <1>7, <1>8, <1>9 DEF Alternating

(* The steps of leg_m0 keep the invariant. *)
LEMMA M0Keeps ==
  ASSUME IInv, NEW w \in Warps, M0Load(w) \/ M0Start(w) \/ M0Run(w) \/ M0Refill(w) \/ M0Last(w)
  PROVE  IInv'
<1> DEFINE B == BLOCKSIZE
           b == bar[w]
<1>1. kern = "leg_m0"
  BY DEF M0Load, M0Start, M0Run, M0Refill, M0Last
<1>2. /\ M0Block(BLOCKSIZE) /\ llim \in Nat /\ llim <= LMAX + 1 /\ LMAX \in Nat /\ LSPAN \in Nat /\ m = 0
      /\ DOMAIN regs[w] = Names /\ bar[w] \in Nat /\ job \in Jobs
      /\ regs[w].l \in 0..(LMAX + 2 + LSPAN) /\ regs[w].al \in Nat
      /\ bar[w] = 0 \/ bar[w] = 1 \/ M0L(BLOCKSIZE, bar[w] \div 2) < llim
      /\ M0At(BLOCKSIZE, llim, regs[w].l, regs[w].k, regs[w].f, pc[w], bar[w])
  BY <1>1, M0Have
<1>3. /\ \A j \in Lanes(w) : j \in 0..(B - 1) /\ j \div WARPSZE = w /\ j % B = j
      /\ job.kern \in Alternating /\ B = Shape[job.kern].threads /\ WARPSZE = Shape[job.kern].warp
      /\ Indices("ak") = 0..(B - 1) /\ Indices("qk") = 0..((B \div 2) - 1) /\ B \div 2 \in Int
  BY <1>1, M0Have DEF M0Block
<1>4. {"load", "start", "run", "store"} \subseteq Steps /\ {"ak", "qk"} \subseteq Arrays
  BY DEF Steps, Arrays
\* What is put and read.
<1>5. ASSUME b % 2 = 0, NEW f, NEW g, DOMAIN f \subseteq Lanes(w),
             DOMAIN g \subseteq {x \in Lanes(w) : x < B \div 2}
      PROVE  PutsOK(w, [ak |-> f, qk |-> g])
  <2> DEFINE puts == [ak |-> f, qk |-> g]
  <2>1. DOMAIN puts = {"ak", "qk"} /\ puts["ak"] = f /\ puts["qk"] = g
    OBVIOUS
  <2>2. \A j \in Lanes(w) : (j % Shape[job.kern].threads) \div Shape[job.kern].warp = w
    BY <1>3
  <2>3. \A a \in {"ak", "qk"} : \A i \in Lanes(w) : MayWrite(job, b, w, <<a, i>>)
    BY <1>3, <1>4, <1>5, <2>2, EvenWrite
  <2>4. \A i \in DOMAIN f : Inside(<<"ak", i>>)
    BY <1>3, <1>5 DEF Inside
  <2>5. \A i \in DOMAIN g : Inside(<<"qk", i>>)
    BY <1>3, <1>5 DEF Inside
  <2> HIDE DEF puts
  <2> QED BY <1>5, <2>1, <2>3, <2>4, <2>5 DEF PutsOK
<1>6. PutsOK(w, Nothing)
  BY DEF PutsOK, Nothing
<1>7. ReadsOK(w, {})
  BY DEF ReadsOK
<1>8. ASSUME b % 2 = 1, NEW k, NEW f, k \subseteq 0..(B - 1), f \subseteq 0..((B \div 2) - 1)
      PROVE  ReadsOK(w, Cells("ak", k) \cup Cells("qk", f))
  <2>1. \A c : MayRead(job, b, w, c)
    BY <1>3, <1>8, OddRead
  <2>2. (\A i \in k : Inside(<<"ak", i>>)) /\ (\A i \in f : Inside(<<"qk", i>>))
    BY <1>3, <1>8 DEF Inside
  <2>3. \A c \in Cells("ak", k) \cup Cells("qk", f) : Inside(c)
    BY <2>2 DEF Cells
  <2> QED BY <2>1, <2>3 DEF ReadsOK
<1>9. \A J : DOMAIN M0Q(J, Lanes(w)) = {x \in Lanes(w) : x <= llim /\ x < B \div 2}
  BY DEF M0Q
<1>10. CASE M0Load(w)
  <2> DEFINE puts == [ak |-> [j \in Lanes(w) |-> Al(j)], qk |-> M0Q(0, Lanes(w))]
  <2>1. pc[w] = "load" /\ Step(w, regs[w], puts, {}, TRUE, "start")
    BY <1>10 DEF M0Load
  <2>2. b = 0 /\ regs[w].l = 0
    BY <1>2, <2>1 DEF M0At
  <2>3. PutsOK(w, puts)
    <3> DEFINE f == [j \in Lanes(w) |-> Al(j)]
               g == M0Q(0, Lanes(w))
    <3>1. DOMAIN f = Lanes(w) /\ DOMAIN g = {x \in Lanes(w) : x <= llim /\ x < B \div 2}
      BY <1>9
    <3> HIDE DEF f, g, B
    <3>2. PutsOK(w, [ak |-> f, qk |-> g])
      BY <1>5, <2>2, <3>1
    <3> QED BY <3>2 DEF f, g
  <2>4. M0At(B, llim, regs[w].l, regs[w].k, regs[w].f, "start", 1)
    BY <2>2 DEF M0At
  <2>5. WarpOK(job, regs[w], "start", 1)
    BY <1>1, <1>2, <1>4, <2>4, M0WarpOK
  <2>6. After(bar[w], TRUE) = 1
    BY <2>2 DEF After
  <2> HIDE DEF puts
  <2> QED BY <1>7, <2>1, <2>3, <2>5, <2>6, StepKeeps
<1>11. CASE M0Start(w)
  <2> DEFINE y0 == First(Read("ak", 0))
             A == [i \in 0..3 |-> Unset]
             q == IF Read("ak", 1) = Al(AlmPair(0, 1) + 1) /\ y0 = 0 THEN 1 ELSE Wrong
             start == [regs[w] EXCEPT !.p = y0, !.q = q]
             r == Sum(start, A, 0, 2, M0C(0, 2))
             new == [r EXCEPT !.p = y0, !.q = q, !.al = 2, !.k = 2, !.f = 2]
             reads == Cells("ak", 0..1) \cup Cells("qk", 0..1)
  <2>1. pc[w] = "start" /\ Step(w, new, Nothing, reads, FALSE, "run")
    BY <1>11 DEF M0Start
  <2>2. b = 1 /\ regs[w].l = 0
    BY <1>2, <2>1 DEF M0At
  <2>3. DOMAIN start = Names /\ start.l = 0
    BY <1>2, <2>2 DEF Names
  <2> HIDE DEF start, A
  <2>4. DOMAIN r = Names /\ r.l = 0 + 2
    BY <2>3, SumRegs
  <2> HIDE DEF r, y0, q
  <2>5. DOMAIN new = Names /\ new.l = 2 /\ new.al = 2 /\ new.k = 2 /\ new.f = 2
    BY <2>4 DEF Names
  <2> HIDE DEF new
  <2>6. M0At(B, llim, 2, 2, 2, "run", 1)
    <3>1. M0L(B, 0) = 2
      BY DEF M0L
    <3> QED BY <1>2, <3>1 DEF M0At, M0Block
  <2>7. WarpOK(job, new, "run", 1)
    BY <1>1, <1>2, <1>4, <2>5, <2>6, M0WarpOK
  <2>8. ReadsOK(w, reads)
    <3>1. 0..1 \subseteq 0..(B - 1) /\ 0..1 \subseteq 0..((B \div 2) - 1)
      BY <1>2 DEF M0Block
    <3> QED BY <1>8, <2>2, <3>1
  <2>9. After(bar[w], FALSE) = 1
    BY <2>2 DEF After
  <2> HIDE DEF reads
  <2> QED BY <1>6, <2>1, <2>7, <2>8, <2>9, StepKeeps
<1>12. CASE M0Run(w)
  <2> DEFINE r == regs[w]
             n == 2 * Least(Pairs(llim - r.l), (B - 6 - r.k + 3) \div 4)
             s == Sum(r, PairsAt(r.k, n), 2, n, M0C(r.f, n))
             new == [s EXCEPT !.k = @ + 2 * n, !.f = @ + n]
             reads == ReadsK(r, n) \cup Cells("qk", r.f..(r.f + n - 1))
  <2>1. /\ pc[w] = "run" /\ r.l < llim /\ r.k + 6 < B
        /\ Step(w, new, Nothing, reads, s.l < llim, "run")
    BY <1>12 DEF M0Run
  <2> HIDE DEF n
  <2>2. DOMAIN s = Names /\ s.l = r.l + n /\ s.al = r.al + 2 * n /\ s.k = r.k /\ s.f = r.f
    BY <1>2, SumRegs
  <2> HIDE DEF s
  <2>3. DOMAIN new = Names /\ new.l = s.l /\ new.al = s.al /\ new.k = s.k + 2 * n /\ new.f = s.f + n
    BY <2>2 DEF Names
  <2> HIDE DEF new
  <2>4. /\ n \in Nat /\ r.k \in Nat /\ r.f \in Nat /\ r.k + 2 * n <= B - 2 /\ 2 * (r.f + n) <= B
        /\ b % 2 = 1
        /\ new.l < llim => M0L(B, (b + 1) \div 2) < llim
        /\ new.l <= llim + 1
        /\ new.l < llim => M0At(B, llim, new.l, new.k, new.f, "run", b + 1)
        /\ ~(new.l < llim) => M0At(B, llim, new.l, new.k, new.f, "run", b)
    <3> DEFINE l == r.l
               k == r.k
               f == r.f
               l2 == new.l
               k2 == new.k
               f2 == new.f
    <3>1. l \in Int /\ l2 = l + n /\ k2 = k + 2 * n /\ f2 = f + n /\ b \in Nat /\ llim \in Nat /\ M0Block(B)
      BY <1>2, <2>2, <2>3
    <3>2. pc[w] = "run" /\ l < llim /\ k + 6 < B
      BY <2>1
    <3>3. M0At(B, llim, l, k, f, "run", b)
      BY <1>2, <3>2
    <3>4. n = 2 * Least(Pairs(llim - l), (B - 6 - k + 3) \div 4)
      BY DEF n
    <3> HIDE DEF l, k, f, l2, k2, f2, b, B
    <3>5. /\ n \in Nat /\ k \in Nat /\ f \in Nat /\ k + 2 * n <= B - 2 /\ 2 * (f + n) <= B
          /\ b % 2 = 1
          /\ l2 < llim => M0L(B, (b + 1) \div 2) < llim
          /\ l2 <= llim + 1
          /\ l2 < llim => M0At(B, llim, l2, k2, f2, "run", b + 1)
          /\ ~(l2 < llim) => M0At(B, llim, l2, k2, f2, "run", b)
      BY <3>1, <3>2, <3>3, <3>4, M0RunMath
    <3> QED BY <3>5 DEF l, k, f, l2, k2, f2
  <2>5. new.l \in 0..(LMAX + 2 + LSPAN) /\ new.al \in Nat
    <3> DEFINE l == r.l
               a == r.al
               l2 == new.l
               a2 == new.al
    <3>1. /\ l \in Nat /\ a \in Nat /\ l2 = l + n /\ a2 = a + 2 * n /\ n \in Nat /\ l2 <= llim + 1
          /\ llim <= LMAX + 1 /\ LMAX \in Nat /\ LSPAN \in Nat /\ llim \in Nat
      BY <1>2, <2>2, <2>3, <2>4
    <3> HIDE DEF l, a, l2, a2
    <3>2. l2 \in 0..(LMAX + 2 + LSPAN) /\ a2 \in Nat
      BY <3>1
    <3> QED BY <3>2 DEF l2, a2
  <2>6. ReadsOK(w, reads)
    <3>1. r.k..(r.k + 2 * n - 1) \subseteq 0..(B - 1) /\ r.f..(r.f + n - 1) \subseteq 0..((B \div 2) - 1)
      <4>1. B \in Nat /\ B \div 2 \in Nat /\ B <= 2 * (B \div 2) + 1
        BY <1>2 DEF M0Block
      <4>2. r.f + n <= B \div 2
        BY <2>4, <4>1
      <4> HIDE DEF r, b, B
      <4> QED BY <2>4, <4>1, <4>2
    <3> DEFINE K == r.k..(r.k + 2 * n - 1)
               F == r.f..(r.f + n - 1)
    <3>2. K \subseteq 0..(B - 1) /\ F \subseteq 0..((B \div 2) - 1) /\ reads = Cells("ak", K) \cup Cells("qk", F)
      BY <3>1 DEF ReadsK
    <3>3. b % 2 = 1
      BY <2>4
    <3> HIDE DEF K, F, reads, B, b
    <3> QED BY <1>8, <3>2, <3>3
  <2>7. CASE s.l < llim
    <3>1. After(bar[w], TRUE) = b + 1
      BY DEF After
    <3>2. WarpOK(job, new, "run", b + 1)
      <4>1. M0At(B, llim, new.l, new.k, new.f, "run", b + 1) /\ M0L(B, (b + 1) \div 2) < llim /\ b + 1 \in Nat
        <5>1. new.l < llim /\ b + 1 \in Nat
          BY <1>2, <2>3, <2>7
        <5> QED BY <2>4, <5>1
      <4> QED BY <1>1, <1>2, <1>4, <2>3, <2>5, <4>1, M0WarpOK
    <3>3. Step(w, new, Nothing, reads, TRUE, "run")
      <4>1. (s.l < llim) = TRUE
        BY <2>7
      <4> QED BY <2>1, <4>1
    <3> HIDE DEF reads
    <3> QED BY <1>6, <2>6, <3>1, <3>2, <3>3, StepKeeps
  <2>8. CASE ~(s.l < llim)
    <3>1. After(bar[w], FALSE) = b
      BY DEF After
    <3>2. WarpOK(job, new, "run", b)
      <4>1. M0At(B, llim, new.l, new.k, new.f, "run", b)
        <5>1. ~(new.l < llim)
          BY <2>3, <2>8
        <5> QED BY <2>4, <5>1
      <4> QED BY <1>1, <1>2, <1>4, <2>3, <2>5, <4>1, M0WarpOK
    <3>3. Step(w, new, Nothing, reads, FALSE, "run")
      <4>1. (s.l < llim) = FALSE
        BY <2>8
      <4> QED BY <2>1, <4>1
    <3> HIDE DEF reads
    <3> QED BY <1>6, <2>6, <3>1, <3>2, <3>3, StepKeeps
  <2> QED BY <2>7, <2>8
<1>13. CASE M0Refill(w)
  <2> DEFINE r == regs[w]
             new == [r EXCEPT !.k = 0, !.f = 0]
             puts == [ak |-> [j \in Lanes(w) |-> Al(r.al + j)], qk |-> M0Q(r.l, Lanes(w))]
  <2>1. pc[w] = "run" /\ r.l < llim /\ r.k + 6 >= B /\ Step(w, new, puts, {}, TRUE, "run")
    BY <1>13 DEF M0Refill
  <2>2. DOMAIN new = Names /\ new.l = r.l /\ new.al = r.al /\ new.k = 0 /\ new.f = 0
    BY <1>2 DEF Names
  <2>3. /\ b % 2 = 0 /\ M0L(B, (b + 1) \div 2) < llim
        /\ M0At(B, llim, r.l, 0, 0, "run", b + 1)
    <3> DEFINE l == r.l
               k == r.k
               f == r.f
    <3>1. M0At(B, llim, l, k, f, "run", b) /\ l \in Nat /\ l < llim /\ k + 6 >= B /\ b \in Nat
      BY <1>2, <2>1
    <3> HIDE DEF l, k, f, b, B
    <3>2. /\ b % 2 = 0 /\ M0L(B, (b + 1) \div 2) < llim
          /\ M0At(B, llim, l, 0, 0, "run", b + 1)
      BY <1>2, <3>1, M0RefillMath DEF B
    <3> QED BY <3>2 DEF l
  <2>4. PutsOK(w, puts)
    <3> DEFINE f == [j \in Lanes(w) |-> Al(r.al + j)]
               g == M0Q(r.l, Lanes(w))
    <3>1. DOMAIN f = Lanes(w) /\ DOMAIN g = {x \in Lanes(w) : x <= llim /\ x < B \div 2}
      BY <1>9
    <3> HIDE DEF f, g, B
    <3>2. PutsOK(w, [ak |-> f, qk |-> g])
      BY <1>5, <2>3, <3>1
    <3> QED BY <3>2 DEF f, g
  <2>7. WarpOK(job, new, "run", b + 1)
    <3>1. M0At(B, llim, new.l, new.k, new.f, "run", b + 1) /\ b + 1 \in Nat
      BY <1>2, <2>2, <2>3
    <3> HIDE DEF new
    <3> QED BY <1>1, <1>2, <1>4, <2>2, <2>3, <3>1, M0WarpOK
  <2>8. After(bar[w], TRUE) = b + 1
    BY DEF After
  <2> HIDE DEF puts, new
  <2> QED BY <1>7, <2>1, <2>4, <2>7, <2>8, StepKeeps
<1>14. CASE M0Last(w)
  <2> DEFINE r == regs[w]
             s == Sum(r, PairsAt(r.k, 1), 2, 1, M0C(r.f, 1))
             reads == ReadsK(r, 1) \cup Cells("qk", {r.f})
  <2>1. /\ pc[w] = "run" /\ r.l >= llim
        /\ IF r.l = llim THEN Step(w, s, Nothing, reads, FALSE, "store")
           ELSE Step(w, r, Nothing, {}, FALSE, "store")
    BY <1>14 DEF M0Last
  <2>2. /\ r.k \in Nat /\ r.f \in Nat /\ r.k + 1 <= B - 1 /\ r.f <= (B \div 2) - 1
        /\ b % 2 = 1 /\ (r.l <= 3 \/ r.l <= llim + 1)
        /\ M0L(B, (b \div 2) + 1) >= llim
        /\ r.l = llim => (r.l + 1 <= 3 \/ r.l + 1 <= llim + 1)
    <3> DEFINE l == r.l
               k == r.k
               f == r.f
    <3>1. /\ M0At(B, llim, l, k, f, "run", b) /\ l \in Nat /\ l >= llim /\ b \in Nat
          /\ b = 0 \/ b = 1 \/ M0L(B, b \div 2) < llim
      BY <1>2, <2>1
    <3> HIDE DEF l, k, f, b
    <3>2. /\ k \in Nat /\ f \in Nat /\ k + 1 <= B - 1 /\ f <= (B \div 2) - 1
          /\ b % 2 = 1 /\ (l <= 3 \/ l <= llim + 1)
          /\ M0L(B, (b \div 2) + 1) >= llim
          /\ l = llim => (l + 1 <= 3 \/ l + 1 <= llim + 1)
      BY <1>2, <3>1, M0LastMath
    <3> QED BY <3>2 DEF l, k, f
  <2>3. After(bar[w], FALSE) = b
    BY DEF After
  <2>4. ASSUME NEW x, DOMAIN x = Names, x.al \in Nat, x.l \in Nat, x.l <= 3 \/ x.l <= llim + 1
        PROVE  WarpOK(job, x, "store", b)
    <3>1. M0At(B, llim, x.l, x.k, x.f, "store", b)
      BY <2>2, <2>4 DEF M0At
    <3>2. x.l \in 0..(LMAX + 2 + LSPAN)
      <4>1. LSPAN >= 4
        BY LaunchAssumption
      <4> QED BY <1>2, <2>4, <4>1
    <3> QED BY <1>1, <1>2, <1>4, <2>4, <3>1, <3>2, M0WarpOK
  <2>5. CASE r.l = llim
    <3>1. Step(w, s, Nothing, reads, FALSE, "store")
      BY <2>1, <2>5
    <3>2. DOMAIN s = Names /\ s.l = r.l + 1 /\ s.al = r.al + 2 * 1
      BY <1>2, SumRegs
    <3> HIDE DEF s
    <3>3. WarpOK(job, s, "store", b)
      <4>1. s.l \in Nat /\ s.al \in Nat /\ (s.l <= 3 \/ s.l <= llim + 1)
        BY <1>2, <2>2, <2>5, <3>2
      <4> QED BY <2>4, <3>2, <4>1
    <3>4. ReadsOK(w, reads)
      <4>1. r.k..(r.k + 2 * 1 - 1) \subseteq 0..(B - 1) /\ {r.f} \subseteq 0..((B \div 2) - 1)
        BY <1>2, <2>2 DEF M0Block
      <4> HIDE DEF r
      <4> QED BY <1>8, <2>2, <4>1 DEF ReadsK
    <3> HIDE DEF reads
    <3> QED BY <1>6, <2>3, <3>1, <3>3, <3>4, StepKeeps
  <2>6. CASE r.l # llim
    <3>1. Step(w, r, Nothing, {}, FALSE, "store")
      BY <2>1, <2>6
    <3>2. WarpOK(job, r, "store", b)
      BY <1>2, <2>2, <2>4
    <3> QED BY <1>6, <1>7, <2>3, <3>1, <3>2, StepKeeps
  <2> QED BY <2>5, <2>6
<1> QED BY <1>10, <1>11, <1>12, <1>13, <1>14

(***************************************************************************)
(* leg_m_lowllim_kernel                                                    *)
(***************************************************************************)
LowComes(b) == b = 0 \/ b = 1 \/ LowL(BLOCKSIZE, m, (b \div 2) - 1) <= llim - (BLOCKSIZE \div 2)

(* Putting together what is to be known of a warp of leg_m_lowllim. *)
LEMMA LowWarpOK ==
  ASSUME job \in Jobs, kern = "leg_low", NEW r, DOMAIN r = Names, NEW p \in Steps, NEW b \in Nat,
         r.l \in m..(LMAX + 2 + LSPAN), r.al \in Nat, LowComes(b), LowAt(BLOCKSIZE, m, llim, r.l, p, b)
  PROVE  WarpOK(job, r, p, b)
<1>1. kern = job.kern /\ llim = job.llim /\ m = job.im * MRES
  BY StateFacts
<1>2. Comes(job, b)
  BY <1>1 DEF Comes, LowComes, BLOCKSIZE
<1> QED BY <1>1, <1>2 DEF WarpOK, BLOCKSIZE, Ileg, Convert, Transpose

(* What the invariant says of a warp of leg_m_lowllim. *)
LEMMA LowHave ==
  ASSUME IInv, NEW w \in Warps, kern = "leg_low"
  PROVE  /\ M0Block(BLOCKSIZE) /\ llim \in Nat /\ llim <= LMAX + 1 /\ LMAX \in Nat /\ LSPAN \in Nat
         /\ m \in Nat /\ m <= llim /\ AlRow \in Nat
         /\ DOMAIN regs[w] = Names /\ bar[w] \in Nat /\ job \in Jobs
         /\ regs[w].l \in m..(LMAX + 2 + LSPAN) /\ regs[w].al \in Nat
         /\ LowComes(bar[w])
         /\ LowAt(BLOCKSIZE, m, llim, regs[w].l, pc[w], bar[w])
         /\ \A j \in Lanes(w) : j \in 0..(BLOCKSIZE - 1) /\ j \div WARPSZE = w /\ j % BLOCKSIZE = j
         /\ job.kern \in Alternating /\ BLOCKSIZE = Shape[job.kern].threads /\ WARPSZE = Shape[job.kern].warp
         /\ Indices("ak") = 0..(BLOCKSIZE - 1) /\ Indices("qk") = 0..(job.fields * BLOCKSIZE - 1)
         /\ job.fields \in 1..2 /\ FieldSet = 0..(job.fields - 1)
<1>1. /\ job \in Jobs /\ bar[w] \in Nat /\ WarpOK(job, regs[w], pc[w], bar[w])
      /\ LaunchOK(job) /\ BlockOK(BLOCKSIZE, WARPSZE)
      /\ kern = job.kern /\ m = job.im * MRES /\ llim = job.llim
      /\ LMAX \in Nat /\ LSPAN \in Nat
  BY WarpFacts
<1>2. BLOCKSIZE = Shape[job.kern].threads /\ WARPSZE = Shape[job.kern].warp
  BY <1>1 DEF BLOCKSIZE, WARPSZE
<1>3. M0Block(BLOCKSIZE)
  BY <1>1, <1>2, LaunchAssumption DEF M0Block, BlockOK
<1>4. m \in Nat /\ m <= llim /\ llim \in Nat /\ llim <= LMAX + 1 /\ job.fields \in 1..2
  BY <1>1 DEF LaunchOK
<1>5. AlRow \in Nat
  BY <1>1, RowFacts
<1>6. /\ DOMAIN regs[w] = Names /\ regs[w].l \in m..(LMAX + 2 + LSPAN) /\ regs[w].al \in Nat
      /\ LowAt(BLOCKSIZE, m, llim, regs[w].l, pc[w], bar[w])
      /\ Comes(job, bar[w])
  BY <1>1, <1>2 DEF WarpOK
<1>7. LowComes(bar[w])
  BY <1>1, <1>2, <1>6 DEF Comes, LowComes, Ileg, Convert, Transpose
<1>8. \A j \in Lanes(w) : j \in 0..(BLOCKSIZE - 1) /\ j \div WARPSZE = w /\ j % BLOCKSIZE = j
  BY <1>1, StateFacts
<1>9. Indices("ak") = 0..(BLOCKSIZE - 1) /\ Indices("qk") = 0..(job.fields * BLOCKSIZE - 1)
  BY Sizes
<1> QED BY <1>1, <1>2, <1>3, <1>4, <1>5, <1>6, <1>7, <1>8, <1>9 DEF Alternating, FieldSet

(* Every pass of leg_m_lowllim is of BLOCKSIZE/2 degrees. *)
LEMMA LowNext ==
  ASSUME NEW B, M0Block(B), NEW M \in Nat, NEW i \in Nat
  PROVE  LowL(B, M, i + 1) = LowL(B, M, i) + (B \div 2) /\ LowL(B, M, i) \in Nat /\ LowL(B, M, 0) = M
<1> DEFINE h == B \div 2
           z == i * h
<1>1. h \in Nat
  BY DEF M0Block
<1> HIDE DEF h
<1>2. (i + 1) * h = z + h /\ z \in Nat /\ 0 * h = 0
  BY <1>1
<1>3. LowL(B, M, i + 1) = M + (i + 1) * h /\ LowL(B, M, i) = M + z /\ LowL(B, M, 0) = M + 0 * h
  BY DEF LowL, h
<1> HIDE DEF z
<1>4. LowL(B, M, i + 1) = LowL(B, M, i) + h /\ LowL(B, M, i) \in Nat /\ LowL(B, M, 0) = M
  BY <1>1, <1>2, <1>3
<1> QED BY <1>4 DEF h

(* A pass and the refill after it. *)
LEMMA LowPassMath ==
  ASSUME NEW B, M0Block(B), NEW M \in Nat, NEW L \in Nat, NEW b \in Nat, NEW l \in Nat,
         LowAt(B, M, L, l, "run", b), l <= L - (B \div 2)
  PROVE  /\ LowL(B, M, ((b + 1) \div 2) - 1) <= L - (B \div 2)
         /\ LowAt(B, M, L, l + (B \div 2), "refill", b + 1)
         /\ b % 2 = 1
<1> DEFINE i == b \div 2
<1>1. b % 2 = 1 /\ l = LowL(B, M, i)
  BY DEF LowAt
<1>2. i \in Nat /\ (b + 1) % 2 = 0 /\ (b + 1) \div 2 = i + 1 /\ b + 1 > 0
  BY <1>1, OddEven
<1> HIDE DEF i
<1>3. LowL(B, M, i + 1) = l + (B \div 2)
  BY <1>1, <1>2, LowNext
<1>4. (i + 1) - 1 = i
  BY <1>2
<1>5. LowL(B, M, ((b + 1) \div 2) - 1) <= L - (B \div 2)
  BY <1>1, <1>2, <1>4
<1> DEFINE c == b + 1
           h == B \div 2
           l2 == l + h
<1>6. c > 0 /\ c % 2 = 0 /\ l2 = LowL(B, M, c \div 2)
  BY <1>2, <1>3
<1> HIDE DEF c, l2
<1>7. LowAt(B, M, L, l2, "refill", c)
  BY <1>6 DEF LowAt
<1> QED BY <1>1, <1>5, <1>7 DEF c, l2

(* A refill is between two barriers to which all warps come. *)
LEMMA LowRefillMath ==
  ASSUME NEW B, NEW M \in Nat, NEW L \in Nat, NEW b \in Nat, NEW l \in Nat, LowAt(B, M, L, l, "refill", b)
  PROVE  b % 2 = 0 /\ b > 0 /\ (b + 1) \div 2 = b \div 2 /\ LowAt(B, M, L, l, "run", b + 1)
<1>1. b % 2 = 0 /\ b > 0 /\ l = LowL(B, M, b \div 2)
  BY DEF LowAt
<1>2. (b + 1) \div 2 = b \div 2 /\ (b + 1) % 2 = 1
  BY <1>1, OddEven
<1> DEFINE c == b + 1
<1>3. c % 2 = 1 /\ l = LowL(B, M, c \div 2)
  BY <1>1, <1>2
<1> HIDE DEF c
<1>4. LowAt(B, M, L, l, "run", c)
  BY <1>3 DEF LowAt
<1> QED BY <1>1, <1>2, <1>4 DEF c

(* The steps of leg_m_lowllim keep the invariant. *)
LEMMA LowKeeps ==
  ASSUME IInv, NEW w \in Warps, LowLoad(w) \/ LowPass(w) \/ LowRefill(w) \/ LowTail(w)
  PROVE  IInv'
<1> DEFINE B == BLOCKSIZE
           h == B \div 2
           b == bar[w]
           r == regs[w]
<1>1. kern = "leg_low"
  BY DEF LowLoad, LowPass, LowRefill, LowTail
<1>2. /\ M0Block(B) /\ llim \in Nat /\ llim <= LMAX + 1 /\ LMAX \in Nat /\ LSPAN \in Nat
      /\ m \in Nat /\ m <= llim /\ AlRow \in Nat
      /\ DOMAIN r = Names /\ b \in Nat /\ job \in Jobs
      /\ r.l \in m..(LMAX + 2 + LSPAN) /\ r.al \in Nat
      /\ LowComes(b) /\ LowAt(B, m, llim, r.l, pc[w], b)
  BY <1>1, LowHave
<1>3. /\ \A j \in Lanes(w) : j \in 0..(B - 1) /\ j \div WARPSZE = w /\ j % B = j
      /\ job.kern \in Alternating /\ B = Shape[job.kern].threads /\ WARPSZE = Shape[job.kern].warp
      /\ Indices("ak") = 0..(B - 1) /\ Indices("qk") = 0..(job.fields * B - 1)
      /\ job.fields \in 1..2 /\ FieldSet = 0..(job.fields - 1)
  BY <1>1, LowHave
<1>4. {"load", "refill", "run", "store"} \subseteq Steps /\ {"ak", "qk"} \subseteq Arrays
  BY DEF Steps, Arrays
<1>5. B \in Nat \ {0} /\ h \in Nat /\ 2 * h = B
  BY <1>2 DEF M0Block
\* A number of a field: its place in its part, and in the array.
<1>6. ASSUME NEW f \in FieldSet, NEW j \in 0..(B - 1)
      PROVE  f * B + j \in 0..(job.fields * B - 1) /\ (f * B + j) % B = j
  <2>1. f \in Nat /\ f + 1 <= job.fields /\ job.fields \in Nat
    BY <1>3
  <2>2. (f * B + j) % B = j /\ f * B \in Nat
    BY <1>5, <2>1, Split
  <2>3. (f + 1) * B <= job.fields * B /\ job.fields * B \in Nat /\ (f + 1) * B = f * B + B
    BY <1>5, <2>1, Monotone
  <2> DEFINE z == f * B
             t == job.fields * B
  <2>4. z \in Nat /\ t \in Nat /\ z + B <= t /\ B \in Nat
    BY <1>5, <2>2, <2>3
  <2> HIDE DEF z, t, B
  <2>5. z + j \in 0..(t - 1)
    BY <2>4
  <2> QED BY <2>2, <2>5 DEF z, t
\* What is put and read.
<1>7. ASSUME b % 2 = 0, NEW F, DOMAIN F \subseteq Lanes(w), NEW l, NEW J \in SUBSET Lanes(w)
      PROVE  PutsOK(w, [ak |-> F, qk |-> LowQ(l, J)])
  <2> DEFINE G == LowQ(l, J)
             puts == [ak |-> F, qk |-> G]
  <2>1. DOMAIN puts = {"ak", "qk"} /\ puts["ak"] = F /\ puts["qk"] = G
    OBVIOUS
  <2>2. \A i \in DOMAIN F : MayWrite(job, b, w, <<"ak", i>>) /\ Inside(<<"ak", i>>)
    <3>1. \A i \in Lanes(w) : (i % Shape[job.kern].threads) \div Shape[job.kern].warp = w
      BY <1>3
    <3>2. \A i \in Lanes(w) : MayWrite(job, b, w, <<"ak", i>>)
      BY <1>3, <1>4, <1>7, <3>1, EvenWrite
    <3>3. \A i \in Lanes(w) : Inside(<<"ak", i>>)
      BY <1>3 DEF Inside
    <3> QED BY <1>7, <3>2, <3>3
  <2>3. \A i \in DOMAIN G : MayWrite(job, b, w, <<"qk", i>>) /\ Inside(<<"qk", i>>)
    <3> TAKE i \in DOMAIN G
    <3>1. PICK f \in FieldSet, j \in J : i = f * BLOCKSIZE + j
      BY DEF LowQ
    <3>2. j \in 0..(B - 1) /\ j \div WARPSZE = w
      BY <1>3, <1>7
    <3>3. i % B = j /\ i \in 0..(job.fields * B - 1)
      BY <1>6, <3>1, <3>2
    <3>4. MayWrite(job, b, w, <<"qk", i>>)
      BY <1>3, <1>4, <1>7, <3>2, <3>3, EvenWrite
    <3>5. Inside(<<"qk", i>>)
      BY <1>3, <3>3 DEF Inside
    <3> QED BY <3>4, <3>5
  <2> HIDE DEF puts, G
  <2>4. PutsOK(w, puts)
    BY <2>1, <2>2, <2>3 DEF PutsOK
  <2> QED BY <2>4 DEF puts, G
<1>8. PutsOK(w, Nothing) /\ ReadsOK(w, {})
  BY DEF PutsOK, Nothing, ReadsOK
<1>9. ASSUME b % 2 = 1, NEW n \in Nat, n <= h PROVE ReadsOK(w, LowReads(n))
  <2>1. \A c : MayRead(job, b, w, c)
    BY <1>3, <1>9, OddRead
  <2>2. \A i \in 0..(2 * n - 1) : i \in 0..(B - 1)
    <3> HIDE DEF B, h
    <3> QED BY <1>5, <1>9
  <2>3. \A i \in 0..(2 * n - 1) : Inside(<<"ak", i>>)
    BY <1>3, <2>2 DEF Inside
  <2>4. \A f \in FieldSet : \A i \in 0..(2 * n - 1) : Inside(<<"qk", f * B + i>>)
    BY <1>3, <1>6, <2>2 DEF Inside
  <2>5. \A c \in LowReads(n) : Inside(c)
    BY <2>3, <2>4 DEF LowReads, Cells
  <2> QED BY <2>1, <2>5 DEF ReadsOK
<1>10. CASE LowLoad(w)
  <2> DEFINE y0 == First(Al(AlRow))
             q == IF y0 = Wrong THEN Wrong ELSE y0 + 1
             new == [r EXCEPT !.p = y0, !.q = q, !.al = AlRow + 2]
             F == [j \in Lanes(w) |-> Al(AlRow + j + 2)]
             puts == [ak |-> F, qk |-> LowQ(m, Lanes(w))]
  <2>1. pc[w] = "load" /\ Step(w, new, puts, {}, TRUE, "run")
    BY <1>10 DEF LowLoad
  <2>2. b = 0 /\ r.l = m
    BY <1>2, <2>1 DEF LowAt
  <2>3. PutsOK(w, puts)
    <3>1. DOMAIN F \subseteq Lanes(w) /\ b % 2 = 0
      BY <2>2
    <3> HIDE DEF F, b
    <3> QED BY <1>7, <3>1
  <2> HIDE DEF y0, q
  <2>4. DOMAIN new = Names /\ new.l = r.l /\ new.al = AlRow + 2
    BY <1>2 DEF Names
  <2> HIDE DEF new
  <2>5. LowAt(B, m, llim, new.l, "run", 1)
    <3>1. new.l = LowL(B, m, 0)
      BY <1>2, <2>2, <2>4, LowNext
    <3> QED BY <3>1 DEF LowAt
  <2>6. WarpOK(job, new, "run", 1)
    <3>1. new.l \in m..(LMAX + 2 + LSPAN) /\ new.al \in Nat /\ LowComes(1)
      BY <1>2, <2>4 DEF LowComes
    <3> QED BY <1>1, <1>2, <1>4, <2>4, <2>5, <3>1, LowWarpOK
  <2>7. After(bar[w], TRUE) = 1
    BY <2>2 DEF After
  <2> HIDE DEF puts
  <2> QED BY <1>8, <2>1, <2>3, <2>6, <2>7, StepKeeps
<1>11. CASE LowPass(w)
  <2> DEFINE new == LowSum(r, h)
             reads == LowReads(h)
  <2>1. pc[w] = "run" /\ r.l <= llim - h /\ Step(w, new, Nothing, reads, TRUE, "refill")
    BY <1>11 DEF LowPass
  <2>2. DOMAIN new = Names /\ new.l = r.l + h /\ new.al = r.al + 2 * h
    BY <1>2, SumRegs DEF LowSum
  <2>3. /\ LowL(B, m, ((b + 1) \div 2) - 1) <= llim - h
        /\ LowAt(B, m, llim, r.l + h, "refill", b + 1)
        /\ b % 2 = 1
    <3> DEFINE l == r.l
    <3>1. LowAt(B, m, llim, l, "run", b) /\ l \in Nat /\ l <= llim - h
      BY <1>2, <2>1
    <3> HIDE DEF l
    <3>2. /\ LowL(B, m, ((b + 1) \div 2) - 1) <= llim - h
          /\ LowAt(B, m, llim, l + h, "refill", b + 1)
          /\ b % 2 = 1
      BY <1>2, <3>1, LowPassMath
    <3> QED BY <3>2 DEF l
  <2> HIDE DEF new
  <2>4. ReadsOK(w, reads)
    BY <1>5, <1>9, <2>3
  <2>5. WarpOK(job, new, "refill", b + 1)
    <3> DEFINE l == r.l
               a == r.al
               l2 == new.l
               a2 == new.al
    <3>1. /\ l \in m..(LMAX + 2 + LSPAN) /\ l2 = l + h /\ a2 = a + 2 * h /\ l <= llim - h
          /\ a \in Nat /\ h \in Nat
      BY <1>2, <1>5, <2>1, <2>2
    <3> HIDE DEF l, a, l2, a2, h
    <3>2. l2 \in m..(LMAX + 2 + LSPAN) /\ a2 \in Nat
      BY <1>2, <3>1
    <3>3. new.l \in m..(LMAX + 2 + LSPAN) /\ new.al \in Nat /\ b + 1 \in Nat
      BY <1>2, <3>2 DEF l2, a2
    <3>4. LowComes(b + 1) /\ LowAt(B, m, llim, new.l, "refill", b + 1)
      BY <2>2, <2>3 DEF LowComes, h
    <3> QED BY <1>1, <1>2, <1>4, <2>2, <3>3, <3>4, LowWarpOK
  <2>6. After(bar[w], TRUE) = b + 1
    BY DEF After
  <2> HIDE DEF reads
  <2> QED BY <1>8, <2>1, <2>4, <2>5, <2>6, StepKeeps
<1>12. CASE LowRefill(w)
  <2> DEFINE J == {j \in Lanes(w) : r.l + (j \div 2) <= llim}
             F == [j \in J |-> Al(r.al + j)]
             puts == [ak |-> F, qk |-> LowQ(r.l, J)]
  <2>1. pc[w] = "refill" /\ Step(w, r, puts, {}, TRUE, "run")
    BY <1>12 DEF LowRefill
  <2>2. b % 2 = 0 /\ b > 0 /\ (b + 1) \div 2 = b \div 2 /\ LowAt(B, m, llim, r.l, "run", b + 1)
    <3> DEFINE l == r.l
    <3>1. LowAt(B, m, llim, l, "refill", b) /\ l \in Nat
      BY <1>2, <2>1
    <3> HIDE DEF l, b
    <3>2. b % 2 = 0 /\ b > 0 /\ (b + 1) \div 2 = b \div 2 /\ LowAt(B, m, llim, l, "run", b + 1)
      BY <1>2, <3>1, LowRefillMath
    <3> QED BY <3>2 DEF l
  <2>3. PutsOK(w, puts)
    <3>1. DOMAIN F \subseteq Lanes(w) /\ J \in SUBSET Lanes(w)
      OBVIOUS
    <3> HIDE DEF F, J, b
    <3> QED BY <1>7, <2>2, <3>1
  <2>4. WarpOK(job, r, "run", b + 1)
    <3>1. LowComes(b + 1)
      <4>1. b # 1 /\ b # 0 /\ b + 1 \in Nat
        BY <1>2, <2>2
      <4> QED BY <1>2, <2>2, <4>1 DEF LowComes
    <3> QED BY <1>1, <1>2, <1>4, <2>2, <3>1, LowWarpOK
  <2>5. After(bar[w], TRUE) = b + 1
    BY DEF After
  <2> HIDE DEF puts
  <2> QED BY <1>8, <2>1, <2>3, <2>4, <2>5, StepKeeps
<1>13. CASE LowTail(w)
  <2> DEFINE n == IF r.l <= llim THEN llim - r.l + 1 ELSE 0
             new == LowSum(r, n)
             reads == LowReads(n)
  <2>1. pc[w] = "run" /\ r.l > llim - h /\ Step(w, new, Nothing, reads, FALSE, "store")
    BY <1>13 DEF LowTail
  <2> DEFINE l == r.l
             a == r.al
  <2>2. l \in m..(LMAX + 2 + LSPAN) /\ a \in Nat /\ l > llim - h /\ n = IF l <= llim THEN llim - l + 1 ELSE 0
    BY <1>2, <2>1
  <2>3. b % 2 = 1 /\ r.l = LowL(B, m, b \div 2)
    BY <1>2, <2>1 DEF LowAt
  <2> HIDE DEF l, a, h, n
  <2>4. n \in Nat /\ n <= h /\ l + n \in m..(LMAX + 2 + LSPAN) /\ a + 2 * n \in Nat
    BY <1>2, <1>5, <2>2
  <2>5. DOMAIN new = Names /\ new.l = l + n /\ new.al = a + 2 * n
    BY <1>2, SumRegs DEF LowSum, l, a
  <2> HIDE DEF new
  <2>6. ReadsOK(w, reads)
    BY <1>9, <2>3, <2>4
  <2>7. WarpOK(job, new, "store", b)
    <3>1. LowAt(B, m, llim, new.l, "store", b)
      <4>1. LowL(B, m, b \div 2) > llim - (B \div 2)
        BY <2>1, <2>3 DEF h
      <4> QED BY <2>3, <4>1 DEF LowAt
    <3>2. new.l \in m..(LMAX + 2 + LSPAN) /\ new.al \in Nat
      BY <2>4, <2>5
    <3> QED BY <1>1, <1>2, <1>4, <2>5, <3>1, <3>2, LowWarpOK
  <2>8. After(bar[w], FALSE) = b
    BY DEF After
  <2> HIDE DEF reads
  <2> QED BY <1>8, <2>1, <2>6, <2>7, <2>8, StepKeeps
<1> QED BY <1>10, <1>11, <1>12, <1>13

(***************************************************************************)
(* leg_m_highllim_kernel                                                   *)
(***************************************************************************)
LEMMA HighWarpOK ==
  ASSUME job \in Jobs, kern = "leg_high", NEW r, DOMAIN r = Names, NEW p \in {"climb", "store", "done"},
         r.l \in m..(LMAX + 2 + LSPAN), r.al \in Nat, r.lo \in Nat
  PROVE  WarpOK(job, r, p, 0)
<1>1. kern = job.kern /\ llim = job.llim /\ m = job.im * MRES
  BY StateFacts
<1>2. Comes(job, 0) /\ HighAt(m, r.l, r.lo, p, 0) /\ p \in Steps /\ 0 \in Nat
  BY DEF Comes, HighAt, Steps
<1> QED BY <1>1, <1>2 DEF WarpOK, Ileg, Convert, Transpose

(* The steps of leg_m_highllim keep the invariant: a warp stays in its own part, and needs no barrier. *)
LEMMA HighKeeps ==
  ASSUME IInv, NEW w \in Warps,
         HighZero(w) \/ HighStart(w) \/ HighClimb(w) \/ HighRun(w) \/ HighLast(w)
  PROVE  IInv'
<1> DEFINE B == BLOCKSIZE
           b == bar[w]
           r == regs[w]
<1>1. kern = "leg_high"
  BY DEF HighZero, HighStart, HighClimb, HighRun, HighLast
<1>2. /\ job \in Jobs /\ b \in Nat /\ WarpOK(job, r, pc[w], b)
      /\ LaunchOK(job) /\ BlockOK(BLOCKSIZE, WARPSZE)
      /\ kern = job.kern /\ im = job.im /\ m = job.im * MRES /\ llim = job.llim
      /\ LMAX \in Nat /\ LSPAN \in Nat /\ LSPAN >= 4
  BY WarpFacts
<1>3. /\ m \in Nat /\ llim \in Nat /\ llim <= LMAX + 1 /\ job.fields = 1
  BY <1>1, <1>2 DEF LaunchOK
<1>4. /\ DOMAIN r = Names /\ r.l \in m..(LMAX + 2 + LSPAN) /\ r.al \in Nat /\ r.lo \in Nat /\ b = 0
  BY <1>1, <1>2 DEF WarpOK, HighAt
<1>5. After(bar[w], FALSE) = 0
  BY <1>4 DEF After
<1>6. PutsOK(w, Nothing) /\ ReadsOK(w, {})
  BY DEF PutsOK, Nothing, ReadsOK
\* A warp has its own lanes of both arrays.
<1>7. ASSUME NEW a \in {"ak", "qk"}, NEW j \in Lanes(w)
      PROVE  MayWrite(job, b, w, <<a, j>>) /\ MayRead(job, b, w, <<a, j>>) /\ Inside(<<a, j>>)
  <2>1. j \in 0..(B - 1) /\ j \div WARPSZE = w /\ j % B = j
    BY <1>2, StateFacts
  <2>2. Owner(job, a, j, b) = w /\ a \in WrittenIn(job, b)
    BY <1>1, <1>2, <2>1 DEF Owner, WrittenIn, Arrays, Ileg, Transpose, BLOCKSIZE, WARPSZE
  <2>3. Inside(<<a, j>>)
    <3>1. 1 * B = B /\ B \in Nat
      BY <1>2 DEF BlockOK
    <3>2. j \in Indices("ak") /\ j \in Indices("qk")
      BY <1>1, <1>3, <2>1, <3>1, Sizes
    <3> QED BY <3>2 DEF Inside
  <2> QED BY <2>2, <2>3 DEF MayWrite, MayRead
<1>8. ASSUME NEW new, DOMAIN new = Names, new.l \in m..(LMAX + 2 + LSPAN), new.al \in Nat, new.lo \in Nat,
             NEW puts, DOMAIN puts \subseteq {"ak", "qk"},
             \A a \in DOMAIN puts : DOMAIN puts[a] \subseteq Lanes(w),
             NEW I, I \in SUBSET {"ak", "qk"}, NEW reads, reads \subseteq UNION {Cells(a, Lanes(w)) : a \in I},
             NEW next \in {"climb", "store"}, Step(w, new, puts, reads, FALSE, next)
      PROVE  IInv'
  <2>1. WarpOK(job, new, next, 0)
    BY <1>1, <1>2, <1>8, HighWarpOK
  <2>2. PutsOK(w, puts)
    BY <1>7, <1>8 DEF PutsOK
  <2>3. ReadsOK(w, reads)
    <3> SUFFICES ASSUME NEW c \in reads PROVE MayRead(job, b, w, c) /\ Inside(c)
      BY DEF ReadsOK
    <3>1. PICK a \in {"ak", "qk"}, j \in Lanes(w) : c = <<a, j>>
      BY <1>8 DEF Cells
    <3> QED BY <1>7, <3>1
  <2> QED BY <1>5, <1>8, <2>1, <2>2, <2>3, StepKeeps
\* Steps that touch no shared memory.
<1>9. ASSUME NEW new, DOMAIN new = Names, new.l \in m..(LMAX + 2 + LSPAN), new.al \in Nat, new.lo \in Nat,
             NEW next \in {"climb", "store"}, Step(w, new, Nothing, {}, FALSE, next)
      PROVE  IInv'
  <2>1. WarpOK(job, new, next, 0)
    BY <1>1, <1>2, <1>9, HighWarpOK
  <2> QED BY <1>5, <1>6, <1>9, <2>1, StepKeeps
\* The registers after n degrees.
<1>10. ASSUME NEW n \in Nat, r.l + n <= llim + 1
       PROVE  /\ DOMAIN HighSum(w, r, n) = Names /\ HighSum(w, r, n).l \in m..(LMAX + 2 + LSPAN)
              /\ HighSum(w, r, n).al \in Nat /\ HighSum(w, r, n).lo = r.lo
  <2> DEFINE s == HighSum(w, r, n)
             l == r.l
             a == r.al
             l2 == s.l
             a2 == s.al
  <2>1. DOMAIN s = Names /\ l2 = l + n /\ a2 = a + 2 * n /\ s.lo = r.lo
    BY <1>4, SumRegs DEF HighSum
  <2>2. l \in m..(LMAX + 2 + LSPAN) /\ a \in Nat /\ l + n <= llim + 1
    BY <1>4, <1>10
  <2> HIDE DEF l, a, l2, a2
  <2>3. l2 \in m..(LMAX + 2 + LSPAN) /\ a2 \in Nat
    BY <1>2, <1>3, <2>1, <2>2
  <2> QED BY <2>1, <2>3 DEF l2, a2
<1>11. CASE HighZero(w)
  <2> DEFINE y0 == First(Al(0))
             n == IF llim = 0 THEN 2 ELSE llim + 1
             A == [i \in 0..(2 * n - 1) |-> Al(i + 2)]
             C == [z \in Terms(n) |-> Ql(z[1], 2 * z[2])]
             start == [r EXCEPT !.p = y0, !.q = y0 + 1]
             new == Sum(start, A, 0, n, C)
  <2>1. pc[w] = "load" /\ im = 0 /\ Step(w, new, Nothing, {}, FALSE, "store")
    BY <1>11 DEF HighZero
  <2> HIDE DEF y0, n, A, C
  <2>2. DOMAIN start = Names /\ start.l = r.l /\ start.al = r.al /\ start.lo = r.lo
    BY <1>4 DEF Names
  <2> HIDE DEF start
  <2>3. DOMAIN new = Names /\ new.l = r.l + n /\ new.al = r.al + 2 * n /\ new.lo = r.lo
    BY <2>2, SumRegs
  <2> HIDE DEF new
  <2>4. n \in Nat /\ n <= LMAX + 2
    BY <1>2, <1>3 DEF n
  <2>5. r.l = 0 /\ m = 0
    <3>1. m = 0
      BY <1>2, <2>1, SizesAssumption
    <3>2. r.l = m
      BY <1>1, <1>2, <2>1 DEF WarpOK, HighAt
    <3> QED BY <3>1, <3>2
  <2>6. new.l \in m..(LMAX + 2 + LSPAN) /\ new.al \in Nat
    <3>1. r.l + n \in m..(LMAX + 2 + LSPAN)
      BY <1>2, <2>4, <2>5
    <3>2. r.al + 2 * n \in Nat
      BY <1>4, <2>4
    <3> QED BY <2>3, <3>1, <3>2
  <2> QED BY <1>4, <1>9, <2>1, <2>3, <2>6
<1>12. CASE HighStart(w)
  <2>1. CASE Step(w, [r EXCEPT !.first = LMAX + 2], Nothing, {}, FALSE, "store")
    <3> DEFINE new == [r EXCEPT !.first = LMAX + 2]
    <3>1. DOMAIN new = Names /\ new.l = r.l /\ new.al = r.al /\ new.lo = r.lo
      BY <1>4 DEF Names
    <3>2. Step(w, new, Nothing, {}, FALSE, "store")
      BY <2>1
    <3> HIDE DEF new
    <3> QED BY <1>4, <1>9, <3>1, <3>2
  <2>2. ASSUME NEW lo \in {m + 2 * x : x \in 0..MaxSkip}, NEW first,
               Step(w, [r EXCEPT !.p = None, !.q = First(Al(AlRow)), !.lo = lo, !.first = first],
                    Nothing, {}, FALSE, "climb")
        PROVE  IInv'
    <3> DEFINE y0 == First(Al(AlRow))
               new == [r EXCEPT !.p = None, !.q = y0, !.lo = lo, !.first = first]
    <3>1. Step(w, new, Nothing, {}, FALSE, "climb")
      BY <2>2
    <3> HIDE DEF y0
    <3>2. DOMAIN new = Names /\ new.l = r.l /\ new.al = r.al /\ new.lo = lo
      BY <1>4 DEF Names
    <3>3. lo \in Nat
      BY <1>3
    <3> HIDE DEF new
    <3> QED BY <1>4, <1>9, <3>1, <3>2, <3>3
  <2> QED BY <1>12, <2>1, <2>2 DEF HighStart
\* The number of degrees of one pass.
<1>13. PassPairs \in Nat
  <2>1. WARPSZE \in Nat /\ WARPSZE > 4
    BY <1>1, <1>2, LaunchAssumption DEF WARPSZE, BlockOK
  <2> QED BY <2>1 DEF PassPairs
<1>14. ASSUME NEW l \in Nat, NEW k \in Nat, l < llim, NEW z, z = Least(k, Pairs(llim - l))
       PROVE  z \in Nat /\ 2 * z \in Nat /\ l + 2 * z <= llim + 1
  <2> DEFINE u == Pairs(llim - l)
  <2>1. u \in Nat /\ 2 * u <= llim - l + 1
    BY <1>3, <1>14 DEF Pairs
  <2> HIDE DEF u
  <2>2. z \in Nat /\ z <= u
    BY <1>14, <2>1 DEF Least, u
  <2> QED BY <1>3, <2>1, <2>2
<1>15. ASSUME NEW n \in Nat, r.l + n <= llim + 1, NEW puts, DOMAIN puts \subseteq {"ak", "qk"},
              \A a \in DOMAIN puts : DOMAIN puts[a] \subseteq Lanes(w),
              NEW I, I \in SUBSET {"ak", "qk"}, NEW reads, reads \subseteq UNION {Cells(a, Lanes(w)) : a \in I},
              NEW next \in {"climb", "store"}, Step(w, HighSum(w, r, n), puts, reads, FALSE, next)
       PROVE  IInv'
  <2> DEFINE new == HighSum(w, r, n)
  <2>1. DOMAIN new = Names /\ new.l \in m..(LMAX + 2 + LSPAN) /\ new.al \in Nat /\ new.lo \in Nat
    BY <1>4, <1>10, <1>15
  <2> HIDE DEF new
  <2>2. Step(w, new, puts, reads, FALSE, next)
    BY <1>15 DEF new
  <2> QED BY <1>8, <1>15, <2>1, <2>2
<1>16. CASE HighClimb(w)
  <2> DEFINE l == r.l
             u == Pairs(llim - l)
             c == Least(Pairs(r.lo - l), u)
             n == 2 * Least(PassPairs, c)
             puts == [ak |-> HighFill(w, r)]
             reads == Cells("ak", Lanes(w))
  <2>1. /\ l < r.lo /\ l < llim /\ Step(w, HighSum(w, r, n), puts, reads, FALSE, "climb")
    BY <1>16 DEF HighClimb
  <2>2. l \in Nat /\ Pairs(r.lo - l) \in Nat
    BY <1>3, <1>4, <2>1 DEF Pairs
  <2> HIDE DEF l
  <2>3. c \in Nat /\ 2 * c \in Nat /\ l + 2 * c <= llim + 1
    BY <1>14, <2>1, <2>2
  <2> HIDE DEF c
  <2>4. n \in Nat /\ n <= 2 * c
    <3> DEFINE z == Least(PassPairs, c)
    <3>1. z \in Nat /\ z <= c
      BY <1>13, <2>3 DEF Least
    <3> HIDE DEF z
    <3>2. 2 * z \in Nat /\ 2 * z <= 2 * c
      BY <2>3, <3>1
    <3> QED BY <3>2 DEF z
  <2> HIDE DEF n
  <2>5. l + n <= llim + 1
    BY <1>3, <2>2, <2>3, <2>4
  <2>6. DOMAIN puts \subseteq {"ak", "qk"} /\ \A a \in DOMAIN puts : DOMAIN puts[a] \subseteq Lanes(w)
    BY DEF HighFill
  <2>7. {"ak"} \in SUBSET {"ak", "qk"} /\ reads \subseteq UNION {Cells(a, Lanes(w)) : a \in {"ak"}}
    OBVIOUS
  <2> HIDE DEF puts, reads
  <2> QED BY <1>15, <2>1, <2>4, <2>5, <2>6, <2>7 DEF l
<1>17. CASE HighRun(w)
  <2> DEFINE l == r.l
             z == Least(PassPairs, Pairs(llim - l))
             n == 2 * z
             puts == [ak |-> HighFill(w, r), qk |-> HighFillQ(w, r)]
             reads == Cells("ak", Lanes(w)) \cup Cells("qk", Lanes(w))
  <2>1. l < llim /\ Step(w, HighSum(w, r, n), puts, reads, FALSE, "climb")
    BY <1>17 DEF HighRun
  <2>2. l \in Nat
    BY <1>3, <1>4
  <2> HIDE DEF l
  <2>3. n \in Nat /\ l + n <= llim + 1
    BY <1>13, <1>14, <2>1, <2>2
  <2> HIDE DEF n
  <2>6. DOMAIN puts \subseteq {"ak", "qk"} /\ \A a \in DOMAIN puts : DOMAIN puts[a] \subseteq Lanes(w)
    BY DEF HighFill, HighFillQ
  <2>7. reads \subseteq UNION {Cells(a, Lanes(w)) : a \in {"ak", "qk"}}
    OBVIOUS
  <2> HIDE DEF puts, reads
  <2> QED BY <1>15, <2>1, <2>3, <2>6, <2>7 DEF l
<1>18. CASE HighLast(w)
  <2>1. r.l >= llim /\ Step(w, IF r.l = llim THEN HighSum(w, r, 1) ELSE r, Nothing, {}, FALSE, "store")
    BY <1>18 DEF HighLast
  <2>2. CASE r.l = llim
    <3> DEFINE new == HighSum(w, r, 1)
    <3>1. Step(w, new, Nothing, {}, FALSE, "store")
      BY <2>1, <2>2
    <3>2. r.l + 1 <= llim + 1
      BY <1>3, <2>2
    <3>3. DOMAIN new = Names /\ new.l \in m..(LMAX + 2 + LSPAN) /\ new.al \in Nat /\ new.lo = r.lo
      BY <1>10, <3>2
    <3> HIDE DEF new
    <3> QED BY <1>4, <1>9, <3>1, <3>3
  <2>3. CASE r.l # llim
    <3>1. Step(w, r, Nothing, {}, FALSE, "store")
      BY <2>1, <2>3
    <3> QED BY <1>4, <1>9, <3>1
  <2> QED BY <2>2, <2>3
<1> QED BY <1>11, <1>12, <1>16, <1>17, <1>18

(* The end of a synthesis. *)
LEMMA StoreKeeps ==
  ASSUME IInv, NEW w \in Warps, LegStore(w)
  PROVE  IInv'
<1> DEFINE b == bar[w]
           r == regs[w]
<1>1. kern \in Leg /\ pc[w] = "store" /\ Step(w, r, Nothing, {}, FALSE, "done")
  BY DEF LegStore
<1>2. WarpOK(job, r, "store", b)
  BY <1>1, WarpFacts
<1>3. WarpOK(job, r, "done", b)
  <2>1. kern = job.kern
    BY DEF kern
  <2>2. \A B, M, L, l, k, f : M0At(B, L, l, k, f, "store", b) => M0At(B, L, l, k, f, "done", b)
    BY DEF M0At
  <2>3. \A B, M, L, l : LowAt(B, M, L, l, "store", b) => LowAt(B, M, L, l, "done", b)
    BY DEF LowAt
  <2>4. \A M, l, lo : HighAt(M, l, lo, "store", b) => HighAt(M, l, lo, "done", b)
    BY DEF HighAt
  <2>5. job.kern \notin Ileg /\ job.kern \notin Convert \cup Transpose
    BY <1>1, <2>1 DEF Leg, Ileg, Convert, Transpose
  <2>6. "done" \in Steps
    BY DEF Steps
  <2> QED BY <1>2, <2>2, <2>3, <2>4, <2>5, <2>6 DEF WarpOK
<1>4. PutsOK(w, Nothing) /\ ReadsOK(w, {}) /\ After(bar[w], FALSE) = b
  BY DEF PutsOK, Nothing, ReadsOK, After
<1> QED BY <1>1, <1>3, <1>4, StepKeeps

(***************************************************************************)
(* The ileg_ kernels                                                       *)
(***************************************************************************)
IlegOK(J, M) ==
  /\ J.kern \in Ileg /\ J.fields \in 1..2 /\ (J.kern = "ileg_high" => J.fields = 1)
  /\ M \in Nat /\ J.llim \in Nat /\ M <= J.llim /\ LSPAN \in Nat /\ LSPAN >= 4

(* Every pass of an analysis is of LSPAN degrees. *)
LEMMA IlegNext ==
  ASSUME NEW M \in Nat, NEW i \in Nat, LSPAN \in Nat
  PROVE  IlegL(M, i) \in Nat /\ IlegL(M, i + 1) = IlegL(M, i) + LSPAN /\ IlegL(M, 0) = M
<1> DEFINE z == i * LSPAN
<1>1. (i + 1) * LSPAN = z + LSPAN /\ z \in Nat /\ 0 * LSPAN = 0
  OBVIOUS
<1>2. IlegL(M, i) = M + z /\ IlegL(M, i + 1) = M + (i + 1) * LSPAN /\ IlegL(M, 0) = M + 0 * LSPAN
  BY DEF IlegL
<1> HIDE DEF z
<1> QED BY <1>1, <1>2

(* The barriers before the loop of an analysis. *)
LEMMA BaseFacts ==
  ASSUME NEW J, NEW M, IlegOK(J, M)
  PROVE  /\ Base(J) \in Nat \ {0}
         /\ J.kern = "ileg_high" => Base(J) = 1
         /\ J.kern # "ileg_high" => Base(J) = 2 * J.fields
BY DEF Base, IlegOK

(* From the fields of an analysis to its loop. *)
LEMMA IlegStartMath ==
  ASSUME NEW J, NEW M, IlegOK(J, M), NEW l, NEW f, NEW b \in Nat, IlegAt(J, M, l, f, "start", b)
  PROVE  /\ J.kern = "ileg_high" => b = 1 /\ IlegAt(J, M, l, f, "fill", b)
         /\ J.kern # "ileg_high" => /\ b = 2 * J.fields - 1 /\ b + 1 = Base(J)
                                    /\ IlegAt(J, M, l, f, "fill", b + 1)
<1> DEFINE B == Base(J)
<1>1. B \in Nat \ {0} /\ (J.kern = "ileg_high" => B = 1) /\ (J.kern # "ileg_high" => B = 2 * J.fields)
  BY BaseFacts
<1>2. /\ f \in 0..(J.fields - 1) /\ l = M
      /\ J.kern = "ileg_high" => b = 1
      /\ J.kern # "ileg_high" => b = 2 * J.fields - 1
  BY DEF IlegAt
<1>3. IlegL(M, 0) = M /\ M <= J.llim /\ J.fields \in 1..2
  BY IlegNext DEF IlegOK
<1>4. IlegAt(J, M, l, f, "fill", B)
  <2>1. (B - B) \div 2 = 0 /\ (B - B) % 2 = 0 /\ B >= B
    BY <1>1
  <2> DEFINE i == (B - B) \div 2
  <2>2. l = IlegL(M, i) /\ l <= J.llim
    BY <1>2, <1>3, <2>1
  <2> HIDE DEF i
  <2> QED BY <1>2, <2>1, <2>2 DEF IlegAt, i
<1>5. J.kern = "ileg_high" => b = B
  BY <1>1, <1>2
<1>6. J.kern # "ileg_high" => b + 1 = B
  BY <1>1, <1>2, <1>3
<1> QED BY <1>2, <1>4, <1>5, <1>6

(* From the refill of a pass to its sums. *)
LEMMA IlegFillMath ==
  ASSUME NEW J, NEW M, IlegOK(J, M), NEW l, NEW f, NEW b \in Nat, IlegAt(J, M, l, f, "fill", b)
  PROVE  /\ b >= Base(J) /\ (b - Base(J)) % 2 = 0
         /\ IlegAt(J, M, l, f, "sum", b + 1)
         /\ IlegL(M, ((b + 1) - Base(J) - 1) \div 2) <= J.llim
<1> DEFINE B == Base(J)
           d == b - B
           i == d \div 2
<1>1. B \in Nat \ {0}
  BY BaseFacts
<1>2. f \in 0..(J.fields - 1) /\ b >= B /\ d % 2 = 0 /\ l = IlegL(M, i) /\ l <= J.llim
  BY DEF IlegAt
<1>3. d \in Nat /\ (b + 1) - B = d + 1 /\ (b + 1) - B - 1 = d /\ b + 1 > B
  BY <1>1, <1>2
<1> HIDE DEF d
<1>4. (d + 1) % 2 = 1 /\ (d + 1) \div 2 = i
  BY <1>2, <1>3, OddEven
<1>5. IlegAt(J, M, l, f, "sum", b + 1)
  <2> DEFINE c == b + 1
  <2>1. c > B /\ (c - B) % 2 = 1 /\ (c - B) \div 2 = i
    BY <1>3, <1>4
  <2> HIDE DEF c
  <2>2. IlegAt(J, M, l, f, "sum", c)
    BY <1>2, <2>1 DEF IlegAt
  <2> QED BY <2>2 DEF c
<1>6. IlegL(M, ((b + 1) - B - 1) \div 2) <= J.llim
  BY <1>2, <1>3
<1> QED BY <1>2, <1>5, <1>6 DEF d

(* From the sums of a pass to the next one, or to the end. *)
LEMMA IlegSumMath ==
  ASSUME NEW J, NEW M, IlegOK(J, M), NEW l, NEW f, NEW b \in Nat, IlegAt(J, M, l, f, "sum", b)
  PROVE  /\ b > Base(J) /\ (b - Base(J)) % 2 = 1 /\ l \in Nat /\ l <= J.llim
         /\ l + LSPAN <= J.llim => IlegAt(J, M, l + LSPAN, f, "fill", b + 1)
         /\ ~(l + LSPAN <= J.llim) => IlegAt(J, M, l + LSPAN, f, "done", b + 1)
         /\ IlegL(M, ((b + 1) - Base(J) - 1) \div 2) <= J.llim
<1> DEFINE B == Base(J)
           d == b - B
           i == d \div 2
           l2 == l + LSPAN
           c == b + 1
<1>1. B \in Nat \ {0} /\ M \in Nat /\ LSPAN \in Nat /\ J.llim \in Nat
  BY BaseFacts DEF IlegOK
<1>2. f \in 0..(J.fields - 1) /\ b > B /\ d % 2 = 1 /\ l = IlegL(M, i) /\ l <= J.llim
  BY DEF IlegAt
<1>3. d \in Nat /\ c - B = d + 1 /\ c - B - 1 = d /\ c > B
  BY <1>1, <1>2
<1> HIDE DEF d
<1>4. (d + 1) % 2 = 0 /\ (d + 1) \div 2 = i + 1 /\ i \in Nat
  BY <1>2, <1>3, OddEven
<1>5. l \in Nat /\ l2 = IlegL(M, i + 1)
  BY <1>1, <1>2, <1>4, IlegNext
<1>6. c >= B /\ (c - B) % 2 = 0 /\ (c - B) \div 2 = i + 1
  BY <1>1, <1>3, <1>4
<1>7. IlegL(M, (c - B - 1) \div 2) <= J.llim
  BY <1>2, <1>3
<1>8. l2 \in Int /\ (~(l2 <= J.llim) => l2 > J.llim)
  BY <1>1, <1>5
<1> DEFINE k == (c - B) \div 2
<1>9. l2 = IlegL(M, k)
  BY <1>5, <1>6
<1> HIDE DEF c, l2, i, k
<1>10. l2 <= J.llim => IlegAt(J, M, l2, f, "fill", c)
  BY <1>2, <1>6, <1>9 DEF IlegAt, k
<1>11. ~(l2 <= J.llim) => IlegAt(J, M, l2, f, "done", c)
  BY <1>2, <1>3, <1>6, <1>8, <1>9 DEF IlegAt, k
<1> QED BY <1>2, <1>5, <1>7, <1>10, <1>11 DEF c, l2, d

(* Putting together what is to be known of a warp of an analysis. *)
LEMMA IlegWarpOK ==
  ASSUME job \in Jobs, kern \in Ileg, NEW r, DOMAIN r = Names, NEW p \in Steps, NEW b \in Nat,
         r.l \in m..(LMAX + 2 + LSPAN), r.al \in Nat,
         b <= Base(job) + 2 \/ IlegL(m, (b - Base(job) - 1) \div 2) <= llim,
         IlegAt(job, m, r.l, r.f, p, b)
  PROVE  WarpOK(job, r, p, b)
<1>1. kern = job.kern /\ llim = job.llim /\ m = job.im * MRES
  BY StateFacts
<1>2. Comes(job, b)
  BY <1>1 DEF Comes
<1>3. kern \notin Leg /\ kern \notin Convert \cup Transpose
  BY DEF Leg, Ileg, Convert, Transpose
<1> QED BY <1>1, <1>2, <1>3 DEF WarpOK, Leg

(* What the invariant says of a warp of an analysis. *)
LEMMA IlegHave ==
  ASSUME IInv, NEW w \in Warps, kern \in Ileg
  PROVE  /\ IlegOK(job, m) /\ llim = job.llim /\ llim <= LMAX + 1 /\ LMAX \in Nat /\ job \in Jobs
         /\ AlRow \in Nat /\ (Own <=> job.kern = "ileg_high")
         /\ DOMAIN regs[w] = Names /\ bar[w] \in Nat
         /\ regs[w].l \in m..(LMAX + 2 + LSPAN) /\ regs[w].al \in Nat
         /\ IlegAt(job, m, regs[w].l, regs[w].f, pc[w], bar[w])
         /\ BlockOK(BLOCKSIZE, WARPSZE) /\ BLOCKSIZE % (2 * LSPAN) = 0 /\ BLOCKSIZE >= 2 * LSPAN + 2
         /\ BLOCKSIZE = Shape[job.kern].threads /\ WARPSZE = Shape[job.kern].warp
         /\ \A j \in Lanes(w) : j \in 0..(BLOCKSIZE - 1) /\ j \div WARPSZE = w /\ j % BLOCKSIZE = j
         /\ Indices("ak") = 0..(2 * LSPAN + 1) /\ Indices("yl") = 0..(LSPAN * BLOCKSIZE - 1)
         /\ Own => Indices("reo") = 0..(4 * BLOCKSIZE - 1)
<1>1. /\ job \in Jobs /\ bar[w] \in Nat /\ WarpOK(job, regs[w], pc[w], bar[w])
      /\ LaunchOK(job) /\ BlockOK(BLOCKSIZE, WARPSZE)
      /\ kern = job.kern /\ m = job.im * MRES /\ llim = job.llim
      /\ LMAX \in Nat /\ LSPAN \in Nat /\ LSPAN >= 4
  BY WarpFacts
<1>2. BLOCKSIZE = Shape[job.kern].threads /\ WARPSZE = Shape[job.kern].warp
  BY <1>1 DEF BLOCKSIZE, WARPSZE
<1>3. IlegOK(job, m) /\ llim <= LMAX + 1
  BY <1>1 DEF LaunchOK, IlegOK
<1>4. AlRow \in Nat
  BY <1>1, RowFacts
<1>5. BLOCKSIZE % (2 * LSPAN) = 0 /\ BLOCKSIZE >= 2 * LSPAN + 2
  BY <1>1, <1>2, LaunchAssumption
<1>6. /\ DOMAIN regs[w] = Names /\ regs[w].l \in m..(LMAX + 2 + LSPAN) /\ regs[w].al \in Nat
      /\ IlegAt(job, m, regs[w].l, regs[w].f, pc[w], bar[w])
  BY <1>1 DEF WarpOK
<1>7. \A j \in Lanes(w) : j \in 0..(BLOCKSIZE - 1) /\ j \div WARPSZE = w /\ j % BLOCKSIZE = j
  BY <1>1, StateFacts
<1>8. /\ Indices("ak") = 0..(2 * LSPAN + 1) /\ Indices("yl") = 0..(LSPAN * BLOCKSIZE - 1)
      /\ Own => Indices("reo") = 0..(4 * BLOCKSIZE - 1)
  BY Sizes DEF Own
<1> QED BY <1>1, <1>2, <1>3, <1>4, <1>5, <1>6, <1>7, <1>8 DEF Own

(* Where the numbers of a thread are. *)
LEMMA IlegPlaces ==
  ASSUME NEW B \in Nat \ {0}, LSPAN \in Nat, LSPAN >= 4, B % (2 * LSPAN) = 0, BLOCKSIZE = B, NEW j \in 0..(B - 1)
  PROVE  /\ Row(j) \in 0..(LSPAN - 1)
         /\ \A i \in (Row(j) * B)..((Row(j) + 1) * B - 1) : i \in 0..(LSPAN * B - 1)
         /\ \A k \in 0..Gathers : ReoAt(j, k) \in 0..(4 * B - 1) /\ ReoAt(j, k) \in 0..(LSPAN * B - 1)
<1> DEFINE g == B \div (2 * LSPAN)
           h == B \div LSPAN
           N == IF im = 0 THEN LSPAN ELSE 2 * LSPAN
           G == B \div N
<1>1. g \in Nat \ {0} /\ B = g * (2 * LSPAN)
  <2>1. 2 * LSPAN \in Nat \ {0}
    OBVIOUS
  <2> DEFINE z == 2 * LSPAN
  <2>2. z \in Nat \ {0} /\ B % z = 0
    BY <2>1
  <2> HIDE DEF z
  <2>3. B = (B \div z) * z /\ B \div z \in Nat /\ B \div z > 0
    BY <2>2, Exact
  <2> QED BY <2>3 DEF z
<1> HIDE DEF g
<1>2. h = 2 * g /\ B = (2 * g) * LSPAN
  <2>1. B = (2 * g) * LSPAN + 0
    BY <1>1
  <2>2. ((2 * g) * LSPAN + 0) \div LSPAN = 2 * g
    <3>1. 2 * g \in Nat /\ 0 \in 0..(LSPAN - 1) /\ LSPAN \in Nat \ {0}
      BY <1>1
    <3> DEFINE x == 2 * g
               z == 0
    <3> HIDE DEF x, z
    <3>2. (x * LSPAN + z) \div LSPAN = x
      BY <3>1, Split DEF x, z
    <3> QED BY <3>2 DEF x, z
  <2> QED BY <2>1, <2>2
<1>3. N \in Nat \ {0} /\ G \in Nat \ {0} /\ B = G * N
  <2>1. CASE im = 0
    BY <1>1, <1>2, <2>1
  <2>2. CASE im # 0
    BY <1>1, <2>2 DEF g
  <2> QED BY <2>1, <2>2
<1>4. Group = G
  BY DEF Group
<1>5. Gathers = N - 1
  <2>1. B = N * G + 0 /\ 0 \in 0..(G - 1)
    <3> HIDE DEF G, N
    <3> QED BY <1>3
  <2> DEFINE z == 0
  <2> HIDE DEF z, G, N
  <2>2. (N * G + z) \div G = N
    BY <1>3, <2>1, Split DEF z
  <2> QED BY <1>3, <1>4, <2>1, <2>2 DEF z, Gathers
<1>6. Row(j) \in 0..(LSPAN - 1)
  <2> DEFINE q == j \div h
  <2>1. h \in Nat \ {0} /\ B = h * LSPAN
    BY <1>1, <1>2
  <2> HIDE DEF h
  <2>2. j = h * q + (j % h) /\ j % h \in 0..(h - 1) /\ q \in Nat
    BY <2>1
  <2> HIDE DEF q
  <2>3. q <= LSPAN - 1
    <3> SUFFICES ASSUME q >= LSPAN PROVE FALSE
      BY <2>2
    <3>1. LSPAN * h <= q * h
      BY <2>1, <2>2, Monotone
    <3>2. LSPAN * h = B /\ q * h = h * q /\ h * q \in Int
      BY <2>1, <2>2
    <3> QED BY <2>2, <3>1, <3>2
  <2> QED BY <2>2, <2>3 DEF Row, h, q
<1>7. \A i \in (Row(j) * B)..((Row(j) + 1) * B - 1) : i \in 0..(LSPAN * B - 1)
  <2> DEFINE x == Row(j)
  <2> HIDE DEF x
  <2>1. x \in Nat /\ x + 1 \in Int /\ x + 1 <= LSPAN
    BY <1>6 DEF x
  <2>2. (x + 1) * B <= LSPAN * B /\ x * B \in Nat /\ (x + 1) * B \in Int /\ LSPAN * B \in Int
    BY <2>1, Monotone
  <2> DEFINE s == x * B
             e == (x + 1) * B
             t == LSPAN * B
  <2> HIDE DEF s, e, t
  <2>3. \A i \in s..(e - 1) : i \in 0..(t - 1)
    BY <2>2 DEF s, e, t
  <2> QED BY <2>3 DEF s, e, t, x
<1>8. ASSUME NEW k \in 0..Gathers
      PROVE  ReoAt(j, k) \in 0..(4 * B - 1) /\ ReoAt(j, k) \in 0..(LSPAN * B - 1)
  <2> HIDE DEF G, N
  <2>1. j % G \in 0..(G - 1)
    BY <1>3
  <2> DEFINE a == j % G
             z == k * G
  <2>2. z \in Nat /\ z + G <= B
    <3>1. k \in Nat /\ k + 1 <= N
      BY <1>3, <1>5, <1>8
    <3>2. (k + 1) * G <= N * G /\ (k + 1) * G = z + G /\ z \in Nat /\ N * G = G * N
      BY <1>3, <3>1, Monotone
    <3> QED BY <1>3, <3>2
  <2> HIDE DEF a, z
  <2>3. a + z \in 0..(B - 1)
    BY <1>3, <2>1, <2>2 DEF a
  <2>4. Slot(j) \in 0..3
    <3>1. Part(j) \in 0..1
      <4>1. j \div G \in Nat
        BY <1>3
      <4>2. (j \div G) % 2 \in 0..1
        BY <4>1
      <4> QED BY <1>4, <4>2 DEF Part
    <3>2. Row(j) % 2 \in 0..1
      BY <1>6
    <3> QED BY <3>1, <3>2 DEF Slot
  <2> DEFINE s == Slot(j)
  <2> HIDE DEF s
  <2>5. (s + 1) * B <= 4 * B /\ 4 * B <= LSPAN * B /\ s * B \in Nat /\ (s + 1) * B = s * B + B /\ LSPAN * B \in Int
    <3>1. s \in Nat /\ s + 1 <= 4
      BY <2>4 DEF s
    <3>2. (s + 1) * B <= 4 * B
      BY <3>1, Monotone
    <3>3. 4 * B <= LSPAN * B
      BY Monotone
    <3> QED BY <3>1, <3>2, <3>3
  <2>6. ReoAt(j, k) = s * B + a + z
    BY <1>4 DEF ReoAt, s, a, z
  <2> DEFINE e == s * B
             t == LSPAN * B
  <2> HIDE DEF e, t
  <2>7. e \in Nat /\ t \in Int /\ e + B <= 4 * B /\ 4 * B <= t
    BY <2>5 DEF e, t
  <2>8. e + (a + z) \in 0..(4 * B - 1) /\ e + (a + z) \in 0..(t - 1)
    BY <2>3, <2>7
  <2>9. e + a + z = e + (a + z)
    BY <2>1, <2>2, <2>7 DEF a
  <2> QED BY <2>6, <2>8, <2>9 DEF e, t
<1> QED BY <1>6, <1>7, <1>8

(* A number of a slot: its place in the slot, and in the array. *)
LEMMA SlotPlace ==
  ASSUME NEW B \in Nat \ {0}, NEW n \in Nat, NEW s \in 0..(n - 1), NEW j \in 0..(B - 1)
  PROVE  s * B + j \in 0..(n * B - 1) /\ (s * B + j) % B = j /\ (s * B + j) \div B = s
<1>1. s \in Nat /\ s + 1 \in Int /\ s + 1 <= n
  OBVIOUS
<1>2. (s * B + j) % B = j /\ (s * B + j) \div B = s /\ s * B \in Nat
  BY <1>1, Split
<1>3. (s + 1) * B <= n * B /\ n * B \in Int /\ (s + 1) * B = s * B + B
  BY <1>1, Monotone
<1> DEFINE z == s * B
           t == n * B
<1>4. z \in Nat /\ t \in Int /\ z + B <= t
  BY <1>2, <1>3
<1> HIDE DEF z, t
<1>5. z + j \in 0..(t - 1)
  BY <1>4
<1> QED BY <1>2, <1>5 DEF z, t

(* The parts of shared memory in the ileg_ kernels. *)
LEMMA IlegAccess ==
  ASSUME NEW J, NEW M, IlegOK(J, M), NEW b \in Nat, NEW w, NEW i
  PROVE  /\ b = 0 => "ak" \in WrittenIn(J, b)
         /\ b = 0 /\ (i % Shape[J.kern].threads) \div Shape[J.kern].warp = w => MayWrite(J, b, w, <<"ak", i>>)
         /\ b > Base(J) /\ (b - Base(J)) % 2 = 1 /\ (i - 2) \div Shape[J.kern].warp = w
              => MayWrite(J, b, w, <<"ak", i>>)
         /\ (i % Shape[J.kern].threads) \div Shape[J.kern].warp = w =>
              /\ b >= Base(J) /\ (b - Base(J)) % 2 = 0 => MayWrite(J, b, w, <<"yl", i>>)
              /\ J.kern = "ileg_high" /\ b = 1 => MayWrite(J, b, w, <<"reo", i>>)
              /\ J.kern # "ileg_high" /\ b \in {0, 2} => MayWrite(J, b, w, <<"yl", i>>)
         /\ b >= Base(J) /\ (b - Base(J)) % 2 = 0 => MayRead(J, b, w, <<"ak", i>>)
         /\ b > Base(J) /\ (b - Base(J)) % 2 = 1 =>
              MayRead(J, b, w, <<"yl", i>>) /\ MayRead(J, b, w, <<"reo", i>>)
         /\ J.kern = "ileg_high" /\ b = 1 => MayRead(J, b, w, <<"ak", i>>)
         /\ J.kern # "ileg_high" /\ b % 2 = 1 /\ b < 2 * J.fields =>
              MayRead(J, b, w, <<"yl", i>>) /\ MayRead(J, b, w, <<"ak", i>>)
<1>1. /\ Base(J) \in Nat \ {0} /\ J.fields \in 1..2 /\ J.kern \in Ileg
      /\ J.kern = "ileg_high" => Base(J) = 1
      /\ J.kern # "ileg_high" => Base(J) = 2 * J.fields
  BY BaseFacts DEF IlegOK
<1>2. J.kern \notin Transpose /\ J.kern # "leg_high"
  BY <1>1 DEF Ileg, Transpose
<1> DEFINE D == Base(J)
<1>3. /\ b >= D /\ (b - D) % 2 = 0 => b % 2 = (IF J.kern = "ileg_high" THEN 1 ELSE 0) /\ b > 0
      /\ b > D /\ (b - D) % 2 = 1 => b % 2 = (IF J.kern = "ileg_high" THEN 0 ELSE 1) /\ b > 0
  <2>1. CASE J.kern = "ileg_high"
    BY <1>1, <2>1
  <2>2. CASE J.kern # "ileg_high"
    BY <1>1, <2>2
  <2> QED BY <2>1, <2>2
<1>4. \A a : a # "ak" \/ b = 0 => Owner(J, a, i, b) = (i % Shape[J.kern].threads) \div Shape[J.kern].warp
  BY <1>2 DEF Owner
<1>5. b > 0 => Owner(J, "ak", i, b) = (i - 2) \div Shape[J.kern].warp
  BY <1>1, <1>2 DEF Owner
<1>6. CASE J.kern = "ileg_high"
  <2>1. WrittenIn(J, b) = IF b % 2 = 1 THEN {"yl", "reo"} ELSE {"ak"}
    BY <1>2, <1>6 DEF WrittenIn
  <2>2. b = 0 => b % 2 = 0
    OBVIOUS
  <2>3. b = 1 => b % 2 = 1
    OBVIOUS
  <2> QED BY <1>3, <1>4, <1>5, <1>6, <2>1, <2>2, <2>3 DEF MayWrite, MayRead
<1>7. CASE J.kern # "ileg_high"
  <2>1. WrittenIn(J, b) = IF b = 0 THEN {"yl", "ak"} ELSE IF b % 2 = 0 THEN {"yl"}
                          ELSE IF b > 2 * J.fields THEN {"ak"} ELSE {}
    BY <1>1, <1>2, <1>7 DEF WrittenIn
  <2>2. b = 2 => b % 2 = 0
    OBVIOUS
  <2>3. b < 2 * J.fields => ~(b > 2 * J.fields)
    BY <1>1
  <2>4. b > D => b > 2 * J.fields
    BY <1>1, <1>7
  <2>5. b % 2 = 1 => b # 0
    OBVIOUS
  <2> QED BY <1>3, <1>4, <1>5, <1>7, <2>1, <2>2, <2>3, <2>4, <2>5 DEF MayWrite, MayRead
<1> QED BY <1>6, <1>7

(* The steps of the ileg_ kernels keep the invariant. *)
LEMMA IlegKeeps ==
  ASSUME IInv, NEW w \in Warps,
         IlegLoad(w) \/ IlegField(w) \/ IlegGather(w) \/ IlegStart(w) \/ IlegFill(w) \/ IlegSum(w)
  PROVE  IInv'
<1> DEFINE B == BLOCKSIZE
           b == bar[w]
           r == regs[w]
           D == Base(job)
<1>1. kern \in Ileg
  <2>1. IlegLoad(w) => kern \in Ileg
    BY DEF IlegLoad
  <2>2. IlegField(w) => kern \in Ileg
    BY DEF IlegField
  <2>3. IlegGather(w) => kern \in Ileg
    BY DEF IlegGather
  <2>4. IlegStart(w) => kern \in Ileg
    BY DEF IlegStart
  <2>5. IlegFill(w) => kern \in Ileg
    BY DEF IlegFill
  <2>6. IlegSum(w) => kern \in Ileg
    BY DEF IlegSum
  <2> QED BY <2>1, <2>2, <2>3, <2>4, <2>5, <2>6
<1>2. /\ IlegOK(job, m) /\ llim = job.llim /\ llim <= LMAX + 1 /\ LMAX \in Nat /\ job \in Jobs
      /\ AlRow \in Nat /\ (Own <=> job.kern = "ileg_high")
      /\ DOMAIN r = Names /\ b \in Nat
      /\ r.l \in m..(LMAX + 2 + LSPAN) /\ r.al \in Nat
      /\ IlegAt(job, m, r.l, r.f, pc[w], b)
  BY <1>1, IlegHave
<1>3. /\ BlockOK(B, WARPSZE) /\ B % (2 * LSPAN) = 0 /\ B >= 2 * LSPAN + 2
      /\ B = Shape[job.kern].threads /\ WARPSZE = Shape[job.kern].warp
      /\ \A j \in Lanes(w) : j \in 0..(B - 1) /\ j \div WARPSZE = w /\ j % B = j
      /\ Indices("ak") = 0..(2 * LSPAN + 1) /\ Indices("yl") = 0..(LSPAN * B - 1)
      /\ Own => Indices("reo") = 0..(4 * B - 1)
  BY <1>1, IlegHave
<1>4. {"load", "field", "gather", "start", "fill", "sum", "done"} \subseteq Steps
  BY DEF Steps
<1>5. B \in Nat \ {0} /\ LSPAN \in Nat /\ LSPAN >= 4 /\ m \in Nat /\ llim \in Nat /\ m <= llim /\ job.fields \in 1..2
  BY <1>2, <1>3 DEF BlockOK, IlegOK
<1>6. D \in Nat \ {0} /\ (Own => D = 1 /\ job.fields = 1) /\ (~Own => D = 2 * job.fields)
  BY <1>2, BaseFacts DEF IlegOK
<1>7. PutsOK(w, Nothing) /\ ReadsOK(w, {})
  BY DEF PutsOK, Nothing, ReadsOK
<1>8. After(bar[w], FALSE) = b /\ After(bar[w], TRUE) = b + 1
  BY DEF After
\* Slots of numbers of the warp.
<1>10. ASSUME NEW n \in Nat, NEW s \in 0..(n - 1), NEW j \in Lanes(w)
       PROVE  s * B + j \in 0..(n * B - 1) /\ ((s * B + j) % B) \div WARPSZE = w
  <2>1. j \in 0..(B - 1) /\ j \div WARPSZE = w
    BY <1>3
  <2> QED BY <1>5, <2>1, SlotPlace
<1>11. CASE IlegLoad(w)
  <2> DEFINE I == Lanes(w) \cap 0..(2 * LSPAN + 1)
             f == [j \in I |-> Al(AlRow + j)]
             puts == [ak |-> f]
  <2>1. pc[w] = "load" /\ Step(w, r, puts, {}, "load" \in Barriers, "field")
    BY <1>11 DEF IlegLoad
  <2>2. b = 0 /\ r.f = 0 /\ r.l = m
    BY <1>2, <2>1 DEF IlegAt
  <2>3. PutsOK(w, puts)
    <3>1. \A i \in I : MayWrite(job, b, w, <<"ak", i>>)
      BY <1>2, <1>3, <2>2, IlegAccess
    <3>2. \A i \in I : Inside(<<"ak", i>>)
      BY <1>3 DEF Inside
    <3>3. DOMAIN puts = {"ak"} /\ DOMAIN puts["ak"] = I
      OBVIOUS
    <3> HIDE DEF puts, I
    <3> QED BY <3>1, <3>2, <3>3 DEF PutsOK
  <2> HIDE DEF puts
  <2>4. CASE Own
    <3>1. Step(w, r, puts, {}, TRUE, "field")
      <4>1. ("load" \in Barriers) = TRUE
        BY <2>4 DEF Barriers
      <4> QED BY <2>1, <4>1
    <3>2. IlegAt(job, m, r.l, r.f, "field", 1)
      BY <1>2, <1>5, <2>2, <2>4 DEF IlegAt
    <3>3. WarpOK(job, r, "field", 1)
      <4>1. 1 <= D + 2 /\ 1 \in Nat
        BY <1>6
      <4> QED BY <1>1, <1>2, <1>4, <3>2, <4>1, IlegWarpOK
    <3>4. After(bar[w], TRUE) = 1
      BY <2>2 DEF After
    <3> QED BY <1>7, <2>3, <3>1, <3>3, <3>4, StepKeeps
  <2>5. CASE ~Own
    <3>1. Step(w, r, puts, {}, FALSE, "field")
      <4>1. ("load" \in Barriers) = FALSE
        BY <2>5 DEF Barriers
      <4> QED BY <2>1, <4>1
    <3>2. IlegAt(job, m, r.l, r.f, "field", b)
      BY <1>2, <1>5, <2>2, <2>5 DEF IlegAt
    <3>3. WarpOK(job, r, "field", b)
      <4>1. b <= D + 2
        BY <1>6, <2>2
      <4> QED BY <1>1, <1>2, <1>4, <3>2, <4>1, IlegWarpOK
    <3> QED BY <1>7, <1>8, <2>3, <3>1, <3>3, StepKeeps
  <2> QED BY <2>4, <2>5
<1>12. CASE IlegField(w)
  <2> DEFINE S == 0..(IF im = 0 THEN 1 ELSE 3)
             I == UNION {{s * BLOCKSIZE + j : s \in S} : j \in Lanes(w)}
             a == [i \in I |-> Slots(r.f, i % BLOCKSIZE)[(i \div BLOCKSIZE) + 1]]
             puts == IF Own THEN [reo |-> a] ELSE [yl |-> a]
             next == IF Own THEN "start" ELSE "gather"
  <2>1. pc[w] = "field" /\ Step(w, r, puts, {}, "field" \in Barriers, next)
    BY <1>12 DEF IlegField
  <2>2. b = (IF Own THEN 1 ELSE 2 * r.f) /\ r.l = m /\ r.f \in 0..(job.fields - 1)
    BY <1>2, <2>1 DEF IlegAt
  <2>3. \A i \in I : i \in 0..(4 * B - 1) /\ i \in 0..(LSPAN * B - 1) /\ (i % B) \div WARPSZE = w
    <3> TAKE i \in I
    <3>1. PICK j \in Lanes(w), s \in S : i = s * B + j
      OBVIOUS
    <3>2. s \in 0..(4 - 1) /\ s \in 0..(LSPAN - 1) /\ 4 \in Nat
      BY <1>5
    <3> DEFINE n == 4
    <3>3. n \in Nat /\ s \in 0..(n - 1)
      BY <3>2
    <3> HIDE DEF S, I, n, B
    <3>4. i \in 0..(n * B - 1) /\ (i % B) \div WARPSZE = w
      BY <1>10, <3>1, <3>3
    <3>5. i \in 0..(LSPAN * B - 1)
      BY <1>5, <1>10, <3>1, <3>2
    <3> QED BY <3>4, <3>5 DEF n
  <2> HIDE DEF S
  <2>4. CASE Own
    <3>1. Step(w, r, [reo |-> a], {}, FALSE, "start")
      <4>1. ("field" \in Barriers) = FALSE
        BY <2>4 DEF Barriers
      <4> QED BY <2>1, <2>4, <4>1
    <3>2. PutsOK(w, [reo |-> a])
      <4> DEFINE p == [reo |-> a]
      <4>1. DOMAIN p = {"reo"} /\ DOMAIN p["reo"] = I
        OBVIOUS
      <4> HIDE DEF p, a, I
      <4>2. \A i \in I : MayWrite(job, b, w, <<"reo", i>>)
        BY <1>2, <1>3, <2>2, <2>3, <2>4, IlegAccess
      <4>3. \A i \in I : Inside(<<"reo", i>>)
        BY <1>3, <2>3, <2>4 DEF Inside
      <4> QED BY <4>1, <4>2, <4>3 DEF PutsOK, p
    <3>3. IlegAt(job, m, r.l, r.f, "start", b)
      BY <1>2, <2>2, <2>4 DEF IlegAt
    <3>4. WarpOK(job, r, "start", b)
      <4>1. b <= D + 2
        BY <1>6, <2>2, <2>4
      <4> QED BY <1>1, <1>2, <1>4, <3>3, <4>1, IlegWarpOK
    <3> DEFINE p == [reo |-> a]
    <3> HIDE DEF p
    <3> QED BY <1>7, <1>8, <3>1, <3>2, <3>4, StepKeeps DEF p
  <2>5. CASE ~Own
    <3>1. Step(w, r, [yl |-> a], {}, TRUE, "gather")
      <4>1. ("field" \in Barriers) = TRUE
        BY <2>5 DEF Barriers
      <4> QED BY <2>1, <2>5, <4>1
    <3>2. PutsOK(w, [yl |-> a])
      <4> DEFINE p == [yl |-> a]
      <4>1. DOMAIN p = {"yl"} /\ DOMAIN p["yl"] = I
        OBVIOUS
      <4> HIDE DEF p, a, I
      <4>2. \A i \in I : MayWrite(job, b, w, <<"yl", i>>)
        <5>1. b \in {0, 2}
          BY <1>5, <2>2, <2>5
        <5> QED BY <1>2, <1>3, <2>3, <2>5, <5>1, IlegAccess
      <4>3. \A i \in I : Inside(<<"yl", i>>)
        BY <1>3, <2>3 DEF Inside
      <4> QED BY <4>1, <4>2, <4>3 DEF PutsOK, p
    <3>3. IlegAt(job, m, r.l, r.f, "gather", b + 1)
      BY <1>2, <2>2, <2>5 DEF IlegAt
    <3>4. WarpOK(job, r, "gather", b + 1)
      <4>1. b + 1 <= D + 2 /\ b + 1 \in Nat
        BY <1>2, <1>5, <1>6, <2>2, <2>5
      <4> QED BY <1>1, <1>2, <1>4, <3>3, <4>1, IlegWarpOK
    <3> DEFINE p == [yl |-> a]
    <3> HIDE DEF p
    <3> QED BY <1>7, <1>8, <3>1, <3>2, <3>4, StepKeeps DEF p
  <2> QED BY <2>4, <2>5
<1>13. CASE IlegGather(w)
  <2> DEFINE mine == [j \in Lanes(w) |-> [k \in 0..Gathers |-> Read("yl", ReoAt(j, k))]]
             last == r.f = job.fields - 1
             reo == (r.f :> mine) @@ r.reo
             f2 == IF last THEN 0 ELSE r.f + 1
             new == [r EXCEPT !.reo = reo, !.f = f2]
             reads == Cells("yl", {ReoAt(j, k) : j \in Lanes(w), k \in 0..Gathers})
             next == IF last THEN "start" ELSE "field"
  <2>1. pc[w] = "gather" /\ Step(w, new, Nothing, reads, ~last /\ "gather" \in Barriers, next)
    BY <1>13 DEF IlegGather
  <2>2. ~Own /\ b = 2 * r.f + 1 /\ r.l = m /\ r.f \in 0..(job.fields - 1)
    BY <1>2, <2>1 DEF IlegAt
  <2> HIDE DEF mine, reo, f2
  <2>3. DOMAIN new = Names /\ new.l = r.l /\ new.al = r.al /\ new.f = f2
    BY <1>2 DEF Names
  <2> HIDE DEF new
  <2>4. ReadsOK(w, reads)
    <3>1. b % 2 = 1 /\ b < 2 * job.fields
      BY <1>5, <2>2
    <3>2. \A i : MayRead(job, b, w, <<"yl", i>>)
      BY <1>2, <2>2, <3>1, IlegAccess
    <3>3. \A j \in Lanes(w) : \A k \in 0..Gathers : Inside(<<"yl", ReoAt(j, k)>>)
      BY <1>3, <1>5, IlegPlaces DEF Inside
    <3> QED BY <3>2, <3>3 DEF ReadsOK, Cells
  <2> HIDE DEF reads
  <2>5. CASE last
    <3>1. Step(w, new, Nothing, reads, FALSE, "start")
      <4>1. (~last /\ "gather" \in Barriers) = FALSE
        BY <2>5
      <4> QED BY <2>1, <2>5, <4>1
    <3>2. f2 = 0 /\ b = 2 * job.fields - 1
      BY <1>5, <2>2, <2>5 DEF f2
    <3>3. IlegAt(job, m, new.l, new.f, "start", b)
      BY <1>2, <1>5, <2>2, <2>3, <3>2 DEF IlegAt
    <3>4. WarpOK(job, new, "start", b)
      <4>1. b <= D + 2
        BY <1>5, <1>6, <2>2, <3>2
      <4> QED BY <1>1, <1>2, <1>4, <2>3, <3>3, <4>1, IlegWarpOK
    <3> QED BY <1>7, <1>8, <2>4, <3>1, <3>4, StepKeeps
  <2>6. CASE ~last
    <3>1. Step(w, new, Nothing, reads, TRUE, "field")
      <4>1. (~last /\ "gather" \in Barriers) = TRUE
        BY <2>2, <2>6 DEF Barriers
      <4> QED BY <2>1, <2>6, <4>1
    <3>2. f2 = r.f + 1 /\ f2 \in 0..(job.fields - 1) /\ b + 1 = 2 * f2
      BY <1>5, <2>2, <2>6 DEF f2
    <3>3. IlegAt(job, m, new.l, new.f, "field", b + 1)
      BY <1>2, <2>2, <2>3, <3>2 DEF IlegAt
    <3>4. WarpOK(job, new, "field", b + 1)
      <4>1. b + 1 <= D + 2 /\ b + 1 \in Nat
        BY <1>2, <1>5, <1>6, <2>2, <3>2
      <4> QED BY <1>1, <1>2, <1>4, <2>3, <3>3, <4>1, IlegWarpOK
    <3> QED BY <1>7, <1>8, <2>4, <3>1, <3>4, StepKeeps
  <2> QED BY <2>5, <2>6
<1>14. CASE IlegStart(w)
  <2> DEFINE y0 == First(Read("ak", 0))
             y1 == IF y0 # Wrong /\ Read("ak", 1) = Al(AlmPair(im, m + 1) + 1) THEN m + 1 ELSE Wrong
             New(x) == [r EXCEPT !.p = y0, !.q = y1, !.al = @ + 2, !.first = m + 2 * x]
             reads == Cells("ak", 0..1)
  <2>1. PICK x \in 0..(IF Own /\ im > 0 THEN MaxSkip ELSE 0) :
          pc[w] = "start" /\ Step(w, New(x), Nothing, reads, "start" \in Barriers, "fill")
    BY <1>14 DEF IlegStart
  <2> HIDE DEF y0, y1
  <2> DEFINE first == m + 2 * x
             al == r.al + 2
             new == [r EXCEPT !.p = y0, !.q = y1, !.al = al, !.first = first]
  <2>2. Step(w, new, Nothing, reads, "start" \in Barriers, "fill")
    BY <2>1
  <2> HIDE DEF first, al
  <2>3. DOMAIN new = Names /\ new.l = r.l /\ new.f = r.f /\ new.al = al
    BY <1>2 DEF Names
  <2> HIDE DEF new
  <2>4. al \in Nat
    BY <1>2 DEF al
  <2>5. IlegAt(job, m, r.l, r.f, "start", b)
    BY <1>2, <2>1
  <2>6. /\ Own => b = 1 /\ IlegAt(job, m, r.l, r.f, "fill", b)
        /\ ~Own => b = 2 * job.fields - 1 /\ b + 1 = D /\ IlegAt(job, m, r.l, r.f, "fill", b + 1)
    BY <1>2, <2>5, IlegStartMath
  <2>7. ReadsOK(w, reads)
    <3>1. \A i : MayRead(job, b, w, <<"ak", i>>)
      <4>1. CASE Own
        BY <1>2, <2>6, <4>1, IlegAccess
      <4>2. CASE ~Own
        <5>1. b % 2 = 1 /\ b < 2 * job.fields
          BY <1>5, <2>6, <4>2
        <5> QED BY <1>2, <4>2, <5>1, IlegAccess
      <4> QED BY <4>1, <4>2
    <3>2. \A i \in 0..1 : Inside(<<"ak", i>>)
      BY <1>3, <1>5 DEF Inside
    <3> QED BY <3>1, <3>2 DEF ReadsOK, Cells
  <2> HIDE DEF reads
  <2>8. CASE Own
    <3>1. Step(w, new, Nothing, reads, FALSE, "fill")
      <4>1. ("start" \in Barriers) = FALSE
        BY <2>8 DEF Barriers
      <4> QED BY <2>2, <4>1
    <3>2. WarpOK(job, new, "fill", b)
      <4>1. b <= D + 2
        BY <1>6, <2>6, <2>8
      <4> QED BY <1>1, <1>2, <1>4, <2>3, <2>4, <2>6, <2>8, <4>1, IlegWarpOK
    <3> QED BY <1>7, <1>8, <2>7, <3>1, <3>2, StepKeeps
  <2>9. CASE ~Own
    <3>1. Step(w, new, Nothing, reads, TRUE, "fill")
      <4>1. ("start" \in Barriers) = TRUE
        BY <2>9 DEF Barriers
      <4> QED BY <2>2, <4>1
    <3>2. WarpOK(job, new, "fill", b + 1)
      <4>1. b + 1 <= D + 2 /\ b + 1 \in Nat
        BY <1>2, <1>6, <2>6, <2>9
      <4> QED BY <1>1, <1>2, <1>4, <2>3, <2>4, <2>6, <2>9, <4>1, IlegWarpOK
    <3> QED BY <1>7, <1>8, <2>7, <3>1, <3>2, StepKeeps
  <2> QED BY <2>8, <2>9
<1>15. CASE IlegFill(w)
  <2> DEFINE y == Ladder(r, PairsAt(2, LSPAN), LSPAN)
             Y(k, j) == IF r.l + k - (k % 2) < r.first THEN Null ELSE <<"y", y[k], It(j)>>
             I == {k * BLOCKSIZE + j : k \in 0..(LSPAN - 1), j \in Lanes(w)}
             a == [i \in I |-> Y(i \div BLOCKSIZE, i % BLOCKSIZE)]
             puts == [yl |-> a]
             p == y[LSPAN]
             q == y[LSPAN + 1]
             al == r.al + 2 * LSPAN
             new == [r EXCEPT !.p = p, !.q = q, !.al = al]
             reads == Cells("ak", 2..(2 * LSPAN + 1))
  <2>1. pc[w] = "fill" /\ Step(w, new, puts, reads, "fill" \in Barriers, "sum")
    BY <1>15 DEF IlegFill
  <2>2. Step(w, new, puts, reads, TRUE, "sum")
    <3>1. ("fill" \in Barriers) = TRUE
      BY DEF Barriers
    <3> HIDE DEF new, puts, reads
    <3> QED BY <2>1, <3>1
  <2> HIDE DEF y, p, q, al
  <2>3. DOMAIN new = Names /\ new.l = r.l /\ new.f = r.f /\ new.al = al
    BY <1>2 DEF Names
  <2> HIDE DEF new
  <2>4. al \in Nat
    BY <1>2, <1>5 DEF al
  <2>5. IlegAt(job, m, r.l, r.f, "fill", b)
    BY <1>2, <2>1
  <2>6. /\ b >= D /\ (b - D) % 2 = 0
        /\ IlegAt(job, m, r.l, r.f, "sum", b + 1)
        /\ IlegL(m, ((b + 1) - D - 1) \div 2) <= llim
    BY <1>2, <2>5, IlegFillMath
  <2>7. PutsOK(w, puts)
    <3>1. DOMAIN puts = {"yl"} /\ DOMAIN puts["yl"] = I
      OBVIOUS
    <3>2. \A i \in I : i \in 0..(LSPAN * B - 1) /\ (i % B) \div WARPSZE = w
      BY <1>5, <1>10
    <3> HIDE DEF puts, I
    <3>3. \A i \in I : MayWrite(job, b, w, <<"yl", i>>)
      BY <1>2, <1>3, <2>6, <3>2, IlegAccess
    <3>4. \A i \in I : Inside(<<"yl", i>>)
      BY <1>3, <3>2 DEF Inside
    <3> QED BY <3>1, <3>3, <3>4 DEF PutsOK
  <2>8. ReadsOK(w, reads)
    <3>1. \A i : MayRead(job, b, w, <<"ak", i>>)
      BY <1>2, <2>6, IlegAccess
    <3>2. \A i \in 2..(2 * LSPAN + 1) : Inside(<<"ak", i>>)
      BY <1>3, <1>5 DEF Inside
    <3> QED BY <3>1, <3>2 DEF ReadsOK, Cells
  <2>9. WarpOK(job, new, "sum", b + 1)
    <3>1. b + 1 \in Nat
      BY <1>2
    <3> QED BY <1>1, <1>2, <1>4, <2>3, <2>4, <2>6, <3>1, IlegWarpOK
  <2> HIDE DEF puts, reads
  <2> QED BY <1>8, <2>2, <2>7, <2>8, <2>9, StepKeeps
<1>16. CASE IlegSum(w)
  <2> DEFINE I == {j + 2 : j \in Lanes(w) \cap 0..(2 * LSPAN - 1)}
             a == [i \in I |-> Al(r.al + i - 2)]
             puts == [ak |-> a]
             rows == UNION {(Row(j) * BLOCKSIZE)..((Row(j) + 1) * BLOCKSIZE - 1) : j \in Lanes(w)}
             own == IF Own THEN Cells("reo", {ReoAt(j, k) : j \in Lanes(w), k \in 0..Gathers}) ELSE {}
             reads == Cells("yl", rows) \cup own
             l2 == r.l + LSPAN
             new == [r EXCEPT !.l = l2]
             next == IF l2 <= llim THEN "fill" ELSE "done"
  <2>1. pc[w] = "sum" /\ Step(w, new, puts, reads, "sum" \in Barriers, next)
    BY <1>16 DEF IlegSum
  <2>2. Step(w, new, puts, reads, TRUE, next)
    <3>1. ("sum" \in Barriers) = TRUE
      BY DEF Barriers
    <3> HIDE DEF new, puts, reads, next
    <3> QED BY <2>1, <3>1
  <2> HIDE DEF l2
  <2>3. DOMAIN new = Names /\ new.l = l2 /\ new.f = r.f /\ new.al = r.al
    BY <1>2 DEF Names
  <2> HIDE DEF new
  <2>4. IlegAt(job, m, r.l, r.f, "sum", b)
    BY <1>2, <2>1
  <2>5. /\ b > D /\ (b - D) % 2 = 1 /\ r.l \in Nat /\ r.l <= llim
        /\ l2 <= llim => IlegAt(job, m, l2, r.f, "fill", b + 1)
        /\ ~(l2 <= llim) => IlegAt(job, m, l2, r.f, "done", b + 1)
        /\ IlegL(m, ((b + 1) - D - 1) \div 2) <= llim
    BY <1>2, <2>4, IlegSumMath DEF l2
  <2>6. PutsOK(w, puts)
    <3>1. DOMAIN puts = {"ak"} /\ DOMAIN puts["ak"] = I
      OBVIOUS
    <3>2. \A i \in I : i \in 0..(2 * LSPAN + 1) /\ (i - 2) \div WARPSZE = w
      <4> TAKE i \in I
      <4>1. PICK j \in Lanes(w) : i = j + 2 /\ j \in 0..(2 * LSPAN - 1)
        OBVIOUS
      <4>2. j \in 0..(B - 1) /\ j \div WARPSZE = w
        BY <1>3
      <4>3. i - 2 = j /\ i \in 0..(2 * LSPAN + 1)
        BY <1>5, <4>1
      <4> QED BY <4>2, <4>3
    <3> HIDE DEF puts, I
    <3>3. \A i \in I : MayWrite(job, b, w, <<"ak", i>>)
      BY <1>2, <1>3, <2>5, <3>2, IlegAccess
    <3>4. \A i \in I : Inside(<<"ak", i>>)
      BY <1>3, <3>2 DEF Inside
    <3> QED BY <3>1, <3>3, <3>4 DEF PutsOK
  <2>7. ReadsOK(w, reads)
    <3>1. (\A i : MayRead(job, b, w, <<"yl", i>>)) /\ (\A i : MayRead(job, b, w, <<"reo", i>>))
      BY <1>2, <2>5, IlegAccess
    <3>2. \A i \in rows : Inside(<<"yl", i>>)
      <4> TAKE i \in rows
      <4>1. PICK j \in Lanes(w) : i \in (Row(j) * B)..((Row(j) + 1) * B - 1)
        OBVIOUS
      <4>2. i \in 0..(LSPAN * B - 1)
        BY <1>3, <1>5, <4>1, IlegPlaces
      <4> QED BY <1>3, <4>2 DEF Inside
    <3>3. Own => \A j \in Lanes(w) : \A k \in 0..Gathers : Inside(<<"reo", ReoAt(j, k)>>)
      BY <1>3, <1>5, IlegPlaces DEF Inside
    <3> HIDE DEF rows
    <3>4. \A c \in Cells("yl", rows) : MayRead(job, b, w, c) /\ Inside(c)
      BY <3>1, <3>2 DEF Cells
    <3>5. \A c \in own : MayRead(job, b, w, c) /\ Inside(c)
      <4> SUFFICES ASSUME NEW c \in own PROVE MayRead(job, b, w, c) /\ Inside(c)
        OBVIOUS
      <4>1. Own /\ c \in Cells("reo", {ReoAt(j, k) : j \in Lanes(w), k \in 0..Gathers})
        OBVIOUS
      <4>2. PICK j \in Lanes(w), k \in 0..Gathers : c = <<"reo", ReoAt(j, k)>>
        BY <4>1 DEF Cells
      <4> DEFINE z == ReoAt(j, k)
      <4>3. Inside(<<"reo", z>>)
        BY <3>3, <4>1
      <4> HIDE DEF z
      <4>4. MayRead(job, b, w, <<"reo", z>>)
        BY <3>1
      <4> QED BY <4>2, <4>3, <4>4 DEF z
    <3> QED BY <3>4, <3>5 DEF ReadsOK
  <2>8. l2 \in m..(LMAX + 2 + LSPAN) /\ b + 1 \in Nat
    <3> DEFINE l == r.l
    <3>1. l \in m..(LMAX + 2 + LSPAN) /\ l <= llim /\ l2 = l + LSPAN
      BY <1>2, <2>5 DEF l2
    <3> HIDE DEF l
    <3> QED BY <1>2, <1>5, <3>1
  <2> HIDE DEF puts, reads
  <2>9. CASE l2 <= llim
    <3>1. WarpOK(job, new, "fill", b + 1)
      BY <1>1, <1>2, <1>4, <2>3, <2>5, <2>8, <2>9, IlegWarpOK
    <3> QED BY <1>8, <2>2, <2>6, <2>7, <2>9, <3>1, StepKeeps
  <2>10. CASE ~(l2 <= llim)
    <3>1. WarpOK(job, new, "done", b + 1)
      BY <1>1, <1>2, <1>4, <2>3, <2>5, <2>8, <2>10, IlegWarpOK
    <3> QED BY <1>8, <2>2, <2>6, <2>7, <2>10, <3>1, StepKeeps
  <2> QED BY <2>9, <2>10
<1> QED BY <1>11, <1>12, <1>13, <1>14, <1>15, <1>16

(***************************************************************************)
(* Conversions and transpositions                                          *)
(***************************************************************************)
LEMMA OnceWarpOK ==
  ASSUME job \in Jobs, kern \in Convert \cup Transpose, NEW r, DOMAIN r = Names, NEW p \in Steps, NEW b \in {0, 1},
         r.l \in m..(LMAX + 2 + LSPAN), r.al \in Nat, OnceAt(job, p, b)
  PROVE  WarpOK(job, r, p, b)
<1>1. kern = job.kern /\ llim = job.llim /\ m = job.im * MRES
  BY StateFacts
<1>2. Comes(job, b) /\ b \in Nat
  BY <1>1 DEF Comes
<1>3. kern \notin Leg /\ kern \notin Ileg
  BY DEF Leg, Ileg, Convert, Transpose
<1> QED BY <1>1, <1>2, <1>3 DEF WarpOK, Leg

(* What the invariant says of a warp of a kernel with one barrier. *)
LEMMA OnceHave ==
  ASSUME IInv, NEW w \in Warps, kern \in Convert \cup Transpose
  PROVE  /\ job \in Jobs /\ kern = job.kern /\ BlockOK(BLOCKSIZE, WARPSZE)
         /\ DOMAIN regs[w] = Names /\ regs[w].l \in m..(LMAX + 2 + LSPAN) /\ regs[w].al \in Nat
         /\ OnceAt(job, pc[w], bar[w]) /\ w \in 0..((BLOCKSIZE \div WARPSZE) - 1)
         /\ \A j \in Lanes(w) : j \in 0..(BLOCKSIZE - 1) /\ j \div WARPSZE = w /\ j % BLOCKSIZE = j
         /\ BLOCKSIZE = Shape[job.kern].threads /\ WARPSZE = Shape[job.kern].warp
<1>1. /\ job \in Jobs /\ bar[w] \in Nat /\ WarpOK(job, regs[w], pc[w], bar[w])
      /\ LaunchOK(job) /\ BlockOK(BLOCKSIZE, WARPSZE)
      /\ kern = job.kern /\ m = job.im * MRES
  BY WarpFacts
<1>2. BLOCKSIZE = Shape[job.kern].threads /\ WARPSZE = Shape[job.kern].warp
  BY <1>1 DEF BLOCKSIZE, WARPSZE
<1>3. /\ DOMAIN regs[w] = Names /\ regs[w].l \in m..(LMAX + 2 + LSPAN) /\ regs[w].al \in Nat
      /\ OnceAt(job, pc[w], bar[w])
  BY <1>1 DEF WarpOK
<1>4. \A j \in Lanes(w) : j \in 0..(BLOCKSIZE - 1) /\ j \div WARPSZE = w /\ j % BLOCKSIZE = j
  BY <1>1, StateFacts
<1>5. w \in 0..((BLOCKSIZE \div WARPSZE) - 1)
  BY DEF Warps
<1> QED BY <1>1, <1>2, <1>3, <1>4, <1>5

(* The steps of the conversions keep the invariant. *)
LEMMA ConvKeeps ==
  ASSUME IInv, NEW w \in Warps, ConvLoad(w) \/ ConvStore(w)
  PROVE  IInv'
<1> DEFINE B == BLOCKSIZE
           b == bar[w]
           r == regs[w]
<1>1. kern \in Convert
  <2>1. ConvLoad(w) => kern \in Convert
    BY DEF ConvLoad
  <2>2. ConvStore(w) => kern \in Convert
    BY DEF ConvStore
  <2> QED BY <2>1, <2>2
<1>2. /\ job \in Jobs /\ kern = job.kern /\ BlockOK(B, WARPSZE)
      /\ DOMAIN r = Names /\ r.l \in m..(LMAX + 2 + LSPAN) /\ r.al \in Nat
      /\ OnceAt(job, pc[w], b)
      /\ \A j \in Lanes(w) : j \in 0..(B - 1) /\ j \div WARPSZE = w /\ j % B = j
      /\ B = Shape[job.kern].threads /\ WARPSZE = Shape[job.kern].warp
  BY <1>1, OnceHave
<1>3. /\ job.kern \in Alternating /\ job.kern \in Convert
      /\ \A a \in {"M", "sl", "tl"} : Indices(a) = 0..(B - 1)
  BY <1>1, <1>2, Sizes DEF Alternating
<1>4. PutsOK(w, Nothing) /\ ReadsOK(w, {})
  BY DEF PutsOK, Nothing, ReadsOK
<1>5. {"convert", "done"} \subseteq Steps /\ {"M", "sl", "tl"} \subseteq Arrays
  BY DEF Steps, Arrays
<1>6. CASE ConvLoad(w)
  <2> DEFINE In(j, top, o) == IF Number(j) >= 0 /\ Number(j) < 2 * (top - m)
                              THEN <<"in", ConvRow + Number(j) + o>> ELSE Null
             M == [j \in Lanes(w) |-> In(j, llim + 1, 0)]
             x == [j \in Lanes(w) |-> IF ToScal THEN In(j, llim + 1, 0) ELSE In(j, llim + 2, Longer)]
             puts == [M |-> M, sl |-> x, tl |-> x]
  <2>1. pc[w] = "load" /\ Step(w, r, puts, {}, TRUE, "convert")
    BY <1>6 DEF ConvLoad
  <2>2. b = 0
    BY <1>2, <1>3, <2>1 DEF OnceAt
  <2>3. DOMAIN puts = {"M", "sl", "tl"} /\ \A a \in {"M", "sl", "tl"} : DOMAIN puts[a] = Lanes(w)
    OBVIOUS
  <2> HIDE DEF puts
  <2>4. PutsOK(w, puts)
    <3>1. \A j \in Lanes(w) : (j % Shape[job.kern].threads) \div Shape[job.kern].warp = w
      BY <1>2
    <3>2. b % 2 = 0
      BY <2>2
    <3>3. \A a \in {"M", "sl", "tl"} : \A j \in Lanes(w) : MayWrite(job, b, w, <<a, j>>)
      BY <1>3, <1>5, <3>1, <3>2, EvenWrite
    <3>4. \A a \in {"M", "sl", "tl"} : \A j \in Lanes(w) : Inside(<<a, j>>)
      BY <1>2, <1>3 DEF Inside
    <3> QED BY <2>3, <3>3, <3>4 DEF PutsOK
  <2>5. WarpOK(job, r, "convert", 1)
    <3>1. OnceAt(job, "convert", 1)
      BY <1>3 DEF OnceAt
    <3> QED BY <1>1, <1>2, <1>5, <3>1, OnceWarpOK
  <2>6. After(bar[w], TRUE) = 1
    BY <2>2 DEF After
  <2> QED BY <1>4, <2>1, <2>4, <2>5, <2>6, StepKeeps
<1>7. CASE ConvStore(w)
  <2> DEFINE J == Lanes(w) \cap 0..(BLOCKSIZE - 5)
             Of(j) == Cells("M", {2 * (j \div 2) + 1, 2 * (j \div 2) + 2}) \cup Cells("sl", {j, j + 4, Xor1(j + 2)})
                        \cup Cells("tl", {j, j + 4, Xor1(j + 2)})
             reads == UNION {Of(j) : j \in J}
  <2>1. pc[w] = "convert" /\ Step(w, r, Nothing, reads, FALSE, "done")
    BY <1>7 DEF ConvStore
  <2>2. b = 1
    BY <2>1, <1>2 DEF OnceAt
  <2>3. ReadsOK(w, reads)
    <3>1. \A c : MayRead(job, b, w, c)
      <4>1. b % 2 = 1
        BY <2>2
      <4> QED BY <1>3, <4>1, OddRead
    <3>2. ASSUME NEW j \in J
          PROVE  /\ {2 * (j \div 2) + 1, 2 * (j \div 2) + 2} \subseteq 0..(B - 1)
                 /\ {j, j + 4, Xor1(j + 2)} \subseteq 0..(B - 1)
      <4>1. j \in Nat /\ j <= B - 5 /\ B \in Nat
        <5>1. B \in Nat /\ j \in 0..(B - 5)
          BY <1>2 DEF BlockOK
        <5> HIDE DEF B
        <5> QED BY <5>1
      <4> HIDE DEF B, J
      <4>2. {2 * (j \div 2) + 1, 2 * (j \div 2) + 2} \subseteq 0..(B - 1)
        BY <4>1
      <4>3. Xor1(j + 2) \in 0..(B - 1)
        BY <4>1 DEF Xor1
      <4> QED BY <4>1, <4>2, <4>3
    <3>3. ASSUME NEW c \in reads PROVE Inside(c)
      <4>1. PICK j \in J : c \in Of(j)
        OBVIOUS
      <4>2. PICK a \in {"M", "sl", "tl"}, i \in 0..(B - 1) : c = <<a, i>>
        <5> HIDE DEF J, B
        <5> QED BY <3>2, <4>1 DEF Cells
      <4> QED BY <1>3, <4>2 DEF Inside
    <3> QED BY <3>1, <3>3 DEF ReadsOK
  <2>4. WarpOK(job, r, "done", 1)
    <3>1. OnceAt(job, "done", 1)
      BY DEF OnceAt
    <3> QED BY <1>1, <1>2, <1>5, <3>1, OnceWarpOK
  <2>5. After(bar[w], FALSE) = 1
    BY <2>2 DEF After
  <2> HIDE DEF reads
  <2> QED BY <1>4, <2>1, <2>3, <2>4, <2>5, StepKeeps
<1> QED BY <1>6, <1>7

(* The steps of the transpositions keep the invariant. *)
LEMMA TileKeeps ==
  ASSUME IInv, NEW w \in Warps, TileIn(w) \/ TileOut(w)
  PROVE  IInv'
<1> DEFINE T == WARPSZE \div 2
           N == BLOCKSIZE \div WARPSZE
           b == bar[w]
           r == regs[w]
<1>1. kern \in Transpose
  <2>1. TileIn(w) => kern \in Transpose
    BY DEF TileIn
  <2>2. TileOut(w) => kern \in Transpose
    BY DEF TileOut
  <2> QED BY <2>1, <2>2
<1>2. /\ job \in Jobs /\ kern = job.kern /\ BlockOK(BLOCKSIZE, WARPSZE)
      /\ DOMAIN r = Names /\ r.l \in m..(LMAX + 2 + LSPAN) /\ r.al \in Nat
      /\ OnceAt(job, pc[w], b) /\ w \in 0..(N - 1)
      /\ BLOCKSIZE = Shape[job.kern].threads /\ WARPSZE = Shape[job.kern].warp
  BY <1>1, OnceHave
<1>3. job.kern \in Transpose /\ job.kern \notin Convert /\ Indices("tile") = 0..(T * T - 1)
  BY <1>1, <1>2, Sizes DEF Transpose, Convert
<1>4. PutsOK(w, Nothing) /\ ReadsOK(w, {})
  BY DEF PutsOK, Nothing, ReadsOK
<1>5. {"turn", "done"} \subseteq Steps
  BY DEF Steps
<1>6. T \in Nat \ {0} /\ N \in Nat \ {0}
  <2>1. T > 0
    BY <1>2, <1>3, LaunchAssumption
  <2>2. T \in Nat /\ N \in Nat \ {0}
    BY <1>2 DEF BlockOK
  <2> QED BY <2>1, <2>2
<1>7. TILE_DIM = T /\ BLOCK_DIM_Y = N
  BY DEF TILE_DIM, BLOCK_DIM_Y
<1> HIDE DEF T, N
\* The rows of a tile which a warp copies.
<1>8. ASSUME NEW y \in Repeats PROVE w + y \in 0..(T - 1) /\ (w + y) % N = w
  <2>1. PICK k \in 0..((T \div N) - 1) : y = N * k
    BY <1>7 DEF Repeats
  <2>2. k \in Nat /\ k + 1 <= T \div N /\ T \div N \in Nat /\ w \in 0..(N - 1)
    BY <1>2, <1>6, <2>1
  <2>3. (k * N + w) % N = w /\ k * N \in Nat
    BY <1>6, <2>2, Split
  <2>4. N * k = k * N
    BY <1>6, <2>2
  <2>5. (k + 1) * N <= (T \div N) * N /\ (k + 1) * N = k * N + N /\ (T \div N) * N <= T /\ (T \div N) * N \in Int
    <3> DEFINE q == T \div N
    <3>1. T = N * q + (T % N) /\ T % N \in 0..(N - 1) /\ q \in Nat
      BY <1>6
    <3> HIDE DEF q
    <3>2. N * q = q * N /\ q * N \in Int /\ q * N <= T
      BY <1>6, <3>1
    <3>3. k + 1 <= q /\ k + 1 \in Int
      BY <2>2 DEF q
    <3>4. (k + 1) * N <= q * N /\ (k + 1) * N = k * N + N
      BY <1>6, <2>2, <3>1, <3>3, Monotone
    <3> QED BY <3>2, <3>4 DEF q
  <2> DEFINE z == k * N
             t == (T \div N) * N
  <2>6. z \in Nat /\ z + N <= t /\ t <= T /\ t \in Int /\ w + y = z + w
    BY <1>6, <2>1, <2>2, <2>3, <2>4, <2>5
  <2> HIDE DEF z, t
  <2>7. z + w \in 0..(T - 1)
    BY <1>6, <2>2, <2>6
  <2> QED BY <2>3, <2>6, <2>7 DEF z
\* A row and a column of a tile.
<1>9. ASSUME NEW i \in 0..(T - 1), NEW x \in 0..(T - 1)
      PROVE  i * T + x \in 0..(T * T - 1) /\ (i * T + x) \div T = i
  BY <1>6, SlotPlace
<1>10. CASE TileIn(w)
  <2> DEFINE puts == TilePuts(w)
             cells == DOMAIN puts["tile"]
  <2>1. pc[w] = "load" /\ Step(w, r, puts, {}, TRUE, "turn")
    BY <1>10 DEF TileIn
  <2>2. b = 0
    BY <1>2, <1>3, <2>1 DEF OnceAt
  <2>3. DOMAIN puts = {"tile"}
    BY DEF TilePuts
  <2>4. \A c \in cells : \E y \in Repeats, x \in 0..(T - 1) : c = (w + y) * T + x
    <3> DEFINE Wanted(x) == kern = "transpose_skip" => x <= MMAX \/ x >= dim0 - MMAX
               C == {c \in Columns : Wanted(c + bx)}
    <3>1. cells = {(w + y) * TILE_DIM + x : y \in Repeats, x \in C}
      BY DEF TilePuts
    <3>2. C \subseteq 0..(T - 1)
      BY <1>7 DEF Columns
    <3> HIDE DEF C, cells
    <3>3. ASSUME NEW c \in cells PROVE \E y \in Repeats, x \in 0..(T - 1) : c = (w + y) * T + x
      <4>1. PICK y \in Repeats, x \in C : c = (w + y) * TILE_DIM + x
        BY <3>1
      <4>2. x \in 0..(T - 1)
        BY <3>2
      <4>3. c = (w + y) * T + x
        BY <1>7, <4>1
      <4> QED BY <4>2, <4>3
    <3> QED BY <3>3
  <2> HIDE DEF puts, cells
  <2>5. PutsOK(w, puts)
    <3>1. ASSUME NEW c \in cells PROVE c \in 0..(T * T - 1) /\ (c \div T) % N = w
      <4>1. PICK y \in Repeats, x \in 0..(T - 1) : c = (w + y) * T + x
        BY <2>4
      <4>2. w + y \in 0..(T - 1) /\ (w + y) % N = w
        BY <1>8
      <4> DEFINE i == w + y
      <4> HIDE DEF i
      <4>3. i * T + x \in 0..(T * T - 1) /\ (i * T + x) \div T = i
        BY <1>9, <4>2 DEF i
      <4> QED BY <4>1, <4>2, <4>3 DEF i
    <3>2. \A c : Owner(job, "tile", c, b) = (c \div T) % N
      BY <1>2, <1>3 DEF Owner, T, N
    <3>3. "tile" \in WrittenIn(job, b)
      <4>1. b % 2 = 0
        BY <2>2
      <4> QED BY <1>3, <4>1 DEF WrittenIn, Arrays, Transpose, Ileg
    <3>4. \A c \in cells : MayWrite(job, b, w, <<"tile", c>>) /\ Inside(<<"tile", c>>)
      BY <1>3, <3>1, <3>2, <3>3 DEF MayWrite, Inside
    <3>5. \A c \in DOMAIN puts["tile"] : MayWrite(job, b, w, <<"tile", c>>) /\ Inside(<<"tile", c>>)
      BY <3>4 DEF cells
    <3> HIDE DEF b
    <3> QED BY <2>3, <3>5 DEF PutsOK, b
  <2>6. WarpOK(job, r, "turn", 1)
    <3>1. OnceAt(job, "turn", 1)
      BY <1>3 DEF OnceAt
    <3> QED BY <1>1, <1>2, <1>5, <3>1, OnceWarpOK
  <2>7. After(bar[w], TRUE) = 1
    BY <2>2 DEF After
  <2> QED BY <1>4, <2>1, <2>5, <2>6, <2>7, StepKeeps
<1>11. CASE TileOut(w)
  <2> DEFINE reads == TileReads(w)
  <2>1. pc[w] = "turn" /\ Step(w, r, Nothing, reads, FALSE, "done")
    BY <1>11 DEF TileOut
  <2>2. b = 1
    BY <1>2, <2>1 DEF OnceAt
  <2>3. ReadsOK(w, reads)
    <3> SUFFICES ASSUME NEW c \in reads PROVE MayRead(job, b, w, c) /\ Inside(c)
      BY DEF ReadsOK
    <3>1. PICK y \in Repeats, x \in 0..(T - 1) : c = <<"tile", x * T + w + y>>
      BY <1>7 DEF Cells, Columns, TileRows, TileReads
    <3>2. w + y \in 0..(T - 1)
      BY <1>8
    <3>3. x * T + w + y = x * T + (w + y)
      <4>1. x * T \in Int /\ w \in Int /\ w + y \in Int
        BY <1>2, <1>6, <3>2
      <4>2. y \in Int
        <5>1. \A k \in 0..((T \div N) - 1) : N * k \in Int
          BY <1>6
        <5> QED BY <1>7, <5>1 DEF Repeats
      <4> DEFINE z == x * T
      <4> HIDE DEF z
      <4>3. z + w + y = z + (w + y)
        BY <4>1, <4>2 DEF z
      <4> QED BY <4>3 DEF z
    <3>4. x * T + w + y \in 0..(T * T - 1)
      <4> DEFINE i == w + y
      <4> HIDE DEF i
      <4>1. x * T + i \in 0..(T * T - 1)
        BY <1>9, <3>2 DEF i
      <4> QED BY <3>3, <4>1 DEF i
    <3>5. Inside(c)
      <4> DEFINE z == x * T + w + y
      <4>1. z \in 0..(T * T - 1) /\ c = <<"tile", z>>
        BY <3>1, <3>4
      <4> HIDE DEF z
      <4>2. z \in Indices("tile")
        BY <1>3, <4>1
      <4>3. c[1] = "tile" /\ c[2] = z
        BY <4>1
      <4> QED BY <4>2, <4>3 DEF Inside
    <3>6. MayRead(job, b, w, c)
      <4>1. b % 2 = 1
        BY <2>2
      <4> QED BY <1>3, <4>1 DEF MayRead, WrittenIn, Transpose, Ileg
    <3> QED BY <3>5, <3>6
  <2>4. WarpOK(job, r, "done", 1)
    <3>1. OnceAt(job, "done", 1)
      BY DEF OnceAt
    <3> QED BY <1>1, <1>2, <1>5, <3>1, OnceWarpOK
  <2>5. After(bar[w], FALSE) = 1
    BY <2>2 DEF After
  <2> HIDE DEF reads
  <2> QED BY <1>4, <2>1, <2>3, <2>4, <2>5, StepKeeps
<1> QED BY <1>10, <1>11

-----------------------------------------------------------------------------
(* The invariant is inductive.                                             *)

(* One step of one warp keeps it, whichever kernel is launched. *)
LEMMA WarpKeeps ==
  ASSUME IInv, NEW w \in Warps, Warp(w) PROVE IInv'
<1>1. CASE M0Load(w) \/ M0Start(w) \/ M0Run(w) \/ M0Refill(w) \/ M0Last(w)
  BY <1>1, M0Keeps
<1>2. CASE LowLoad(w) \/ LowPass(w) \/ LowRefill(w) \/ LowTail(w)
  BY <1>2, LowKeeps
<1>3. CASE HighZero(w) \/ HighStart(w) \/ HighClimb(w) \/ HighRun(w) \/ HighLast(w)
  BY <1>3, HighKeeps
<1>4. CASE LegStore(w)
  BY <1>4, StoreKeeps
<1>5. CASE IlegLoad(w) \/ IlegField(w) \/ IlegGather(w) \/ IlegStart(w) \/ IlegFill(w) \/ IlegSum(w)
  BY <1>5, IlegKeeps
<1>6. CASE ConvLoad(w) \/ ConvStore(w)
  BY <1>6, ConvKeeps
<1>7. CASE TileIn(w) \/ TileOut(w)
  BY <1>7, TileKeeps
<1> QED BY <1>1, <1>2, <1>3, <1>4, <1>5, <1>6, <1>7, Zenon DEF Warp

(* A step that changes nothing keeps it. *)
LEMMA StutterKeeps ==
  ASSUME IInv, UNCHANGED vars PROVE IInv'
<1>1. job' = job /\ blk' = blk /\ pc' = pc /\ bar' = bar /\ regs' = regs /\ mem' = mem /\ log' = log
  BY DEF vars
<1>2. Warps' = Warps /\ Blocks' = Blocks /\ \A a : Indices(a)' = Indices(a)
  BY <1>1, Frame
<1>3. AccessInv'
  <2>1. \A c : Inside(c)' = Inside(c)
    BY <1>2 DEF Inside
  <2> QED BY <1>1, <2>1 DEF IInv, AccessInv
<1> QED BY <1>1, <1>2, <1>3 DEF IInv

(* Every step keeps it. *)
LEMMA NextKeeps == IInv /\ [Next]_vars => IInv'
<1> SUFFICES ASSUME IInv, [Next]_vars PROVE IInv'
  OBVIOUS
<1>1. CASE \E w \in Warps : Warp(w)
  BY <1>1, WarpKeeps
<1>2. CASE NextBlock
  BY <1>2, NextBlockKeeps
<1>3. CASE UNCHANGED vars
  BY <1>3, StutterKeeps
<1> QED BY <1>1, <1>2, <1>3 DEF Next, End

(* The inductive invariant holds in every state: in each kernel the degree and the step of a   *)
(* warp follow from the barriers it has passed, and it keeps to its part of shared memory.     *)
THEOREM KernelInvariant == Spec => []IInv
<1> QED BY InitOK, NextKeeps, PTL DEF Spec

-----------------------------------------------------------------------------
(* What follows from it.                                                   *)

(* Degrees, offsets and counters keep within their ranges, and no kernel reads or writes       *)
(* shared memory outside of the sizes which it declares, for any truncation and shape.         *)
THEOREM GpuTypes == Spec => []TypeOK
<1>1. IInv => TypeOK
  <2> SUFFICES ASSUME IInv PROVE TypeOK
    OBVIOUS
  <2>1. job \in Jobs /\ m = job.im * MRES
    BY StateFacts DEF IInv
  <2>2. \A w \in Warps : regs[w].l \in m..(LMAX + 2 + LSPAN) /\ regs[w].al \in Nat
    BY <2>1 DEF IInv, WarpOK
  <2>3. \A c \in log.w \cup log.r : c[1][2] \in Indices(c[1][1])
    BY DEF IInv, AccessInv, Inside
  <2> QED BY <2>2, <2>3 DEF IInv, TypeOK
<1> QED BY <1>1, KernelInvariant, PTL

(* Between two barriers no warp reads or writes a number of shared memory which another one    *)
(* writes: the __syncthreads() of every kernel are enough.                                     *)
THEOREM NoRaces == Spec => []NoRace
<1>1. IInv => NoRace
  <2> SUFFICES ASSUME IInv, NEW a \in log.w, NEW b \in log.w \cup log.r, a[1] = b[1] PROVE a[2] = b[2]
    BY DEF NoRace
  <2>1. MayWrite(job, log.bar, a[2], a[1])
    BY DEF IInv, AccessInv
  <2>2. MayWrite(job, log.bar, b[2], b[1]) \/ MayRead(job, log.bar, b[2], b[1])
    BY DEF IInv, AccessInv
  <2> QED BY <2>1, <2>2 DEF MayWrite, MayRead
<1> QED BY <1>1, KernelInvariant, PTL

(* Which barriers a warp of an analysis comes to. *)
LEMMA IlegComes ==
  ASSUME NEW J, J.kern \in Ileg, NEW b \in Nat \ {0},
         NEW D, D = Base(J), NEW M, M = J.im * MRES, NEW L, L = J.llim
  PROVE  /\ b <= D + 2 => Comes(J, b)
         /\ Comes(J, b) /\ ~(b <= D + 2) => IlegL(M, (b - D - 1) \div 2) <= L
         /\ IlegL(M, (b - D - 1) \div 2) <= L => Comes(J, b)
<1>1. J.kern \notin {"leg_m0", "leg_low"} /\ J.kern \notin Convert \cup Transpose
  BY DEF Ileg, Convert, Transpose
<1> DEFINE C == IlegL(M, (b - D - 1) \div 2) <= L
           A == b <= D + 2
<1>2. Comes(J, b) <=> A \/ C
  <2>1. Comes(J, b) <=> (b <= Base(J) + 2 \/ IlegL(J.im * MRES, (b - Base(J) - 1) \div 2) <= J.llim)
    <3>1. b # 0
      OBVIOUS
    <3> QED BY <1>1, <3>1, Zenon DEF Comes
  <2> QED BY <2>1, Zenon
<1> QED BY <1>2

(* A warp that comes to a barrier comes to the one before. *)
LEMMA ComesBefore ==
  ASSUME NEW J \in Jobs, NEW b \in Nat, Comes(J, b + 1) PROVE Comes(J, b)
<1> DEFINE B == Shape[J.kern].threads
           M == J.im * MRES
<1>1. LaunchOK(J)
  BY LaunchFacts
<1>2. M \in Nat /\ LSPAN \in Nat /\ J.llim \in Nat
  BY <1>1, SizesAssumption DEF LaunchOK
<1>3. CASE b = 0
  BY <1>3 DEF Comes
<1>4. CASE b # 0 /\ J.kern = "leg_m0"
  <2>1. M0Block(B)
    BY <1>4, LaunchAssumption, BlockFacts DEF M0Block, BlockOK, Kernels, Leg
  <2> HIDE DEF B, M
  <2>2. M0L(B, (b + 1) \div 2) < J.llim /\ b \div 2 \in Nat
    BY <1>4 DEF Comes, B, Ileg, Convert, Transpose
  <2>3. M0L(B, b \div 2) <= M0L(B, (b + 1) \div 2) /\ M0L(B, b \div 2) \in Nat /\ M0L(B, (b + 1) \div 2) \in Nat
    <3>1. CASE b % 2 = 0
      BY <2>1, <2>2, <3>1, OddEven, M0Next
    <3>2. CASE b % 2 = 1
      <4> DEFINE i == b \div 2
      <4>1. (b + 1) \div 2 = i + 1 /\ i \in Nat /\ i + 1 \in Nat
        BY <2>2, <3>2, OddEven
      <4> HIDE DEF i
      <4>2. B \in Nat /\ B > 8
        BY <2>1 DEF M0Block
      <4>3. (B - (IF i = 0 THEN 5 ELSE 3)) \div 4 \in Nat
        BY <4>2
      <4> QED BY <2>1, <4>1, <4>3, M0Next DEF i
    <3> QED BY <3>1, <3>2, OddEven
  <2>4. M0L(B, b \div 2) < J.llim
    BY <1>2, <2>2, <2>3
  <2> QED BY <1>4, <2>4 DEF Comes, B
<1>5. CASE b # 0 /\ J.kern = "leg_low"
  <2>1. M0Block(B)
    BY <1>5, LaunchAssumption, BlockFacts DEF M0Block, BlockOK, Kernels, Leg
  <2> HIDE DEF B, M
  <2>2. CASE b = 1
    BY <1>5, <2>2 DEF Comes
  <2>3. CASE b > 1
    <3> DEFINE i == (b \div 2) - 1
               h == B \div 2
    <3>1. i \in Nat /\ h \in Nat
      BY <2>1, <2>3 DEF M0Block
    <3>2. LowL(B, M, ((b + 1) \div 2) - 1) <= J.llim - h
      BY <1>5, <2>3 DEF Comes, B, M, Ileg, Convert, Transpose
    <3>3. LowL(B, M, i + 1) = LowL(B, M, i) + h /\ LowL(B, M, i) \in Nat
      BY <1>2, <2>1, <3>1, LowNext
    <3>4. ((b + 1) \div 2) - 1 \in {i, i + 1}
      BY <2>3
    <3> HIDE DEF i, h
    <3>5. LowL(B, M, i) <= J.llim - h
      BY <1>2, <3>1, <3>2, <3>3, <3>4
    <3> QED BY <1>5, <3>5 DEF Comes, B, M, i, h
  <2> QED BY <1>5, <2>2, <2>3
<1>6. CASE b # 0 /\ J.kern \in Ileg
  <2> DEFINE D == Base(J)
  <2>1. IlegOK(J, M)
    BY <1>1, <1>2, <1>6, LaunchAssumption DEF IlegOK, LaunchOK, Ileg
  <2>2. D \in Nat
    BY <2>1, BaseFacts
  <2> HIDE DEF D, M
  <2>3. CASE b <= D + 2
    BY <1>6, <2>3 DEF Comes, D
  <2>4. CASE b > D + 2
    <3> DEFINE i == (b - D - 1) \div 2
    <3>1. i \in Nat
      BY <2>2, <2>4
    <3> DEFINE n == b + 1
               L == J.llim
    <3>2. n \in Nat \ {0} /\ ~(n <= D + 2) /\ Comes(J, n) /\ (n - D - 1) \div 2 \in {i, i + 1}
      BY <2>2, <2>4
    <3> HIDE DEF n, L
    <3>3. IlegL(M, (n - D - 1) \div 2) <= L
      <4>1. D = Base(J) /\ M = J.im * MRES /\ L = J.llim
        BY DEF D, M, L
      <4> QED BY <1>6, <3>2, <4>1, IlegComes
    <3>4. IlegL(M, i + 1) = IlegL(M, i) + LSPAN /\ IlegL(M, i) \in Nat
      BY <1>2, <3>1, IlegNext
    <3> HIDE DEF i
    <3>5. IlegL(M, i) <= L
      <4>1. L \in Nat
        BY <1>2 DEF L
      <4> QED BY <1>2, <3>2, <3>3, <3>4, <4>1
    <3> QED BY <1>6, <3>5 DEF Comes, D, M, L, i
  <2> QED BY <2>2, <2>3, <2>4
<1>7. CASE b # 0 /\ J.kern \notin {"leg_m0", "leg_low"} \cup Ileg
  BY <1>7 DEF Comes
<1> QED BY <1>3, <1>4, <1>5, <1>6, <1>7

(* A warp that comes to a barrier comes to all those before. *)
LEMMA ComesToAll ==
  ASSUME NEW J \in Jobs, NEW b \in Nat, Comes(J, b), NEW c \in 0..b PROVE Comes(J, c)
<1> DEFINE P == {k \in Nat : Comes(J, k) => \A i \in 0..k : Comes(J, i)}
<1>1. 0 \in P
  BY DEF Comes
<1>2. \A k \in Nat : k \in P => k + 1 \in P
  <2> SUFFICES ASSUME NEW k \in Nat, k \in P, Comes(J, k + 1), NEW i \in 0..(k + 1) PROVE Comes(J, i)
    OBVIOUS
  <2>1. Comes(J, k)
    BY ComesBefore
  <2>2. i \in 0..k \/ i = k + 1
    OBVIOUS
  <2> QED BY <2>1, <2>2
<1> HIDE DEF P
<1>3. b \in P
  BY <1>1, <1>2, SetInduction
<1> QED BY <1>3 DEF P

(* A warp that has left does not miss a barrier to which another one comes. *)
LEMMA DoneMeans ==
  ASSUME NEW J \in Jobs, NEW x, NEW b, WarpOK(J, x, "done", b) PROVE b \in Nat /\ ~Comes(J, b + 1)
<1> DEFINE B == Shape[J.kern].threads
           M == J.im * MRES
           L == J.llim
<1>1. b \in Nat /\ LaunchOK(J)
  BY LaunchFacts DEF WarpOK
<1>2. M \in Nat /\ L \in Nat /\ b + 1 # 0
  BY <1>1, SizesAssumption DEF LaunchOK
<1> DEFINE l == x.l
           k == x.k
           f == x.f
           lo == x.lo
<1>3. /\ J.kern = "leg_m0" => M0At(B, L, l, k, f, "done", b)
      /\ J.kern = "leg_low" => LowAt(B, M, L, l, "done", b)
      /\ J.kern = "leg_high" => HighAt(M, l, lo, "done", b)
      /\ J.kern \in Ileg => IlegAt(J, M, l, f, "done", b)
      /\ J.kern \in Convert \cup Transpose => OnceAt(J, "done", b)
  BY DEF WarpOK
<1> HIDE DEF l, k, f, lo, B, M, L
<1>4. CASE J.kern = "leg_m0"
  <2>1. b % 2 = 1 /\ M0L(B, (b \div 2) + 1) >= L
    BY <1>3, <1>4 DEF M0At
  <2>2. M0Block(B)
    BY <1>4, LaunchAssumption, BlockFacts DEF M0Block, BlockOK, Kernels, Leg, B
  <2>3. (b \div 2) + 1 \in Nat
    BY <1>1
  <2>4. M0L(B, (b \div 2) + 1) \in Nat
    BY <2>2, <2>3, M0Next
  <2>5. (b + 1) \div 2 = (b \div 2) + 1 /\ b + 1 # 1
    BY <1>1, <2>1, OddEven
  <2>6. ~(M0L(B, (b + 1) \div 2) < L)
    BY <1>2, <2>1, <2>4, <2>5
  <2> QED BY <1>1, <1>2, <1>4, <2>5, <2>6 DEF Comes, B, L, Ileg, Convert, Transpose
<1>5. CASE J.kern = "leg_low"
  <2>1. b % 2 = 1 /\ LowL(B, M, b \div 2) > L - (B \div 2)
    BY <1>3, <1>5 DEF LowAt
  <2>2. M0Block(B)
    BY <1>5, LaunchAssumption, BlockFacts DEF M0Block, BlockOK, Kernels, Leg, B
  <2>3. b \div 2 \in Nat /\ B \div 2 \in Nat
    BY <1>1, <2>2 DEF M0Block
  <2>4. LowL(B, M, b \div 2) \in Nat
    BY <1>2, <2>2, <2>3, LowNext
  <2>5. ((b + 1) \div 2) - 1 = b \div 2 /\ b + 1 # 1
    BY <1>1, <2>1, OddEven
  <2>6. ~(LowL(B, M, ((b + 1) \div 2) - 1) <= L - (B \div 2))
    BY <1>2, <2>1, <2>3, <2>4, <2>5
  <2> QED BY <1>1, <1>2, <1>5, <2>5, <2>6 DEF Comes, B, L, M, Ileg, Convert, Transpose
<1>6. CASE J.kern = "leg_high"
  BY <1>1, <1>2, <1>6 DEF Comes, Ileg, Convert, Transpose
<1>7. CASE J.kern \in Ileg
  <2> DEFINE D == Base(J)
             i == (b - D) \div 2
  <2>1. IlegOK(J, M)
    <3>1. LSPAN >= 4 /\ LSPAN \in Nat
      BY LaunchAssumption, SizesAssumption
    <3>2. J.fields \in 1..2 /\ (J.kern = "ileg_high" => J.fields = 1) /\ M \in Nat /\ J.llim \in Nat /\ M <= J.llim
      BY <1>1, <1>2 DEF LaunchOK, M, L
    <3> QED BY <1>7, <3>1, <3>2 DEF IlegOK
  <2>2. D \in Nat
    BY <2>1, BaseFacts
  <2>3. b > D /\ (b - D) % 2 = 0 /\ l = IlegL(M, i) /\ l > L
    BY <1>3, <1>7 DEF IlegAt, L
  <2> HIDE DEF D
  <2> DEFINE n == b + 1
  <2>4. i \in Nat /\ n \in Nat \ {0} /\ ~(n <= D + 2) /\ (n - D - 1) \div 2 = i
    BY <1>1, <2>2, <2>3
  <2> HIDE DEF i, n
  <2>5. IlegL(M, i) \in Nat
    BY <1>2, <2>1, <2>4, IlegNext DEF IlegOK
  <2>6. ~(IlegL(M, (n - D - 1) \div 2) <= L)
    BY <1>2, <2>3, <2>4, <2>5
  <2>7. D = Base(J) /\ M = J.im * MRES /\ L = J.llim
    BY DEF D, M, L
  <2>8. ~Comes(J, n)
    BY <1>7, <2>4, <2>6, <2>7, IlegComes
  <2> QED BY <1>1, <2>8 DEF n
<1>8. CASE J.kern \in Convert \cup Transpose
  <2>1. b = 1
    BY <1>3, <1>8 DEF OnceAt
  <2> QED BY <1>8, <2>1 DEF Comes, Ileg, Convert, Transpose
<1> QED BY <1>1, <1>4, <1>5, <1>6, <1>7, <1>8 DEF LaunchOK, Kernels, Leg

(* Unless all are done there is a warp that need not wait: no warp waits at a __syncthreads()  *)
(* for one that has left, since all decide alike whether there is one more block of degrees.   *)
THEOREM BarriersAreMet == Spec => []BarriersMet
<1>1. IInv => BarriersMet
  <2> SUFFICES ASSUME IInv, NEW u \in Warps, pc[u] # "done"
               PROVE  \E w \in Warps : pc[w] # "done" /\ \A v \in Warps : bar[v] >= bar[w]
    BY DEF BarriersMet
  <2> DEFINE S == {bar[v] : v \in {x \in Warps : pc[x] # "done"}}
  <2>1. job \in Jobs /\ bar \in [Warps -> Nat] /\ \A v \in Warps : WarpOK(job, regs[v], pc[v], bar[v])
    BY DEF IInv
  <2>2. S \in SUBSET Nat /\ S # {}
    BY <2>1
  <2> HIDE DEF S
  <2>3. PICK b \in S : \A n \in S : b <= n
    BY <2>2, LeastExists
  <2>4. PICK w \in Warps : pc[w] # "done" /\ bar[w] = b
    BY <2>3 DEF S
  <2>5. Comes(job, b) /\ b \in Nat
    BY <2>1, <2>4 DEF WarpOK
  <2>6. ASSUME NEW v \in Warps PROVE bar[v] >= b
    <3>1. CASE pc[v] # "done"
      <4>1. bar[v] \in S
        BY <3>1 DEF S
      <4> QED BY <2>1, <2>3, <2>5, <4>1
    <3>2. CASE pc[v] = "done"
      <4> DEFINE c == bar[v]
      <4>1. WarpOK(job, regs[v], "done", c) /\ c \in Nat
        BY <2>1, <3>2
      <4> HIDE DEF c
      <4>2. ~Comes(job, c + 1)
        BY <2>1, <4>1, DoneMeans
      <4>3. ~(c + 1 \in 0..b)
        BY <2>1, <2>5, <4>2, ComesToAll
      <4> QED BY <2>5, <4>1, <4>3 DEF c
    <3> QED BY <3>1, <3>2
  <2> QED BY <2>4, <2>6
<1> QED BY <1>1, KernelInvariant, PTL
=============================================================================
