----------------------------- MODULE GpuKernels -----------------------------
(***************************************************************************)
(* One launch of a CUDA kernel of sht_gpu_kernels.cu: Legendre sums of     *)
(* synthesis (leg_...) and analysis (ileg_...), conversions between vector *)
(* and scalar coefficients, and transpositions.  The warps of a block have *)
(* shared memory and meet at barriers; a step is what one warp does until  *)
(* the next barrier, or less.  The lanes of a warp run in step.  The       *)
(* blocks of a grid meet only in the result, and are executed one after    *)
(* the other.                                                              *)
(*                                                                         *)
(* A number is abstracted to what it stands for: an element of a table to  *)
(* its offset, y to its degree, a coefficient, a latitude or a Fourier     *)
(* component to its place and sign.  Underflow near the poles is the       *)
(* choice of the degree from which y counts.                               *)
(***************************************************************************)
EXTENDS Integers, Sequences, FiniteSets, TLC

CONSTANTS LMAX, MMAX, MRES, NPHI,   \* the sizes of the transform
          NLM_STRIDE, SPAT_STRIDE,  \* the distance of two fields
          LSPAN, NW,                \* template parameters
          Shape,                    \* the threads of a block and of a warp, for each kernel
          Jobs,                     \* the launches considered, of JobType
          MaxSkip                   \* the degrees which may underflow

Leg == {"leg_m0", "leg_low", "leg_high"}
Ileg == {"ileg_m0", "ileg_low", "ileg_high"}
Convert == {"sphtor2scal", "scal2sphtor"}
Transpose == {"transpose", "transpose_zero", "transpose_skip"}
Kernels == Leg \cup Ileg \cup Convert \cup Transpose

JobType == [kern: Kernels, S: 0..1, im: 0..MMAX, llim: 0..(LMAX + 1),
            n: Nat \ {0},       \* nlat_2
            fields: 1..2]

ASSUME SizesAssumption ==
  /\ LMAX \in Nat /\ MMAX \in Nat /\ MRES \in Nat \ {0} /\ MMAX * MRES <= LMAX
  /\ NPHI \in Nat /\ NPHI > 2 * MMAX
  /\ NLM_STRIDE \in Nat \ {0} /\ SPAT_STRIDE \in Nat \ {0}
  /\ LSPAN \in Nat \ {0} /\ NW \in Nat \ {0} /\ MaxSkip \in Nat
  /\ Shape \in [Kernels -> [threads: Nat \ {0}, warp: Nat \ {0}]]
  /\ Jobs \subseteq JobType

\* What the launches and the comments of the kernels say of their parameters.
ASSUME LaunchAssumption ==
  /\ \A k \in Kernels : Shape[k].threads % Shape[k].warp = 0
  /\ \A k \in {"leg_m0", "leg_low"} : Shape[k].threads % 4 = 0 /\ Shape[k].threads > 8
  /\ Shape["leg_high"].warp % 4 = 0 /\ Shape["leg_high"].warp > 4
  /\ LSPAN >= 4
  /\ \A k \in Ileg : Shape[k].threads % (2 * LSPAN) = 0 /\ Shape[k].threads >= 2 * LSPAN + 2
  /\ \A k \in Ileg : Shape[k].threads \div LSPAN <= Shape[k].warp    \* sums within a warp
  /\ \A k \in Convert : Shape[k].threads > 4
  /\ \A k \in Transpose : LET T == Shape[k].warp \div 2
                          IN  T > 0 /\ T % (Shape[k].threads \div Shape[k].warp) = 0
  /\ \A j \in Jobs :
       /\ j.im * MRES <= j.llim /\ j.llim <= LMAX + j.S
       /\ j.kern \in {"leg_m0", "ileg_m0"} => j.im = 0
       /\ j.kern \in {"leg_m0", "leg_high", "ileg_high"} => j.fields = 1
       /\ j.kern \in Transpose => LET T == Shape[j.kern].warp \div 2
                                  IN  j.n % T = 0 /\ NPHI % T = 0

VARIABLES
  job,
  blk,       \* the block being executed
  pc, bar,   \* of each warp: its next step, and the barriers it has come to
  regs,      \* of each warp: its registers
  mem,       \* the shared memory of the block: an array for each name
  log,       \* what has been read and written there since the last barrier, by which warp
  out        \* the result in global memory
vars == <<job, blk, pc, bar, regs, mem, log, out>>

kern == job.kern
im == job.im
m == im * MRES
llim == job.llim
nlat_2 == job.n
BLOCKSIZE == Shape[kern].threads
WARPSZE == Shape[kern].warp
Warps == 0..((BLOCKSIZE \div WARPSZE) - 1)
Lanes(w) == (w * WARPSZE)..((w + 1) * WARPSZE - 1)
FieldSet == 0..(job.fields - 1)
Least(a, b) == IF a <= b THEN a ELSE b
Pairs(x) == (x + 1) \div 2     \* how often a loop "while (a < b) a += 2" is run, x = b - a
Xor1(x) == IF x % 2 = 0 THEN x + 1 ELSE x - 1

Wrong == -9
None == -8                     \* in place of a degree: y is 0
Unset == <<"unset">>           \* never written, or of no use
Null == <<"0">>

(***************************************************************************)
(* Shared memory and barriers                                              *)
(***************************************************************************)
\* mutant: no room for the first pair
MAkSize == 2 * LSPAN
AkSize == 2 * LSPAN + 2
Arrays == {"ak", "qk", "yl", "reo", "M", "sl", "tl", "tile"}
Size(a) ==
  CASE a = "ak" -> IF kern \in Ileg THEN AkSize ELSE IF kern \in Leg THEN BLOCKSIZE ELSE 0
    [] a = "qk" -> IF kern = "leg_m0" THEN BLOCKSIZE \div 2
                   ELSE IF kern \in Leg THEN job.fields * BLOCKSIZE ELSE 0
    [] a = "yl" -> IF kern \in Ileg THEN LSPAN * BLOCKSIZE ELSE 0
    [] a = "reo" -> IF kern = "ileg_high" THEN 4 * BLOCKSIZE ELSE 0
    [] a \in {"M", "sl", "tl"} -> IF kern \in Convert THEN BLOCKSIZE ELSE 0
    [] a = "tile" -> IF kern \in Transpose THEN (WARPSZE \div 2) * (WARPSZE \div 2) ELSE 0
Indices(a) == 0..(Size(a) - 1)
Empty == [a \in Arrays |-> [i \in Indices(a) |-> Unset]]
Put(old, new) == [i \in DOMAIN old |-> IF i \in DOMAIN new THEN new[i] ELSE old[i]]
Read(a, i) == IF i \in DOMAIN mem[a] THEN mem[a][i] ELSE Unset
Cells(a, I) == {<<a, i>> : i \in I}

\* The next part of warp w's program: new registers, what it puts into shared memory, what
\* it reads there.  It does not start before all warps have come to the barrier before it.
Step(w, r, puts, reads, sync, next) ==
  /\ \A v \in Warps : bar[v] >= bar[w]
  /\ regs' = [regs EXCEPT ![w] = r]
  /\ pc' = [pc EXCEPT ![w] = next]
  /\ bar' = IF sync THEN [bar EXCEPT ![w] = @ + 1] ELSE bar
  /\ mem' = [a \in Arrays |-> IF a \in DOMAIN puts THEN Put(mem[a], puts[a]) ELSE mem[a]]
  /\ LET old == IF log.bar = bar[w] THEN log ELSE [bar |-> bar[w], r |-> {}, w |-> {}]
         written == UNION {Cells(a, DOMAIN puts[a]) : a \in DOMAIN puts}
     IN  log' = [old EXCEPT !.r = @ \cup {<<c, w>> : c \in reads},
                            !.w = @ \cup {<<c, w>> : c \in written}]
  /\ UNCHANGED <<job, blk>>

Nothing == [a \in {} |-> <<>>]

(***************************************************************************)
(* The tables in global memory                                             *)
(***************************************************************************)
LiM(l, i) == ((i * (2 * LMAX + 2 - (i + 1) * MRES)) \div 2) + l
\* legendre_precomp: a pair for each degree after m; the first also holds the start value.
AlmPair(i, d) == i * (2 * (LMAX + 1) - (i - 1) * MRES) + 2 * (d - i * MRES - 1)

\* The degree after p and q, from the pair a, b of recurrence coefficients.
Rec(q, p, a, b) ==
  IF /\ q >= 0 /\ q <= LMAX
     /\ q = p + 1 \/ (p = None /\ q = m)
     /\ a = <<"al", AlmPair(im, q + 1)>> /\ b = <<"al", AlmPair(im, q + 1) + 1>>
  THEN q + 1 ELSE Wrong
First(a) == IF a = <<"al", AlmPair(im, m + 1)>> THEN m ELSE Wrong

\* The pointers into the two tables for order im.
ImRow == (im * (2 * (LMAX + 1) - (m + MRES))) \div 2
AlRow == IF im = 0 THEN 0 ELSE 2 * (ImRow + m)
QlRow == IF im = 0 THEN 0 ELSE 2 * (ImRow + job.S * im)
Al(o) == <<"al", o>>

\* Where the coefficients are: vector transforms have one degree more for each order.
Place(d, ri) == 2 * (LiM(d, im) + job.S * im) + ri
Ql(f, o) ==
  LET d == (o - Place(0, 0)) \div 2
  IN  IF d \in m..(LMAX + job.S) THEN <<"q", f, d, (o - Place(0, 0)) % 2>> ELSE Unset

(***************************************************************************)
(* leg_: sums over the degrees.  p and q are the last two degrees of y;   *)
(* the first term is for y[shift].                                         *)
(***************************************************************************)
Registers == [l |-> m, al |-> AlRow, k |-> 0, f |-> 0, p |-> Wrong, q |-> Wrong, lo |-> m, first |-> m,
              terms |-> {}, twice |-> FALSE, reo |-> <<>>]

\* y[i] is wrong when a step up to it used a wrong pair of A.
Ladder(r, A, n) ==
  LET bad == {i \in 2..(n + 1) :
                Wrong = Rec(r.q + i - 2, IF i = 2 THEN r.p ELSE r.q + i - 3, A[2 * (i - 2)], A[2 * (i - 2) + 1])}
  IN  [i \in 0..(n + 1) |-> IF i = 0 THEN r.p
                           ELSE IF \E x \in bad : x <= i THEN Wrong ELSE r.q + i - 1]

\* n terms, with coefficients C[field, number of the term, part].
Sum(r, A, shift, n, C) ==
  LET y == Ladder(r, A, n)
      Term(f, i, ri) ==
        <<f, ri, i % 2, IF C[f, i, ri] = <<"q", f, y[i + shift], ri>> THEN y[i + shift] ELSE Wrong>>
      new == {Term(f, i, ri) : f \in FieldSet, ri \in 0..(IF im = 0 THEN 0 ELSE 1),
                               i \in {x \in 0..(n - 1) : r.l + x - (x % 2) >= r.first}}
  IN  [r EXCEPT !.p = y[n], !.q = y[n + 1], !.l = @ + n, !.al = @ + 2 * n,
                !.terms = @ \cup new, !.twice = @ \/ new \cap r.terms # {}]

\* What n terms need: pairs of recurrence coefficients, and coefficients of each field.
PairsAt(k, n) == [i \in 0..(2 * n - 1) |-> Read("ak", k + i)]
Terms(n) == FieldSet \X (0..(n - 1)) \X {0, 1}
ReadsK(r, n) == Cells("ak", r.k..(r.k + 2 * n - 1))

(* leg_m0_kernel: blocks of coefficients, refilled between two barriers.   *)
\* mutant: the offset is in complex numbers
MM0Q(from, J) == [j \in {x \in J : x <= llim /\ x < BLOCKSIZE \div 2} |-> Ql(0, from + 2 * j)]
M0Q(from, J) == [j \in {x \in J : x <= llim /\ x < BLOCKSIZE \div 2} |-> Ql(0, 2 * (from + j))]

M0C(f, n) == [z \in Terms(n) |-> Read("qk", f + z[2])]

M0Load(w) ==
  /\ kern = "leg_m0" /\ pc[w] = "load"
  /\ Step(w, regs[w], [ak |-> [j \in Lanes(w) |-> Al(j)], qk |-> M0Q(0, Lanes(w))], {}, TRUE, "start")
  /\ UNCHANGED out

M0Start(w) ==
  /\ kern = "leg_m0" /\ pc[w] = "start"
  /\ LET y0 == First(Read("ak", 0))
         A == [i \in 0..3 |-> Unset]
         q == IF Read("ak", 1) = Al(AlmPair(0, 1) + 1) /\ y0 = 0 THEN 1 ELSE Wrong
         r == Sum([regs[w] EXCEPT !.p = y0, !.q = q], A, 0, 2, M0C(0, 2))
     IN  Step(w, [r EXCEPT !.p = y0, !.q = q, !.al = 2, !.k = 2, !.f = 2], Nothing,
              Cells("ak", 0..1) \cup Cells("qk", 0..1), FALSE, "run")
  /\ UNCHANGED out

\* As many pairs of degrees as there are in shared memory; f is kq.
M0Run(w) ==
  /\ kern = "leg_m0" /\ pc[w] = "run"
  /\ regs[w].l < llim /\ regs[w].k + 6 < BLOCKSIZE
  /\ LET r == regs[w]
         n == 2 * Least(Pairs(llim - r.l), (BLOCKSIZE - 6 - r.k + 3) \div 4)
         s == Sum(r, PairsAt(r.k, n), 2, n, M0C(r.f, n))
     IN  Step(w, [s EXCEPT !.k = @ + 2 * n, !.f = @ + n], Nothing,
              ReadsK(r, n) \cup Cells("qk", r.f..(r.f + n - 1)), s.l < llim, "run")
  /\ UNCHANGED out

M0Refill(w) ==
  /\ kern = "leg_m0" /\ pc[w] = "run"
  /\ regs[w].l < llim /\ regs[w].k + 6 >= BLOCKSIZE
  /\ LET r == regs[w]
     IN  Step(w, [r EXCEPT !.k = 0, !.f = 0],
              [ak |-> [j \in Lanes(w) |-> Al(r.al + j)], qk |-> M0Q(r.l, Lanes(w))], {}, TRUE, "run")
  /\ UNCHANGED out

M0Last(w) ==
  /\ kern = "leg_m0" /\ pc[w] = "run" /\ regs[w].l >= llim
  /\ LET r == regs[w]
     IN  IF r.l = llim
         THEN Step(w, Sum(r, PairsAt(r.k, 1), 2, 1, M0C(r.f, 1)), Nothing, ReadsK(r, 1) \cup Cells("qk", {r.f}), FALSE, "store")
         ELSE Step(w, r, Nothing, {}, FALSE, "store")
  /\ UNCHANGED out

(* leg_m_lowllim_kernel: the same in blocks of BLOCKSIZE numbers.          *)
LowQ(l, J) ==
  [x \in {f * BLOCKSIZE + j : f \in FieldSet, j \in {i \in J : l + (i \div 2) <= llim}} |->
     Ql(x \div BLOCKSIZE, QlRow + 2 * l + (x % BLOCKSIZE))]

LowLoad(w) ==
  /\ kern = "leg_low" /\ pc[w] = "load"
  /\ LET y0 == First(Al(AlRow))
     IN  Step(w, [regs[w] EXCEPT !.p = y0, !.q = IF y0 = Wrong THEN Wrong ELSE y0 + 1, !.al = AlRow + 2],
              [ak |-> [j \in Lanes(w) |-> Al(AlRow + j + 2)], qk |-> LowQ(m, Lanes(w))], {}, TRUE, "run")
  /\ UNCHANGED out

LowC(n) == [z \in Terms(n) |-> Read("qk", z[1] * BLOCKSIZE + 2 * z[2] + z[3])]
LowSum(r, n) == Sum(r, PairsAt(0, n), 0, n, LowC(n))
LowReads(n) ==
  Cells("ak", 0..(2 * n - 1)) \cup Cells("qk", {f * BLOCKSIZE + i : f \in FieldSet, i \in 0..(2 * n - 1)})

LowPass(w) ==
  /\ kern = "leg_low" /\ pc[w] = "run" /\ regs[w].l <= llim - (BLOCKSIZE \div 2)
  /\ Step(w, LowSum(regs[w], BLOCKSIZE \div 2), Nothing, LowReads(BLOCKSIZE \div 2), TRUE, "refill")
  /\ UNCHANGED out

LowRefill(w) ==
  /\ kern = "leg_low" /\ pc[w] = "refill"
  /\ LET r == regs[w]
         J == {j \in Lanes(w) : r.l + (j \div 2) <= llim}
     IN  Step(w, r, [ak |-> [j \in J |-> Al(r.al + j)], qk |-> LowQ(r.l, J)], {}, TRUE, "run")
  /\ UNCHANGED out

LowTail(w) ==
  /\ kern = "leg_low" /\ pc[w] = "run" /\ regs[w].l > llim - (BLOCKSIZE \div 2)
  /\ LET n == IF regs[w].l <= llim THEN llim - regs[w].l + 1 ELSE 0
     IN  Step(w, LowSum(regs[w], n), Nothing, LowReads(n), FALSE, "store")
  /\ UNCHANGED out

(* leg_m_highllim_kernel: order 0 reads global memory; the other orders    *)
(* have in shared memory a part for each warp, and need no barrier.        *)
HighZero(w) ==
  /\ kern = "leg_high" /\ pc[w] = "load" /\ im = 0
  /\ LET y0 == First(Al(0))
         n == IF llim = 0 THEN 2 ELSE llim + 1
         A == [i \in 0..(2 * n - 1) |-> Al(i + 2)]
         C == [z \in Terms(n) |-> Ql(z[1], 2 * z[2])]
     IN  Step(w, Sum([regs[w] EXCEPT !.p = y0, !.q = y0 + 1], A, 0, n, C), Nothing, {}, FALSE, "store")
  /\ UNCHANGED out

\* A lane, for which y counts from first; lo is the degree from which it counts for one lane.
\* Close to the poles all terms are left out.
HighStart(w) ==
  /\ kern = "leg_high" /\ pc[w] = "load" /\ im > 0
  /\ \/ Step(w, [regs[w] EXCEPT !.first = LMAX + 2], Nothing, {}, FALSE, "store")
     \/ \E lo, first \in {m + 2 * x : x \in 0..MaxSkip} :
          /\ lo <= first
          /\ Step(w, [regs[w] EXCEPT !.p = None, !.q = First(Al(AlRow)), !.lo = lo, !.first = first],
                  Nothing, {}, FALSE, "climb")
  /\ UNCHANGED out

\* n degrees after the lanes have filled their warp's part with r.al and r.l.
HighSum(w, r, n) ==
  LET A == [i \in 0..(2 * n - 1) |-> IF i < WARPSZE THEN Al(r.al + i) ELSE Unset]
      C == [z \in Terms(n) |-> IF 2 * z[2] < WARPSZE THEN Ql(z[1], QlRow + 2 * r.l + 2 * z[2] + z[3]) ELSE Unset]
  IN  Sum(r, A, 1, n, C)
HighFill(w, r) == [j \in Lanes(w) |-> Al(r.al + (j % WARPSZE))]
HighFillQ(w, r) == [j \in Lanes(w) |-> Ql(0, QlRow + 2 * r.l + (j % WARPSZE))]
PassPairs == (WARPSZE - 4) \div 4

HighClimb(w) ==
  /\ kern = "leg_high" /\ pc[w] = "climb" /\ regs[w].l < regs[w].lo /\ regs[w].l < llim
  /\ LET r == regs[w]
         n == 2 * Least(PassPairs, Least(Pairs(r.lo - r.l), Pairs(llim - r.l)))
     IN  Step(w, HighSum(w, r, n), [ak |-> HighFill(w, r)], Cells("ak", Lanes(w)), FALSE, "climb")
  /\ UNCHANGED out

HighRun(w) ==
  /\ kern = "leg_high" /\ pc[w] = "climb" /\ regs[w].l >= regs[w].lo /\ regs[w].l < llim
  /\ LET r == regs[w]
         n == 2 * Least(PassPairs, Pairs(llim - r.l))
     IN  Step(w, HighSum(w, r, n), [ak |-> HighFill(w, r), qk |-> HighFillQ(w, r)],
              Cells("ak", Lanes(w)) \cup Cells("qk", Lanes(w)), FALSE, "climb")
  /\ UNCHANGED out

HighLast(w) ==
  /\ kern = "leg_high" /\ pc[w] = "climb" /\ regs[w].l >= llim
  /\ LET r == regs[w]
     IN  Step(w, IF r.l = llim THEN HighSum(w, r, 1) ELSE r, Nothing, {}, FALSE, "store")
  /\ UNCHANGED out

(***************************************************************************)
(* The Fourier components: two latitudes next to each other are the real   *)
(* and imaginary part of one complex row.  A component at a place is       *)
(* e*even + o*odd of the real part of a latitude, and the same of the      *)
(* imaginary part of its neighbour, as <<x, e, o, neighbour, e, o>>.       *)
(***************************************************************************)
Sgn(x) == 1 - 2 * (x % 2)

\* nr - ror and nr + ror in the north, rer + rei and rer - rei in the south.
Stored(x, south, row) ==
  LET c == IF south THEN -1 ELSE 1
      e == IF (row = im) = south THEN Sgn(x) ELSE -Sgn(x)
  IN  IF im = 0 THEN <<x, 1, c, x, 0, 0>> ELSE <<x, 1, c, Xor1(x), e, c * e>>

LegBlock == BLOCKSIZE * (IF kern = "leg_low" THEN NW ELSE 1)

LegLatitudes(w) ==
  {blk * LegBlock + i * BLOCKSIZE + j : i \in 0..((LegBlock \div BLOCKSIZE) - 1), j \in Lanes(w)}
    \cap 0..(nlat_2 - 1)

LegStore(w) ==
  /\ kern \in Leg /\ pc[w] = "store"
  /\ Step(w, regs[w], Nothing, {}, FALSE, "done")
  /\ LET rows == IF im = 0 THEN {0} ELSE {im, NPHI - im}
         new == FieldSet \X rows \X UNION {{x, 2 * nlat_2 - 1 - x} : x \in LegLatitudes(w)}
     IN  out' = [a \in new |-> IF a[3] < nlat_2 THEN Stored(a[3], FALSE, a[2])
                              ELSE Stored(2 * nlat_2 - 1 - a[3], TRUE, a[2])] @@ out

(***************************************************************************)
(* ileg_: the same y, times the weights, are put into shared memory for   *)
(* LSPAN degrees and all latitudes of the block; then each thread sums up  *)
(* for one degree and part, and the lanes of a group add up.               *)
(***************************************************************************)
Own == kern = "ileg_high"         \* has it an array reo of its own
Group == BLOCKSIZE \div (IF im = 0 THEN LSPAN ELSE 2 * LSPAN)
Row(j) == j \div (BLOCKSIZE \div LSPAN)
Part(j) == IF im = 0 THEN 0 ELSE (j \div Group) % 2
It(j) == blk * BLOCKSIZE + j

\* Where __syncthreads() is called: after which parts of the program.
\* mutant: not before the second field is put where the first one is still read
MBarriers == IF Own THEN {"load", "fill", "sum"} ELSE {"field", "start", "fill", "sum"}
Barriers == IF Own THEN {"load", "fill", "sum"} ELSE {"field", "gather", "start", "fill", "sum"}

\* ileg_m0 leaves out lmax when it launches the kernel.
q_dist == IF kern = "ileg_m0" THEN NLM_STRIDE ELSE SPAT_STRIDE
ql_dist == IF kern = "ileg_m0" THEN 0 ELSE NLM_STRIDE

\* mutant: threads without a latitude return at once
MIlegLoad(w) ==
  /\ kern \in Ileg /\ pc[w] = "load"
  /\ Step(w, regs[w], [ak |-> [j \in Lanes(w) \cap 0..(2 * LSPAN + 1) |-> Al(AlRow + j)]], {},
          "load" \in Barriers, IF It(w * WARPSZE) >= nlat_2 THEN "done" ELSE "field")
  /\ UNCHANGED out
IlegLoad(w) ==
  /\ kern \in Ileg /\ pc[w] = "load"
  /\ Step(w, regs[w], [ak |-> [j \in Lanes(w) \cap 0..(2 * LSPAN + 1) |-> Al(AlRow + j)]], {},
          "load" \in Barriers, "field")
  /\ UNCHANGED out

\* Both FFT are inverse ones: the component of order -im is in row im.
\* The factors of the imaginary parts after the sums, differences and exchanges between lanes.
North(j) == LET s == Sgn(j) IN [sum |-> 2, diff |-> s - (-s)]
South(j) == LET s == -Sgn(j) IN [sum |-> 2, diff |-> s - (-s)]
Parity(n, s, f, ri, j) ==
  IF It(j) >= nlat_2 THEN Null
  ELSE IF f > 0 /\ q_dist # SPAT_STRIDE THEN Unset
  ELSE IF n = s /\ n > 0 THEN <<"reo", f, 0, ri, It(j)>>
  ELSE IF n = -s /\ n > 0 THEN <<"reo", f, 1, ri, It(j)>> ELSE Unset

\* Even and odd parts of one field, in slots of BLOCKSIZE numbers.
Slots(f, j) ==
  IF im = 0 THEN <<Parity(1, 1, f, 0, j), Parity(1, -1, f, 0, j)>>
  ELSE LET y0 == North(Xor1(j)).diff
           y1 == South(Xor1(j)).diff
           sgn == 2 * (j % 2) - 1
       IN  <<Parity(North(j).sum, South(j).sum, f, 0, j), Parity(North(j).sum, -South(j).sum, f, 0, j),
             Parity(sgn * y0, sgn * (-y1), f, 1, j), Parity(sgn * y0, sgn * y1, f, 1, j)>>

IlegField(w) ==
  /\ kern \in Ileg /\ pc[w] = "field"
  /\ LET f == regs[w].f
         S == 0..(IF im = 0 THEN 1 ELSE 3)
         a == [i \in UNION {{s * BLOCKSIZE + j : s \in S} : j \in Lanes(w)} |->
                 Slots(f, i % BLOCKSIZE)[(i \div BLOCKSIZE) + 1]]
     IN  Step(w, regs[w], IF Own THEN [reo |-> a] ELSE [yl |-> a], {}, "field" \in Barriers,
              IF Own THEN "start" ELSE "gather")
  /\ UNCHANGED out

Slot(j) == (Row(j) % 2) + 2 * Part(j)
ReoAt(j, k) == Slot(j) * BLOCKSIZE + (j % Group) + k * Group
Gathers == (BLOCKSIZE \div Group) - 1

\* my_reo: what a thread will need, out of all threads' numbers.
IlegGather(w) ==
  /\ kern \in Ileg /\ pc[w] = "gather"
  /\ LET r == regs[w]
         mine == [j \in Lanes(w) |-> [k \in 0..Gathers |-> Read("yl", ReoAt(j, k))]]
         last == r.f = job.fields - 1
     IN  Step(w, [r EXCEPT !.reo = (r.f :> mine) @@ @, !.f = IF last THEN 0 ELSE @ + 1], Nothing,
              Cells("yl", {ReoAt(j, k) : j \in Lanes(w), k \in 0..Gathers}),
              ~last /\ "gather" \in Barriers, IF last THEN "start" ELSE "field")
  /\ UNCHANGED out

\* The first two degrees.  In the kernel for high degrees y counts from some degree on.
IlegStart(w) ==
  /\ kern \in Ileg /\ pc[w] = "start"
  /\ \E x \in 0..(IF Own /\ im > 0 THEN MaxSkip ELSE 0) :
       LET y0 == First(Read("ak", 0))
           y1 == IF y0 # Wrong /\ Read("ak", 1) = Al(AlmPair(im, m + 1) + 1) THEN m + 1 ELSE Wrong
       IN  Step(w, [regs[w] EXCEPT !.p = y0, !.q = y1, !.al = @ + 2, !.first = m + 2 * x], Nothing,
                Cells("ak", 0..1), "start" \in Barriers, "fill")
  /\ UNCHANGED out

IlegFill(w) ==
  /\ kern \in Ileg /\ pc[w] = "fill"
  /\ LET r == regs[w]
         y == Ladder(r, PairsAt(2, LSPAN), LSPAN)
         Y(k, j) == IF r.l + k - (k % 2) < r.first THEN Null ELSE <<"y", y[k], It(j)>>
         cells == {k * BLOCKSIZE + j : k \in 0..(LSPAN - 1), j \in Lanes(w)}
     IN  Step(w, [r EXCEPT !.p = y[LSPAN], !.q = y[LSPAN + 1], !.al = @ + 2 * LSPAN],
              [yl |-> [i \in cells |-> Y(i \div BLOCKSIZE, i % BLOCKSIZE)]],
              Cells("ak", 2..(2 * LSPAN + 1)), "fill" \in Barriers, "sum")
  /\ UNCHANGED out

\* One product: a latitude of this block, its part and the degree; or zero.
Product(f, d, ri, r, v) ==
  \/ r = Null
  \/ /\ Len(r) = 5 /\ r = <<"reo", f, (d - m) % 2, ri, r[5]>>
     /\ \/ v = <<"y", d, r[5]>>
        \/ v = Null /\ d < regs[(r[5] - blk * BLOCKSIZE) \div WARPSZE].first
\* The products which the group of lanes from j on adds up, all of them wanted and none missing.
GroupSum(w, f, j) ==
  LET d == regs[w].l + Row(j)
      Lane == j..(j + Group - 1)
      R(i, k) == IF Own THEN Read("reo", ReoAt(i, k)) ELSE regs[w].reo[f][i][k]
      V(i, k) == Read("yl", Row(i) * BLOCKSIZE + (i % Group) + k * Group)
  IN  IF /\ \A i \in Lane, k \in 0..Gathers : Product(f, d, Part(j), R(i, k), V(i, k))
         /\ {R(i, k) : i \in Lane, k \in 0..Gathers} \ {Null}
              = {<<"reo", f, (d - m) % 2, Part(j), It(x)>> :
                   x \in {y \in 0..(BLOCKSIZE - 1) : It(y) < nlat_2}}
      THEN {<<f, d, Part(j), blk>>} ELSE {Unset}

\* The first lane of a group stores its sum; with several blocks it adds it atomically.
Added(old, new) == IF old \cap new = {} THEN old \cup new ELSE {Unset}
\* mutant: plain stores for two blocks
MOneBlock == nlat_2 <= 2 * BLOCKSIZE
OneBlock == nlat_2 <= BLOCKSIZE

IlegSum(w) ==
  /\ kern \in Ileg /\ pc[w] = "sum"
  /\ LET r == regs[w]
         Heads == {j \in Lanes(w) : j % Group = 0 /\ r.l + Row(j) <= llim}
         At(f, j) == f * ql_dist + QlRow + 2 * (r.l + Row(j)) + Part(j)
         old(o) == IF o \in DOMAIN out /\ ~OneBlock THEN out[o] ELSE {}
         new == {<<At(f, j), GroupSum(w, f, j)>> : f \in FieldSet, j \in Heads}
         rows == UNION {(Row(j) * BLOCKSIZE)..((Row(j) + 1) * BLOCKSIZE - 1) : j \in Lanes(w)}
     IN  /\ out' = [o \in {z[1] : z \in new} |->
                      Added(old(o), (CHOOSE z \in new : z[1] = o)[2])] @@ out
         /\ Step(w, [r EXCEPT !.l = @ + LSPAN],
                 [ak |-> [i \in {j + 2 : j \in Lanes(w) \cap 0..(2 * LSPAN - 1)} |-> Al(r.al + i - 2)]],
                 Cells("yl", rows)
                   \cup (IF Own THEN Cells("reo", {ReoAt(j, k) : j \in Lanes(w), k \in 0..Gathers})
                         ELSE {}),
                 "sum" \in Barriers, IF r.l + LSPAN <= llim THEN "fill" ELSE "done")

(***************************************************************************)
(* Vector to scalar coefficients and back.  Thread j of a block is for     *)
(* number ll of a row and computes number ll+2 from its neighbours; blocks *)
(* overlap by two degrees.  A number is its place in its array.            *)
(***************************************************************************)
Number(j) == (BLOCKSIZE - 4) * blk + j - 2
ConvRow == im * (2 * (LMAX + 1) - m + MRES)
Longer == 2 * im               \* a row of the scalar coefficients has one degree more
ToScal == kern = "sphtor2scal"

ConvLoad(w) ==
  /\ kern \in Convert /\ pc[w] = "load"
  /\ LET In(j, top, o) == IF Number(j) >= 0 /\ Number(j) < 2 * (top - m)
                          THEN <<"in", ConvRow + Number(j) + o>> ELSE Null
         M == [j \in Lanes(w) |-> In(j, llim + 1, 0)]
         x == [j \in Lanes(w) |-> IF ToScal THEN In(j, llim + 1, 0) ELSE In(j, llim + 2, Longer)]
     IN  Step(w, regs[w], [M |-> M, sl |-> x, tl |-> x], {}, TRUE, "convert")
  /\ UNCHANGED out

\* What a result is made of: the sign of m, the other field at the same degree, and twice a
\* factor of the matrix and the same field at the degree below or above.
Combine(j, sgn) ==
  <<sgn, Read("tl", Xor1(j + 2)), Read("M", 2 * (j \div 2) + 1), Read("sl", j),
    Read("M", 2 * (j \div 2) + 2), Read("sl", j + 4)>>

ScalResults(w) ==
  {<<ConvRow + Number(j) + Longer + 2, Combine(j, 2 * (Number(j) % 2) - 1)>> :
     j \in {x \in Lanes(w) \cap 0..(BLOCKSIZE - 5) : Number(x) < 2 * (llim + 1 - m)}}

Ell(j) == (Number(j) \div 2) + m + 1
\* Zeroes for degree 0, and from llim to LMAX.
VectResults(w) ==
  {<<ConvRow + Number(j) + 2, IF Ell(j) <= llim /\ Ell(j) > 0 THEN Combine(j, 1 - 2 * (j % 2)) ELSE Null>> :
     j \in {x \in Lanes(w) \cap 0..(BLOCKSIZE - 5) : Ell(x) <= LMAX}}

ConvStore(w) ==
  /\ kern \in Convert /\ pc[w] = "convert"
  /\ LET new == IF ToScal THEN ScalResults(w) ELSE VectResults(w)
     IN  out' = [a \in {z[1] : z \in new} |->
                   IF a \in DOMAIN out THEN Unset ELSE (CHOOSE z \in new : z[1] = a)[2]] @@ out
  /\ Step(w, regs[w], Nothing,
          UNION {Cells("M", {2 * (j \div 2) + 1, 2 * (j \div 2) + 2}) \cup Cells("sl", {j, j + 4, Xor1(j + 2)})
                   \cup Cells("tl", {j, j + 4, Xor1(j + 2)}) : j \in Lanes(w) \cap 0..(BLOCKSIZE - 5)},
          FALSE, "done")

(***************************************************************************)
(* Transpositions, in square tiles; a warp is a row of threads.  A number  *)
(* is its place in the array that is read.                                 *)
(***************************************************************************)
TILE_DIM == WARPSZE \div 2
BLOCK_DIM_Y == BLOCKSIZE \div WARPSZE
dim0 == IF kern = "transpose_skip" THEN NPHI ELSE nlat_2
dim1 == IF kern = "transpose_skip" THEN nlat_2 ELSE NPHI
bx == TILE_DIM * (blk % (dim0 \div TILE_DIM))
by == TILE_DIM * (blk \div (dim0 \div TILE_DIM))
Repeats == {BLOCK_DIM_Y * x : x \in 0..((TILE_DIM \div BLOCK_DIM_Y) - 1)}
Columns == 0..(TILE_DIM - 1)

\* What a warp puts into its rows of the tile.
TilePuts(w) ==
  LET safe == w + by + (TILE_DIM - BLOCK_DIM_Y) <= MMAX \/ w + by >= dim1 - MMAX
      Keep(y) == safe \/ y <= MMAX \/ y >= dim1 - MMAX
      Wanted(x) == kern = "transpose_skip" => x <= MMAX \/ x >= dim0 - MMAX
      cells == {(w + y) * TILE_DIM + x : y \in Repeats, x \in {c \in Columns : Wanted(c + bx)}}
      In(y, x) == IF kern = "transpose_zero" /\ ~Keep(y) THEN Null ELSE <<"in", y * dim0 + x>>
  IN  [tile |-> [c \in cells |-> In((c \div TILE_DIM) + by, (c % TILE_DIM) + bx)]]

TileIn(w) ==
  /\ kern \in Transpose /\ pc[w] = "load"
  /\ Step(w, regs[w], TilePuts(w), {}, TRUE, "turn")
  /\ UNCHANGED out

TileRows(w) ==
  {y \in Repeats : kern = "transpose_skip" =>
     w + bx <= MMAX \/ w + bx + (TILE_DIM - BLOCK_DIM_Y) >= dim0 - MMAX}
TileReads(w) == Cells("tile", {x * TILE_DIM + w + y : y \in TileRows(w), x \in Columns})

TileOut(w) ==
  /\ kern \in Transpose /\ pc[w] = "turn"
  /\ out' = [a \in {(w + y + bx) * dim1 + x + by : y \in TileRows(w), x \in Columns} |->
               Read("tile", ((a % dim1) - by) * TILE_DIM + (a \div dim1) - bx)] @@ out
  /\ Step(w, regs[w], Nothing, TileReads(w), FALSE, "done")

(***************************************************************************)
(* The grid                                                                *)
(***************************************************************************)
Ceil(a, b) == (a + b - 1) \div b
Blocks ==
  CASE kern \in Leg -> Ceil(nlat_2, LegBlock)
    [] kern \in Ileg -> Ceil(nlat_2, BLOCKSIZE)
    [] kern \in Convert -> Ceil(2 * (LMAX + 2), BLOCKSIZE - 4)
    [] kern \in Transpose -> (dim0 \div TILE_DIM) * (dim1 \div TILE_DIM)

NextBlock ==
  /\ \A w \in Warps : pc[w] = "done"
  /\ blk < Blocks - 1
  /\ blk' = blk + 1
  /\ pc' = [w \in Warps |-> "load"] /\ bar' = [w \in Warps |-> 0]
  /\ regs' = [w \in Warps |-> Registers]
  /\ mem' = Empty /\ log' = [bar |-> 0, r |-> {}, w |-> {}]
  /\ UNCHANGED <<job, out>>

Init ==
  /\ job \in Jobs
  /\ blk = 0
  /\ pc = [w \in Warps |-> "load"] /\ bar = [w \in Warps |-> 0]
  /\ regs = [w \in Warps |-> Registers]
  /\ mem = Empty /\ log = [bar |-> 0, r |-> {}, w |-> {}]
  /\ out = <<>>

Warp(w) ==
  \/ M0Load(w) \/ M0Start(w) \/ M0Run(w) \/ M0Refill(w) \/ M0Last(w)
  \/ LowLoad(w) \/ LowPass(w) \/ LowRefill(w) \/ LowTail(w)
  \/ HighZero(w) \/ HighStart(w) \/ HighClimb(w) \/ HighRun(w) \/ HighLast(w)
  \/ LegStore(w)
  \/ IlegLoad(w) \/ IlegField(w) \/ IlegGather(w) \/ IlegStart(w) \/ IlegFill(w) \/ IlegSum(w)
  \/ ConvLoad(w) \/ ConvStore(w)
  \/ TileIn(w) \/ TileOut(w)

Finished == blk = Blocks - 1 /\ \A w \in Warps : pc[w] = "done"
End == Finished /\ UNCHANGED vars

Next == (\E w \in Warps : Warp(w)) \/ NextBlock \/ End

Spec == Init /\ [][Next]_vars

(***************************************************************************)
(* Properties                                                              *)
(***************************************************************************)
Steps == {"load", "start", "run", "refill", "climb", "store", "field", "gather", "fill", "sum",
          "convert", "turn", "done"}

\* Types: every offset, degree and counter has the range which the code relies on, and
\* shared memory is read and written within the sizes which the kernels declare.
TypeOK ==
  /\ job \in Jobs /\ blk \in 0..(Blocks - 1)
  /\ pc \in [Warps -> Steps] /\ bar \in [Warps -> Nat]
  /\ \A w \in Warps : regs[w].l \in m..(LMAX + 2 + LSPAN) /\ regs[w].al \in Nat
  /\ DOMAIN mem = Arrays /\ \A a \in Arrays : DOMAIN mem[a] = Indices(a)
  /\ \A c \in log.w \cup log.r : c[1][2] \in Indices(c[1][1])

\* Between two barriers no warp touches a number of shared memory which another one writes:
\* the kernels have a __syncthreads() wherever they need one, for every truncation.
NoRace ==
  \A a \in log.w : \A b \in log.w \cup log.r : a[1] = b[1] => a[2] = b[2]

\* Each thread of a synthesis has summed up, once, the degrees m to llim of each field, even and
\* odd ones apart, and has multiplied each y with its own coefficient; it leaves out only
\* what is too small.  The refills of shared memory shift neither table.
SumsRight ==
  \A w \in Warps : kern \in Leg /\ pc[w] = "store" =>
    /\ ~regs[w].twice
    /\ regs[w].terms = {<<f, ri, (d - m) % 2, d>> : f \in FieldSet, ri \in 0..(IF im = 0 THEN 0 ELSE 1),
                                                   d \in {x \in m..llim : x >= regs[w].first}}

\* A component of order im (e = 1) or -im (e = -1) at a place of its row: both hemispheres,
\* and the latitude next to it in the sense in which the FFT takes pairs.
Component(p, e) ==
  LET x == IF p < nlat_2 THEN p ELSE 2 * nlat_2 - 1 - p
      c == IF p < nlat_2 THEN 1 ELSE -1
      s == IF p % 2 = 0 THEN -e ELSE e
  IN  IF im = 0 THEN <<x, 1, c, x, 0, 0>> ELSE <<x, 1, c, Xor1(x), s, s * c>>

LegRight ==
  out = [a \in FieldSet \X {im, (NPHI - im) % NPHI} \X (0..(2 * nlat_2 - 1)) |->
           Component(a[3], IF a[2] = im THEN 1 ELSE -1)]
IlegRight ==
  LET Results == {<<f, d, ri>> : f \in FieldSet, d \in m..llim, ri \in 0..(IF im = 0 THEN 0 ELSE 1)}
      At(z) == z[1] * NLM_STRIDE + Place(z[2], z[3])
  IN  /\ DOMAIN out = {At(z) : z \in Results}
      /\ \A z \in Results : out[At(z)] = {<<z[1], z[2], z[3], b>> : b \in 0..(Blocks - 1)}

\* The place of a number among coefficients whose rows are longer by extra degrees.
At(d, ri, extra) == 2 * (LiM(d, im) + extra * im) + ri
ConvRight ==
  LET x == IF ToScal THEN 0 ELSE 1          \* in what is read
      top == IF ToScal THEN llim ELSE llim + 1
      In(d, ri) == IF d \in m..top THEN <<"in", At(d, ri, x)>> ELSE Null
      Factor(d, i) == IF d \in m..llim THEN <<"in", At(d, i, 0)>> ELSE Null
      Right(d, ri, v) ==
        /\ v[1] = IF ToScal THEN 2 * ri - 1 ELSE 1 - 2 * ri
        /\ v[2] = In(d, 1 - ri)
        /\ <<v[3], v[4]>> = <<Factor(d - 1, 1), In(d - 1, ri)>> \/ Null \in {v[3], v[4]} \cap {Factor(d - 1, 1), In(d - 1, ri)}
        /\ <<v[5], v[6]>> = <<Factor(d, 0), In(d + 1, ri)>> \/ Null \in {v[5], v[6]} \cap {Factor(d, 0), In(d + 1, ri)}
      Degrees == m..(IF ToScal THEN llim + 1 ELSE LMAX)
  IN  /\ DOMAIN out = {At(d, ri, 1 - x) : d \in Degrees, ri \in 0..1}
      /\ \A d \in Degrees, ri \in 0..1 :
           LET v == out[At(d, ri, 1 - x)]
           IN  IF ToScal \/ (d > 0 /\ d <= llim) THEN v # Null /\ v # Unset /\ Right(d, ri, v) ELSE v = Null

Useful(i) == i <= MMAX \/ i >= NPHI - MMAX
TransposeRight ==
  \A a \in 0..(dim0 - 1), b \in 0..(dim1 - 1) :
    LET o == a * dim1 + b
    IN  CASE kern = "transpose_skip" ->
               Useful(a) => o \in DOMAIN out /\ out[o] = <<"in", b * dim0 + a>>
          [] kern = "transpose_zero" ->
               o \in DOMAIN out /\ out[o] = IF Useful(b) THEN <<"in", b * dim0 + a>> ELSE Null
          [] OTHER -> o \in DOMAIN out /\ out[o] = <<"in", b * dim0 + a>>

\* What a kernel leaves in global memory: for synthesis the Fourier components of orders im and
\* -im at all latitudes; for analysis every coefficient at its own place, as the sum of all
\* blocks of latitudes; for the conversions every coefficient once, from its own neighbours and
\* factors; for the transpositions each useful number at its place, and zeroes for the others.
ResultsRight ==
  Finished => CASE kern \in Leg -> LegRight
                [] kern \in Ileg -> IlegRight
                [] kern \in Convert -> ConvRight
                [] kern \in Transpose -> TransposeRight

\* No warp waits at a barrier for one which has left without coming to it: conditions around
\* a __syncthreads() have the same value in all threads, whatever the truncation.
BarriersMet ==
  \/ \A w \in Warps : pc[w] = "done"
  \/ \E w \in Warps : pc[w] # "done" /\ \A v \in Warps : bar[v] >= bar[w]
=============================================================================
