---------------------------- MODULE FourierRows ----------------------------
(***************************************************************************)
(* How the synthesis kernels lay out one Fourier row, and how the analysis *)
(* kernels read it back.  A kernel computes, block of latitudes by block,  *)
(* the parts of a field which are even and odd about the equator, and the  *)
(* S2D_* macros of sht_private.h shuffle them into the rows im and NPHI-im *)
(* of the Fourier transform, two latitudes in each complex number.  The    *)
(* macros are written again for every vector extension and for the layout  *)
(* SHTNS4MAGIC, the blocks start at the polar optimisation, and the last   *)
(* one may run over the equator.                                           *)
(*                                                                         *)
(* A number is a linear form: a function from the symbols it is made of to *)
(* their coefficients.  The symbol <<"er", i>> is the real part, even      *)
(* about the equator, of the field at latitude i of the north; "od", "ei", *)
(* "oi" are its odd and imaginary parts.                                   *)
(***************************************************************************)
EXTENDS Integers, FiniteSets

CONSTANT Calls  \* the calls considered: records described by CallType

Simds == {"scalar", "sse2", "avx", "avx512"}

CallType ==
  [simd: Simds,                      \* the vector extension of the build
   magic: BOOLEAN,                   \* built with SHTNS4MAGIC
   kernel: {"fly", "mic"},           \* omp stores its rows as fly does
   kind: {"m0", "m", "fixed"},       \* row 0, row im > 0, or a *_m_* function
   nlat: Nat \ {0}, nphi: Nat \ {0},
   im: Nat, tm: Nat,                 \* the order, and its polar optimisation
   nway: Nat \ {0}]                  \* vectors in one block

VARIABLES
  call,     \* the call being executed
  pc,       \* "poles", "blocks", "store" (mic), "analyse", "sums", "done"
  k,        \* next block of latitudes
  mem,      \* the array of doubles which the kernel writes
  buffer,   \* mic: the latitudes present in its local arrays
  parts,    \* what analysis makes of the rows
  weighed   \* the latitudes whose quadrature weight analysis has read
vars == <<call, pc, k, mem, buffer, parts, weighed>>

(***************************************************************************)
(* Sizes.                                                                  *)
(***************************************************************************)
VSIZE2(c) == CASE c.simd = "scalar" -> 1 [] c.simd = "sse2" -> 2
               [] c.simd = "avx" -> 4 [] c.simd = "avx512" -> 8
NLAT_2(c) == (c.nlat + 1) \div 2
Blocks(c) == (NLAT_2(c) + VSIZE2(c) - 1) \div VSIZE2(c)         \* nk

\* The number of vectors in a block is limited by the size of the grid.
MaxWay(c) == LET it == NLAT_2(c) \div VSIZE2(c)
             IN  CASE it <= 3 -> it [] it \in 4..5 -> 4 [] it \in 6..7 -> 6 [] it >= 8 -> 8

\* The grids which set_grid and choose_nlat accept.  The AVX-512 macros need more:
\* quarters of a row, which an even number of latitudes does not give.
GridAccepted(c) ==
  /\ c.simd # "scalar" => c.nlat % 2 = 0
  /\ c.simd # "scalar" /\ c.magic => c.nlat % (2 * VSIZE2(c)) = 0
  /\ c.nlat >= 4 * VSIZE2(c)

\* The calls there are: mic is built with vectors only and has no function for one order, and there
\* is no SHTNS4MAGIC with AVX-512.  planFFT has NPHI > 2*MMAX, and the polar optimisation ends at
\* a latitude where the functions of the order are not negligible.
CallExists(c) ==
  /\ GridAccepted(c)
  /\ c.kind = "m0" => c.im = 0
  /\ c.kind = "m" => c.im > 0
  /\ c.im = 0 => c.tm = 0
  /\ c.kernel = "mic" => c.simd # "scalar" /\ c.kind # "fixed"
  /\ c.simd = "avx512" => ~c.magic
  /\ c.nway <= MaxWay(c)
  /\ c.nphi > 2 * c.im /\ c.tm < NLAT_2(c)

\* The calls whose rows are right: S2D_STORE_4MAGIC without vectors stores both hemispheres at the same
\* place, that build has no place for the equator with SHTNS4MAGIC, and the AVX-512 forms
\* of S2D_CSTORE and S2D_CSTORE2 need quarters of a row and four complex numbers at a time.
StoresWell(c) ==
  /\ ~(c.simd = "scalar" /\ c.magic /\ (c.kind = "m0" \/ c.nlat % 2 = 1))
  /\ ~(c.simd = "avx512" /\ c.kind = "fixed")
  /\ ~(c.simd = "avx512" /\ c.kernel = "fly" /\ c.kind = "m" /\ c.nlat % 4 # 0)

ASSUME CallsAssumption == Calls \subseteq CallType /\ \A c \in Calls : CallExists(c)

\* A row of the packed complex transform is NLAT doubles, two real latitudes to
\* a complex number; the rows of the other transforms hold a complex number for
\* each latitude.
Packed(c) == c.kind # "fixed" /\ ~(c.simd = "scalar" /\ c.kernel = "fly")
RowLen(c) == IF Packed(c) THEN c.nlat ELSE 2 * c.nlat
RowAt(c) == IF c.kind = "fixed" THEN 0 ELSE c.im * RowLen(c)

(***************************************************************************)
(* Linear forms and vectors of them, lanes counted from 0.                 *)
(***************************************************************************)
At(a, s) == IF s \in DOMAIN a THEN a[s] ELSE 0
Zero == [s \in {} |-> 0]
One(x) == [s \in {x} |-> 1]
Times(n, a) == [s \in DOMAIN a |-> n * a[s]]
a (+) b == LET sum(s) == At(a, s) + At(b, s)
           IN  [s \in {x \in DOMAIN a \cup DOMAIN b : sum(x) # 0} |-> sum(s)]
a (-) b == a (+) Times(-1, b)
x ++ y == [i \in DOMAIN x |-> x[i] (+) y[i]]
x -- y == [i \in DOMAIN x |-> x[i] (-) y[i]]
Clear(n) == [i \in 0..(n - 1) |-> Zero]

\* The part f of the field at latitude i: latitudes of the south are the mirror
\* image of those of the north, and there is nothing beyond the grid.
Part(c, f, i) ==
  LET mirror == c.nlat - 1 - i
  IN  CASE i >= c.nlat -> One(<<"junk", i>>)
        [] i = mirror /\ f \in {"od", "oi"} -> Zero
        [] i < mirror \/ (i = mirror /\ f \in {"er", "ei"}) -> One(<<f, i>>)
        [] i \in (mirror + 1)..(c.nlat - 1) /\ f \in {"er", "ei"} -> One(<<f, mirror>>)
        [] i \in (mirror + 1)..(c.nlat - 1) /\ f \in {"od", "oi"} -> Times(-1, One(<<f, mirror>>))

\* The vector of part f at block idx.
Vec(c, f, idx) == [j \in 0..(VSIZE2(c) - 1) |-> Part(c, f, VSIZE2(c) * idx + j)]

\* Instructions: lanes exchanged in pairs, halves, interleavings, shuffles.
vxchg(x) == [i \in DOMAIN x |-> x[IF i % 2 = 0 THEN i + 1 ELSE i - 1]]
Half(x, h) == LET n == Cardinality(DOMAIN x) \div 2 IN [i \in 0..(n - 1) |-> x[(h * n) + i]]
MMix(x, y) == [i \in DOMAIN x |-> IF i % 2 = 0 THEN y[i] ELSE x[i]]    \* mutant: the other lanes
Mix(x, y) == [i \in DOMAIN x |-> IF i % 2 = 0 THEN x[i] ELSE y[i]]           \* _mm_shuffle_pd, 10..10
unpacklo(x, y) == [i \in DOMAIN x |-> IF i % 2 = 0 THEN x[i] ELSE y[i - 1]]
unpackhi(x, y) == [i \in DOMAIN x |-> IF i % 2 = 0 THEN x[i + 1] ELSE y[i]]
permutex(x, p) == [i \in DOMAIN x |-> x[(4 * (i \div 4)) + p[(i % 4) + 1]]]      \* _mm512_permutex_pd

\* Vector v stored at address a, and the store w after the store v.
Put(a, v) == [d \in {a + i : i \in DOMAIN v} |-> v[d - a]]
w ## v == [d \in DOMAIN w \cup DOMAIN v |-> IF d \in DOMAIN w THEN w[d] ELSE v[d]]

(***************************************************************************)
(* The S2D_* macros: the doubles written for the vectors of block idx, at  *)
(* addresses counted from the row.  dst is the distance of row NPHI-im.    *)
(***************************************************************************)
MMirrored(c) == (c.nphi - c.im) * c.nlat    \* mutant: distance from row 0
Mirrored(c) == (c.nphi - 2 * c.im) * c.nlat

\* The sum and the difference of the real parts, and of the imaginary parts.
Sums(c, idx) ==
  LET er == Vec(c, "er", idx)   od == Vec(c, "od", idx)
      ei == Vec(c, "ei", idx)   oi == Vec(c, "oi", idx)
  IN  [nr |-> er ++ od, sr |-> er -- od,
       ni |-> IF c.im = 0 THEN Clear(VSIZE2(c)) ELSE ei ++ oi,
       si |-> IF c.im = 0 THEN Clear(VSIZE2(c)) ELSE ei -- oi]

ScalarStore(c, i, s) == Put(2 * i, s.nr) ## Put(2 * i + 1, Clear(1))
                        ## Put(2 * (c.nlat - 1 - i), s.sr) ## Put(2 * (c.nlat - 1 - i) + 1, Clear(1))
ScalarCStore(c, i, s) == Put(2 * i, s.nr) ## Put(2 * i + 1, s.ni)
                         ## Put(2 * (c.nlat - 1 - i), s.sr) ## Put(2 * (c.nlat - 1 - i) + 1, s.si)
\* Both halves go to 2*idx+1: the second store hides the first.
ScalarMagicStore(c, i, s) == Put(2 * (2 * i + 1), s.sr) ## Put(2 * (2 * i + 1) + 1, Clear(1))
ScalarMagicCStore(c, i, s) == Put(4 * i, s.nr) ## Put(4 * i + 1, s.ni)
                              ## Put(4 * i + 2, s.sr) ## Put(4 * i + 3, s.si)

Sse2Store(c, i, s) == Put(2 * (NLAT_2(c) - 1 - i), vxchg(s.sr)) ## Put(2 * i, s.nr)
Sse2CStore(c, i, s) ==
  LET a == vxchg(s.ni) ++ s.nr   b == s.nr -- vxchg(s.ni)
      e == vxchg(s.sr) ++ s.si   f == vxchg(s.sr) -- s.si
  IN  Put(Mirrored(c) + 2 * (NLAT_2(c) - 1 - i), Mix(e, f)) ## Put(2 * (NLAT_2(c) - 1 - i), Mix(f, e))
      ## Put(Mirrored(c) + 2 * i, Mix(a, b)) ## Put(2 * i, Mix(b, a))
Sse2CStore2(c, i, s) ==
  Put(2 * (c.nlat - 2 - 2 * i), unpackhi(s.sr, s.si)) ## Put(2 * (c.nlat - 1 - 2 * i), unpacklo(s.sr, s.si))
  ## Put(2 * (2 * i + 1), unpackhi(s.nr, s.ni)) ## Put(2 * (2 * i), unpacklo(s.nr, s.ni))
Sse2MagicStore(c, i, s) == Put(2 * (2 * i), unpacklo(s.nr, s.sr)) ## Put(2 * (2 * i + 1), unpackhi(s.nr, s.sr))
Sse2MagicCStore(c, i, s) ==
  LET p == s.nr -- s.si   q == s.sr ++ s.ni   r == s.nr ++ s.si   t == s.sr -- s.ni
  IN  Put(4 * i, unpacklo(p, q)) ## Put(Mirrored(c) + 4 * i, unpacklo(r, t))
      ## Put(4 * i + 2, unpackhi(p, q)) ## Put(Mirrored(c) + 4 * i + 2, unpackhi(r, t))
Sse2MagicCStore2(c, i, s) ==
  Put(8 * i, unpacklo(s.nr, s.ni)) ## Put(8 * i + 2, unpacklo(s.sr, s.si))
  ## Put(8 * i + 4, unpackhi(s.nr, s.ni)) ## Put(8 * i + 6, unpackhi(s.sr, s.si))

AvxStore(c, i, s) ==
  LET m == vxchg(s.sr)
  IN  Put(2 * (NLAT_2(c) - 2 - 2 * i), Half(m, 1)) ## Put(2 * (NLAT_2(c) - 1 - 2 * i), Half(m, 0)) ## Put(4 * i, s.nr)
AvxCStore(c, i, s) ==
  LET a == vxchg(s.ni) ++ s.nr   b == s.nr -- vxchg(s.ni)
      e == vxchg(s.sr) ++ s.si   f == vxchg(s.sr) -- s.si
      south(h) == 2 * (NLAT_2(c) - 1 - h - 2 * i)
  IN  Put(Mirrored(c) + south(1), Half(Mix(e, f), 1)) ## Put(Mirrored(c) + south(0), Half(Mix(e, f), 0))
      ## Put(south(1), Half(Mix(f, e), 1)) ## Put(south(0), Half(Mix(f, e), 0))
      ## Put(Mirrored(c) + 4 * i, Mix(a, b)) ## Put(4 * i, Mix(b, a))
AvxCStore2(c, i, s) ==
  LET north(d) == 2 * (4 * i + d)   south(d) == 2 * (c.nlat - 1 - d - 4 * i)
      a == unpacklo(s.nr, s.ni)   b == unpackhi(s.nr, s.ni)
      e == unpacklo(s.sr, s.si)   f == unpackhi(s.sr, s.si)
  IN  Put(south(3), Half(f, 1)) ## Put(south(2), Half(e, 1)) ## Put(south(1), Half(f, 0)) ## Put(south(0), Half(e, 0))
      ## Put(north(3), Half(b, 1)) ## Put(north(2), Half(a, 1)) ## Put(north(1), Half(b, 0)) ## Put(north(0), Half(a, 0))
AvxMagicStore(c, i, s) ==
  LET a == unpacklo(s.nr, s.sr)   b == unpackhi(s.nr, s.sr)
  IN  Put(8 * i, Half(a, 0)) ## Put(8 * i + 2, Half(b, 0)) ## Put(8 * i + 4, Half(a, 1)) ## Put(8 * i + 6, Half(b, 1))
AvxMagicCStore(c, i, s) ==
  LET p == s.nr -- s.si   q == s.sr ++ s.ni   r == s.nr ++ s.si   t == s.sr -- s.ni
      four(at, x, y) == Put(at, Half(unpacklo(x, y), 0)) ## Put(at + 2, Half(unpackhi(x, y), 0))
                        ## Put(at + 4, Half(unpacklo(x, y), 1)) ## Put(at + 6, Half(unpackhi(x, y), 1))
  IN  four(8 * i, p, q) ## four(Mirrored(c) + 8 * i, r, t)
AvxMagicCStore2(c, i, s) ==
  LET a == unpacklo(s.nr, s.ni)   b == unpackhi(s.nr, s.ni)
      e == unpacklo(s.sr, s.si)   f == unpackhi(s.sr, s.si)
  IN  Put(16 * i, Half(a, 0)) ## Put(16 * i + 2, Half(e, 0)) ## Put(16 * i + 4, Half(b, 0)) ## Put(16 * i + 6, Half(f, 0))
      ## Put(16 * i + 8, Half(a, 1)) ## Put(16 * i + 10, Half(e, 1)) ## Put(16 * i + 12, Half(b, 1)) ## Put(16 * i + 14, Half(f, 1))

Avx512Store(c, i, s) ==
  LET m == permutex(s.sr, <<3, 2, 1, 0>>)
  IN  Put(c.nlat - 8 - 8 * i, Half(m, 1)) ## Put(c.nlat - 4 - 8 * i, Half(m, 0)) ## Put(8 * i, s.nr)
Avx512CStore(c, i, s) ==
  LET a == vxchg(s.ni) ++ s.nr   b == s.nr -- vxchg(s.ni)
      e == vxchg(s.sr) ++ s.si   f == vxchg(s.sr) -- s.si
      y == permutex(Mix(f, e), <<2, 3, 0, 1>>)   z == permutex(Mix(e, f), <<2, 3, 0, 1>>)
      south(h) == 4 * (c.nlat \div 4 - 1 - h - 2 * i)
      far(h) == 4 * ((c.nphi + 1 - 2 * c.im) * (c.nlat \div 4) - 1 - h - 2 * i)
  IN  Put(far(1), Half(z, 1)) ## Put(far(0), Half(z, 0)) ## Put(south(1), Half(y, 1)) ## Put(south(0), Half(y, 0))
      ## Put(Mirrored(c) + 8 * i, Mix(a, b)) ## Put(8 * i, Mix(b, a))
Avx512CStore2(c, i, s) ==
  LET two(x, y, p) == <<unpacklo(permutex(x, p), permutex(y, p)), unpackhi(permutex(x, p), permutex(y, p))>>
      n == two(s.nr, s.ni, <<0, 2, 1, 3>>)   t == two(s.sr, s.si, <<1, 3, 0, 2>>)
      north(d) == 4 * (4 * i + d)   south(d) == 4 * (c.nlat - 1 - d - 4 * i)
  IN  Put(south(3), Half(t[2], 1)) ## Put(south(2), Half(t[1], 1)) ## Put(south(1), Half(t[2], 0)) ## Put(south(0), Half(t[1], 0))
      ## Put(north(3), Half(n[2], 1)) ## Put(north(2), Half(n[1], 1)) ## Put(north(1), Half(n[2], 0)) ## Put(north(0), Half(n[1], 0))

\* The macro used by a kernel for row 0, for the other rows, for a *_m_* function.
Writes(c, i) ==
  LET s == Sums(c, i)
      use(m0, m, fixed) == CASE c.kind = "m0" -> m0 [] c.kind = "m" -> m [] c.kind = "fixed" -> fixed
  IN  CASE c.simd = "scalar" /\ ~c.magic -> use(ScalarStore(c, i, s), ScalarCStore(c, i, s), ScalarCStore(c, i, s))
        [] c.simd = "scalar" /\ c.magic -> use(ScalarMagicStore(c, i, s), ScalarMagicCStore(c, i, s), ScalarMagicCStore(c, i, s))
        [] c.simd = "sse2" /\ ~c.magic -> use(Sse2Store(c, i, s), Sse2CStore(c, i, s), Sse2CStore2(c, i, s))
        [] c.simd = "sse2" /\ c.magic -> use(Sse2MagicStore(c, i, s), Sse2MagicCStore(c, i, s), Sse2MagicCStore2(c, i, s))
        [] c.simd = "avx" /\ ~c.magic -> use(AvxStore(c, i, s), AvxCStore(c, i, s), AvxCStore2(c, i, s))
        [] c.simd = "avx" /\ c.magic -> use(AvxMagicStore(c, i, s), AvxMagicCStore(c, i, s), AvxMagicCStore2(c, i, s))
        [] c.simd = "avx512" -> use(Avx512Store(c, i, s), Avx512CStore(c, i, s), Avx512CStore2(c, i, s))

(***************************************************************************)
(* Synthesis.                                                              *)
(***************************************************************************)
\* Complex cells of row im and, in the packed layout, of row NPHI-im set to zero.
ZeroCells(c, cells) ==
  LET at == {2 * j + h : j \in cells, h \in {0, 1}}
      both == IF Packed(c) THEN at \cup {a + Mirrored(c) : a \in at} ELSE at
  IN  [a \in {RowAt(c) + d : d \in both} |-> Zero]

\* The polar optimisation: cells next to the poles are set to zero, in pairs of
\* latitudes, and the sums start after them.
PolarCells(c, l, cells) ==
  IF c.magic THEN 0..(2 * l - 1) ELSE 0..(l - 1) \cup (cells - l)..(cells - 1)

FlyPoles ==
  /\ pc = "poles" /\ call.kernel = "fly" /\ call.kind = "m"
  /\ LET l == IF call.simd = "scalar" THEN call.tm ELSE call.tm \div 2
     IN  /\ mem' = ZeroCells(call, PolarCells(call, l, RowLen(call) \div 2))
         /\ k' = IF call.simd = "scalar" THEN l ELSE l \div (VSIZE2(call) \div 2)
  /\ pc' = "blocks"
  /\ UNCHANGED <<call, buffer, parts, weighed>>

FixedPoles ==
  /\ pc = "poles" /\ call.kind = "fixed"
  /\ LET l == IF call.im = 0 THEN 0 ELSE call.tm
     IN  /\ mem' = ZeroCells(call, PolarCells(call, l, call.nlat))
         /\ k' = l \div VSIZE2(call)
  /\ pc' = "blocks"
  /\ UNCHANGED <<call, buffer, parts, weighed>>

\* Row 0 has no polar optimisation; mic first computes, and clears afterwards.
NoPoles ==
  /\ pc = "poles" /\ call.kind # "fixed" /\ (call.kind = "m0" \/ call.kernel = "mic")
  /\ k' = IF call.kind = "m0" THEN 0 ELSE call.tm \div VSIZE2(call)
  /\ pc' = "blocks"
  /\ UNCHANGED <<call, mem, buffer, parts, weighed>>

\* One block of NWAY vectors, stored with the macros.
FlyBlock ==
  /\ pc = "blocks" /\ (call.kernel = "fly" \/ call.kind = "fixed")
  /\ LET idxs == {j \in k..(k + call.nway - 1) : call.magic => j < Blocks(call)}
         written == [j \in idxs |-> Writes(call, j)]
         at == UNION {DOMAIN written[j] : j \in idxs}
         last(a) == CHOOSE j \in idxs : a \in DOMAIN written[j]
                                        /\ \A i \in idxs : i > j => a \notin DOMAIN written[i]
     IN  mem' = [a \in {RowAt(call) + d : d \in at} |->
                   LET d == a - RowAt(call) IN written[last(d)][d]] ## mem
  /\ k' = k + call.nway
  /\ pc' = IF k' < Blocks(call) THEN "blocks" ELSE "analyse"
  /\ UNCHANGED <<call, buffer, parts, weighed>>

\* mic keeps the sums of a block in local arrays.
MicBlock ==
  /\ pc = "blocks" /\ call.kernel = "mic" /\ call.kind # "fixed"
  /\ buffer' = buffer \cup (k * VSIZE2(call))..((k + call.nway) * VSIZE2(call) - 1)
  /\ k' = k + call.nway
  /\ pc' = IF k' < Blocks(call) THEN "blocks" ELSE "store"
  /\ UNCHANGED <<call, mem, parts, weighed>>

\* What the local arrays of mic hold at latitude i.
Kept(f, i) == IF i \in buffer THEN Part(call, f, i) ELSE One(<<"junk", i>>)
nr(i) == Kept("er", i) (+) Kept("od", i)
sr(i) == Kept("er", i) (-) Kept("od", i)
ni(i) == IF call.im = 0 THEN Zero ELSE Kept("ei", i) (+) Kept("oi", i)
si(i) == IF call.im = 0 THEN Zero ELSE Kept("ei", i) (-) Kept("oi", i)
Cell(j, re, im) == Put(2 * j, [h \in {0, 1} |-> IF h = 0 THEN re ELSE im])
Shift(w, d) == [a \in {x + d : x \in DOMAIN w} |-> w[a - d]]
Merge(ws) == [a \in UNION {DOMAIN w : w \in ws} |-> (CHOOSE w \in ws : a \in DOMAIN w)[a]]

MicStoreM0 ==
  /\ pc = "store" /\ call.kind = "m0"
  /\ mem' = IF call.magic THEN Merge({Cell(i, nr(i), sr(i)) : i \in 0..(NLAT_2(call) - 1)})
            ELSE Merge({Cell(NLAT_2(call) - 1 - i \div 2, sr(i + 1), sr(i)) ## Cell(i \div 2, nr(i), nr(i + 1))
                         : i \in {x \in 0..(NLAT_2(call) - 1) : x % 2 = 0}})
  /\ pc' = "analyse"
  /\ UNCHANGED <<call, k, buffer, parts, weighed>>

MicStore ==
  /\ pc = "store" /\ call.kind = "m"
  /\ LET first == 2 * (call.tm \div 2)
         far(w) == Shift(w, RowAt(call) + Mirrored(call))
         near(w) == Shift(w, RowAt(call))
         pair(i) == near(Cell(i \div 2, nr(i) (-) ni(i + 1), nr(i + 1) (+) ni(i)))
                    ## far(Cell(i \div 2, nr(i) (+) ni(i + 1), nr(i + 1) (-) ni(i)))
                    ## near(Cell(NLAT_2(call) - 1 - i \div 2, sr(i + 1) (-) si(i), sr(i) (+) si(i + 1)))
                    ## far(Cell(NLAT_2(call) - 1 - i \div 2, sr(i + 1) (+) si(i), sr(i) (-) si(i + 1)))
         one(i) == near(Cell(i, nr(i) (-) si(i), sr(i) (+) ni(i))) ## far(Cell(i, nr(i) (+) si(i), sr(i) (-) ni(i)))
         from == first..(NLAT_2(call) - 1)
     IN  mem' = (IF call.magic THEN Merge({one(i) : i \in from})
                 ELSE Merge({pair(i) : i \in {x \in from : x % 2 = 0}}))
                ## ZeroCells(call, PolarCells(call, first \div 2, NLAT_2(call)))
  /\ pc' = "analyse"
  /\ UNCHANGED <<call, k, buffer, parts, weighed>>

(***************************************************************************)
(* Analysis.  Both plans of the packed layout have the same direction:     *)
(* after synthesis and analysis row im is where row NPHI-im was.           *)
(***************************************************************************)
Read(a) == IF a \in DOMAIN mem THEN mem[a] ELSE One(<<"unset", a>>)
Row(d) == Read(RowAt(call) + Mirrored(call) + d)          \* F[im*m_inc + d]
MirrorRow(d) == Read(RowAt(call) + d)                     \* F[(NPHI-im)*m_inc + d]

MFirst == ((((call.tm + VSIZE2(call) - 1) \div VSIZE2(call)) * VSIZE2(call)) \div 2) * 2    \* mutant: rounded up
First == ((((call.tm \div VSIZE2(call)) * VSIZE2(call)) \div 2)) * 2
Lats(from) == from..(Blocks(call) * VSIZE2(call) - 1)

\* The sums and differences of north and south, by latitude.
NorthSouth(n, s) == [er |-> n (+) s, od |-> n (-) s, ei |-> Zero, oi |-> Zero]
SymAsymM0 == [i \in Lats(0) |-> NorthSouth(Read(i), Read(call.nlat - 1 - i))]
SymAsymMagicM0 == [i \in Lats(0) |-> NorthSouth(Read(2 * i), Read(2 * i + 1))]

\* The loop takes the latitudes k and k+1 together: k holds the real numbers of
\* one and the imaginary numbers of the other.
SymAsymQ ==
  [i \in Lats(First) |->
     LET k0 == (i \div 2) * 2   south == call.nlat - 2 - k0
         sum(d) == Row(d) (+) MirrorRow(d)   dif(d) == Row(d) (-) MirrorRow(d)
         ani == Times(-1, dif(k0 + 1))       bsi == Times(-1, dif(south + 1))
         an == sum(k0)   bn == sum(k0 + 1)   bni == dif(k0)
         bs == sum(south)   as == sum(south + 1)   asi == dif(south)
     IN  IF i = k0 THEN [er |-> an (+) as, od |-> an (-) as, ei |-> ani (+) asi, oi |-> ani (-) asi]
         ELSE [er |-> bn (+) bs, od |-> bn (-) bs, ei |-> bni (+) bsi, oi |-> bni (-) bsi]]

SymAsymMagicQ ==
  [i \in Lats(First) |->
     LET r == Row(2 * i) (+) MirrorRow(2 * i)
         y == MirrorRow(2 * i + 1) (-) Row(2 * i + 1)
         s == MirrorRow(2 * i + 1) (+) Row(2 * i + 1)
         z == Row(2 * i) (-) MirrorRow(2 * i)
     IN  [er |-> r (+) s, ei |-> y (+) z, od |-> r (-) s, oi |-> y (-) z]]

FixedSymAsym ==
  [i \in Lats(IF call.im = 0 THEN 0 ELSE First) |->
     LET n == 2 * (IF call.magic THEN 2 * i ELSE i)
         s == 2 * (IF call.magic THEN 2 * i + 1 ELSE call.nlat - 1 - i)
     IN  [er |-> Read(n) (+) Read(s), od |-> Read(n) (-) Read(s),
          ei |-> Read(n + 1) (+) Read(s + 1), oi |-> Read(n + 1) (-) Read(s + 1)]]

Analyse ==
  /\ pc = "analyse"
  /\ parts' = CASE ~Packed(call) /\ call.kind # "fixed" -> parts
               [] call.kind = "fixed" -> FixedSymAsym
               [] Packed(call) /\ call.kind = "m0" -> IF call.magic THEN SymAsymMagicM0 ELSE SymAsymM0
               [] Packed(call) /\ call.kind = "m" /\ ~call.magic -> SymAsymQ
               [] Packed(call) /\ call.kind = "m" /\ call.magic -> SymAsymMagicQ
  /\ pc' = "sums"
  /\ k' = IF call.im = 0 THEN 0 ELSE call.tm \div VSIZE2(call)
  /\ UNCHANGED <<call, mem, buffer, weighed>>

\* The sums over latitudes take NW vectors at a time, twice as many with mic.
NW(c) == IF c.kernel = "mic" THEN 2 * c.nway ELSE c.nway

\* mutant: a block which would pass the equator is left out
MSumBlock ==
  /\ pc = "sums"
  /\ weighed' = weighed \cup (k * VSIZE2(call))..((k + NW(call)) * VSIZE2(call) - 1)
  /\ k' = k + NW(call)
  /\ pc' = IF k' + NW(call) <= Blocks(call) THEN "sums" ELSE "done"
  /\ UNCHANGED <<call, mem, buffer, parts>>

SumBlock ==
  /\ pc = "sums"
  /\ weighed' = weighed \cup (k * VSIZE2(call))..((k + NW(call)) * VSIZE2(call) - 1)
  /\ k' = k + NW(call)
  /\ pc' = IF k' < Blocks(call) THEN "sums" ELSE "done"
  /\ UNCHANGED <<call, mem, buffer, parts>>

\* The weights, padded with zeros for blocks which pass the equator.
Weights(c) == 0..(NLAT_2(c) + 8 * VSIZE2(c) - 2)

Init ==
  /\ call \in Calls
  /\ pc = "poles" /\ k = 0
  /\ mem = [a \in {} |-> Zero] /\ buffer = {} /\ parts = [i \in {} |-> Zero]
  /\ weighed = {}

Next ==
  \/ FlyPoles \/ FixedPoles \/ NoPoles
  \/ FlyBlock \/ MicBlock \/ MicStoreM0 \/ MicStore
  \/ Analyse \/ SumBlock

Spec == Init /\ [][Next]_vars

(***************************************************************************)
(* What is expected: the value of the field at each position of the rows.  *)
(* SHTNS4MAGIC orders the latitudes north, south, north, ...               *)
(***************************************************************************)
LatAt(c, p) == IF ~c.magic THEN p ELSE IF p % 2 = 0 THEN p \div 2 ELSE c.nlat - 1 - p \div 2
North(c, i) == IF i < NLAT_2(c) THEN i ELSE c.nlat - 1 - i
Re(c, p) == Part(c, "er", LatAt(c, p)) (+) Part(c, "od", LatAt(c, p))
Im(c, p) == IF c.im = 0 THEN Zero ELSE Part(c, "ei", LatAt(c, p)) (+) Part(c, "oi", LatAt(c, p))

HasMirror(c) == Packed(c) /\ c.im > 0
MayBeZero(c, p) == c.im > 0 /\ North(c, LatAt(c, p)) < c.tm

\* The cell j of the row im holds x + i*y for the positions 2j and 2j+1 of the
\* packed layout, for the position j of the other one.
CellRight(c, at, re, im, positions) ==
  \/ Read(at) = re /\ Read(at + 1) = im
  \/ Read(at) = Zero /\ Read(at + 1) = Zero /\ \A p \in positions : MayBeZero(c, p)

\* Blocks which run over the equator, and their mirror images, stay in the two rows
\* of the order and never store a latitude which does not exist.
InsideRows ==
  LET row(r) == {RowAt(call) + r + d : d \in 0..(RowLen(call) - 1)}
      rows == IF HasMirror(call) THEN row(0) \cup row(Mirrored(call)) ELSE row(0)
  IN  /\ DOMAIN mem \subseteq rows
      /\ \A a \in DOMAIN mem : \A x \in DOMAIN mem[a] : x[1] # "junk"

\* Types, and nothing is stored outside the rows.
TypeOK ==
  /\ call \in Calls
  /\ pc \in {"poles", "blocks", "store", "analyse", "sums", "done"}
  /\ k \in 0..(Blocks(call) + NW(call))
  /\ buffer \subseteq 0..(NLAT_2(call) + call.nway * VSIZE2(call) - 2)   \* the size of the local arrays
  /\ InsideRows

\* Whatever the vectors, the block size and the polar optimisation, the stores of the
\* S2D_* macros leave at each position of both rows the value of the field there;
\* only positions which the polar optimisation skips hold zero.
RowsRight ==
  pc \in {"analyse", "sums", "done"} =>
    IF Packed(call)
    THEN \A j \in 0..(call.nlat \div 2 - 1) :
           LET a == 2 * j   b == 2 * j + 1
               plus == CellRight(call, RowAt(call) + 2 * j, Re(call, a) (-) Im(call, b),
                                 Re(call, b) (+) Im(call, a), {a, b})
               minus == CellRight(call, RowAt(call) + Mirrored(call) + 2 * j, Re(call, a) (+) Im(call, b),
                                  Re(call, b) (-) Im(call, a), {a, b})
           IN  plus /\ (HasMirror(call) => minus)
    ELSE \A p \in 0..(call.nlat - 1) : CellRight(call, RowAt(call) + 2 * p, Re(call, p), Im(call, p), {p})

\* Analysis reads no weight past the padding, and once it has ended the weight of every
\* latitude from the polar optimisation to the equator.
WeightsRead ==
  /\ weighed \subseteq Weights(call)
  /\ pc = "done" => (IF call.im = 0 THEN 0 ELSE call.tm)..(NLAT_2(call) - 1) \subseteq weighed

\* The analysis kernels find in the rows of synthesis the parts which synthesis has
\* put there, at every latitude from the polar optimisation to the equator.
RoundTrip ==
  pc = "sums" /\ (Packed(call) \/ call.kind = "fixed") =>
    \A i \in (IF call.im = 0 THEN 0 ELSE call.tm)..(NLAT_2(call) - 1) :
      LET n == IF HasMirror(call) THEN 4 ELSE 2
          is(f) == Times(n, Part(call, f, i))
      IN  /\ i \in DOMAIN parts
          /\ parts[i].er = is("er") /\ parts[i].od = is("od")
          /\ call.im > 0 => parts[i].ei = is("ei") /\ parts[i].oi = is("oi")
=============================================================================
