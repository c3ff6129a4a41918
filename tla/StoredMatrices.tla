--------------------------- MODULE StoredMatrices ---------------------------
(***************************************************************************)
(* The transforms with stored matrices (SHTNS_MEM).  Four blocks of memory *)
(* hold the Legendre functions of every order, degree and latitude: ylm    *)
(* and dylm for synthesis, latitude after latitude, zlm and dzlm for       *)
(* analysis, two degrees interleaved.  They are laid out when allocated,   *)
(* filled, moved when polar values are dropped (OptimizeMatrices), reduced *)
(* to order 0 when only the vectors use the rest (free_unused_matrices),   *)
(* and then read by kernels which only add to a pointer, and which read    *)
(* past the end of a row counting on zeroes there.                         *)
(*                                                                         *)
(* A number is abstracted to what it stands for: <<kind, order, degree,    *)
(* latitude>>, with kind "y" (ylm), "t" and "p" (the two derivatives in    *)
(* dylm), "z", "zt" and "zp" (the same with their weights).                *)
(***************************************************************************)
EXTENDS Integers, FiniteSets

CONSTANTS Configs,        \* the sizes considered: [lmax, mmax, mres, n, vect]
          Calls,          \* the transforms considered: [dir, f, llim, simd]
          Uses,           \* the functions which may be left to the matrices, of UseType
          MaxPolar,       \* the latitudes which polar optimisation may drop
          ReallocMoves    \* may realloc return another address

ConfigType == [lmax: Nat \ {0}, mmax: Nat, mres: Nat \ {0}, n: Nat \ {0}, vect: BOOLEAN]
CallType == [dir: {"synth", "analys"}, f: {"Q", "V", "3"}, llim: Nat \ {0}, simd: BOOLEAN]
UseType == [{"synth", "analys"} -> SUBSET {"Q", "V", "3"}]

ASSUME CallsAssumption == Configs \subseteq ConfigType /\ Calls \subseteq CallType
                          /\ (\A c \in Configs : c.mmax * c.mres <= c.lmax)
                          /\ Uses \subseteq UseType /\ MaxPolar \in Nat /\ ReallocMoves \in BOOLEAN

VARIABLES
  config,
  pc,                       \* "alloc", "synth", "gauss", "polar", "shift", "pack", "pad",
                            \* "unused", "ready", "sum", "stored", "done"
  ylm, dylm, zlm, dzlm,     \* the blocks, as functions from offset to number
  row,                      \* the tables of row pointers, as offsets
  used,                     \* the functions left to the matrices
  tm,                       \* the first latitude kept for each order
  stray,                    \* has something been written outside a block
  im, l, it,                \* loop counters
  call,                     \* the transform being executed
  p,                        \* the pointers of the kernel into the two matrices
  terms,                    \* the products summed up for one result
  out                       \* analysis: the results stored so far
vars == <<config, pc, ylm, dylm, zlm, dzlm, row, used, tm, stray, im, l, it, call, p, terms, out>>
mem == <<config, ylm, dylm, zlm, dzlm, row, used, tm, stray>>

LMAX == config.lmax
MMAX == config.mmax
MRES == config.mres
NLAT_2 == config.n
m == im * MRES
Odd(x) == x % 2
Half(x) == x \div 2

Zero == <<"0", 0, 0, 0>>
Unset == <<"unset", 0, 0, 0>>
Outside == <<"outside", 0, 0, 0>>
Old == 1000000              \* offset of a block which realloc has left
Pad == -1                   \* in place of a degree or latitude: a zero added on purpose
Wrong == -2

At(b, a) == IF a \in DOMAIN b THEN b[a] ELSE Outside
Put(b, w) == [a \in DOMAIN b |-> IF a \in DOMAIN w THEN w[a] ELSE b[a]]
Fits(b, w) == DOMAIN w \subseteq DOMAIN b
\* Several writes of one statement list, given as pairs of offset and number.
Writes(s) == [a \in {x[1] : x \in s} |-> (CHOOSE x \in s : x[1] = a)[2]]

(***************************************************************************)
(* alloc_SHTarrays                                                         *)
(***************************************************************************)
Even(x) == x + Odd(x)
\* nlm_calc: the degrees of the orders up to i.
Degrees(i) == (i + 1) * (LMAX + 1) - Half(MRES * i * (i + 1))
NLM == Degrees(MMAX)
\* Row 1 starts at first; the row of each order after it holds all its degrees and latitudes.
Rows(first, w) ==
  [i \in 0..MMAX |-> IF i = 0 THEN 0 ELSE first + w * NLAT_2 * (Degrees(i - 1) - (LMAX + 1))]
Block(size) == [a \in 0..(size - 1) |-> Unset]
If(b, x) == IF b THEN x ELSE 0

YSize == (NLM - (LMAX + 1) + Even(LMAX + 1)) * NLAT_2 + If(MMAX = 0, 3)
DSize == 2 * (NLM - (LMAX + 1) + Half(Even(LMAX))) * NLAT_2 + If(MMAX = 0, 2)
\* mutant: no room for the padding after degree 0
MZSize == NLM * NLAT_2 + If(MMAX = 0, 2 * Odd(NLAT_2) * Odd(LMAX + 1))
ZSize == NLM * NLAT_2 + Odd(NLAT_2) + If(MMAX = 0, 2 * Odd(NLAT_2) * Odd(LMAX + 1))
DZSize == 2 * (NLM - 1) * NLAT_2

Alloc ==
  /\ pc = "alloc"
  /\ ylm' = Block(YSize) /\ zlm' = Block(ZSize)
  /\ dylm' = (IF config.vect THEN Block(DSize) ELSE <<>>)
  /\ dzlm' = (IF config.vect THEN Block(DZSize) ELSE <<>>)
  /\ row' = [y |-> Rows(NLAT_2 * Even(LMAX + 1), 1),
             d |-> Rows(2 * Half(Even(LMAX)) * NLAT_2, 2),
             z |-> Rows(NLAT_2 * (LMAX + 1) + Odd(NLAT_2), 1),
             dz |-> Rows(2 * NLAT_2 * LMAX, 2)]
  /\ pc' = "synth" /\ im' = 0 /\ it' = 0
  /\ UNCHANGED <<config, used, tm, stray, l, call, p, terms, out>>

(***************************************************************************)
(* init_SH_synth: the functions at one latitude; order 0 has rows of its   *)
(* own, which end with zeroes that the next row overwrites.                *)
(***************************************************************************)
YL0(t, d) == row.y[0] + t * (Half(LMAX + 2) * 2) + d
DYL0(t, d) == row.d[0] + t * (Half(LMAX + 1) * 2) + d - 1
YL(i, t, d) == row.y[i] + t * (LMAX - i * MRES + 1) + d - i * MRES
DYL(i, t, d) == row.d[i] + 2 * (t * (LMAX - i * MRES + 1) + d - i * MRES)

SynthWrites ==
  IF im = 0
  THEN Writes({<<YL0(it, d), <<"y", 0, d, it>>>> : d \in 0..LMAX}
              \cup {<<YL0(it, d), Zero>> : d \in (LMAX + 1)..(LMAX + 3)})
  ELSE Writes({<<YL(im, it, d), <<"y", im, d, it>>>> : d \in m..LMAX})
SynthDWrites ==
  IF im = 0
  THEN Writes({<<DYL0(it, d), <<"t", 0, d, it>>>> : d \in 1..LMAX}
              \cup {<<DYL0(it, d), Zero>> : d \in (LMAX + 1)..(LMAX + 2)})
  ELSE Writes({<<DYL(im, it, d), <<"t", im, d, it>>>> : d \in m..LMAX}
              \cup {<<DYL(im, it, d) + 1, <<"p", im, d, it>>>> : d \in m..LMAX})

\* The next latitude, then the next order, then the stage after.
NextLatitude(stage) ==
  IF it + 1 < NLAT_2 THEN it' = it + 1 /\ UNCHANGED <<im, pc>>
  ELSE IF im < MMAX THEN it' = 0 /\ im' = im + 1 /\ UNCHANGED pc
  ELSE it' = 0 /\ im' = 0 /\ pc' = stage

init_SH_synth ==
  /\ pc = "synth"
  /\ ylm' = Put(ylm, SynthWrites)
  /\ dylm' = IF config.vect THEN Put(dylm, SynthDWrites) ELSE dylm
  /\ stray' = (stray \/ ~Fits(ylm, SynthWrites) \/ (config.vect /\ ~Fits(dylm, SynthDWrites)))
  /\ NextLatitude("gauss")
  /\ UNCHANGED <<config, zlm, dzlm, row, used, tm, l, call, p, terms, out>>

(***************************************************************************)
(* init_SH_gauss: the transpose, two degrees side by side.                 *)
(***************************************************************************)
Weighted(x, kind) == IF x[1] \in {"y", "t", "p"} THEN <<kind, x[2], x[3], x[4]>> ELSE x
YLM(t, d, i) == At(ylm, IF i = 0 THEN YL0(t, d) ELSE YL(i, t, d))
DTYLM(t, d, i) == At(dylm, IF i = 0 THEN DYL0(t, d) ELSE DYL(i, t, d))
DPYLM(t, d, i) == IF i = 0 THEN Zero ELSE At(dylm, DYL(i, t, d) + 1)

\* Degrees first, first+1, ... in pairs; the last one may be alone.
Paired(first, last) == {d \in first..(last - 1) : (d - first) % 2 = 0}
Alone(first, last) == IF first <= last /\ (last - first) % 2 = 0 THEN {last} ELSE {}
First == IF im = 0 THEN 1 ELSE m

ZAt(d, e) == row.z[im] + (d - m) * NLAT_2 + 2 * it + e + If(im = 0, Odd(NLAT_2))
ZLastAt == row.z[im] + (LMAX - m) * NLAT_2 + it + If(im = 0, Odd(NLAT_2))
GaussWrites ==
  Writes((IF im = 0 THEN {<<it, Weighted(YLM(it, 0, 0), "z")>>} ELSE {})
         \cup {<<ZAt(x[1], x[2]), Weighted(YLM(it, x[1] + x[2], im), "z")>> :
                  x \in Paired(First, LMAX) \X {0, 1}}
         \cup {<<ZLastAt, Weighted(YLM(it, d, im), "z")>> : d \in Alone(First, LMAX)})
DZAt(d, e) == row.dz[im] + 2 * ((d - First) * NLAT_2 + 2 * it + e)
DZLastAt == row.dz[im] + 2 * ((LMAX - First) * NLAT_2 + it)
GaussDWrites ==
  Writes(UNION {{<<DZAt(x[1], x[2]), Weighted(DTYLM(it, x[1] + x[2], im), "zt")>>,
                 <<DZAt(x[1], x[2]) + 1, Weighted(DPYLM(it, x[1] + x[2], im), "zp")>>} :
                  x \in Paired(First, LMAX) \X {0, 1}}
         \cup UNION {{<<DZLastAt, Weighted(DTYLM(it, d, im), "zt")>>,
                      <<DZLastAt + 1, Weighted(DPYLM(it, d, im), "zp")>>} : d \in Alone(First, LMAX)})

init_SH_gauss ==
  /\ pc = "gauss"
  /\ zlm' = Put(zlm, GaussWrites)
  /\ dzlm' = IF config.vect THEN Put(dzlm, GaussDWrites) ELSE dzlm
  /\ stray' = (stray \/ ~Fits(zlm, GaussWrites) \/ (config.vect /\ ~Fits(dzlm, GaussDWrites)))
  /\ NextLatitude("polar")
  /\ UNCHANGED <<config, ylm, dylm, row, used, tm, l, call, p, terms, out>>

(***************************************************************************)
(* OptimizeMatrices: the latitudes next to the poles, where the functions  *)
(* of an order are below eps, are dropped.  In ylm a row starts later; the *)
(* numbers of zlm are moved together, in place, in the order of the loops. *)
(***************************************************************************)
\* eps > 0 gives a first latitude to each order, no less than that of the order before.
Polar ==
  {t \in [0..MMAX -> 0..MaxPolar] :
     t[0] = 0 /\ \A i \in 0..MMAX : t[i] < NLAT_2 /\ (i > 0 => t[i - 1] <= t[i])}

PolarRows ==
  /\ pc = "polar"
  /\ tm' \in Polar
  /\ row' = [row EXCEPT !.y = [i \in 0..MMAX |-> @[i] + tm'[i] * (LMAX - i * MRES + 1)],
                        !.d = [i \in 0..MMAX |-> @[i] + 2 * tm'[i] * (LMAX - i * MRES + 1)]]
  /\ im' = 1 /\ l' = MRES /\ it' = 0 /\ pc' = "shift"
  /\ UNCHANGED <<config, ylm, dylm, zlm, dzlm, used, stray, call, p, terms, out>>

Copy(b, dst, src) == [a \in DOMAIN b |-> IF a = dst THEN At(b, src) ELSE b[a]]
Copy2(b, dst, src) == Copy(Copy(b, dst, src), dst + 1, src + 1)
Copy4(b, dst, src) == Copy2(Copy2(b, dst, src), dst + 2, src + 2)

ToShift == im <= MMAX /\ tm[im] > 0 /\ l <= LMAX

\* Latitude it of degrees l and l+1, or of the last degree alone.
PolarShift ==
  /\ pc = "shift" /\ ToShift
  /\ LET w == NLAT_2 - tm[im]
         k == IF l < LMAX THEN 2 ELSE 1
         dst == (l - m) * w + k * it
         src == (l - m) * NLAT_2 + k * (it + tm[im])
     IN  /\ zlm' = IF l < LMAX THEN Copy2(zlm, row.z[im] + dst, row.z[im] + src)
                   ELSE Copy(zlm, row.z[im] + dst, row.z[im] + src)
         /\ dzlm' = IF ~config.vect THEN dzlm
                    ELSE IF l < LMAX THEN Copy4(dzlm, row.dz[im] + 2 * dst, row.dz[im] + 2 * src)
                    ELSE Copy2(dzlm, row.dz[im] + 2 * dst, row.dz[im] + 2 * src)
         /\ IF it + 1 < w THEN it' = it + 1 /\ l' = l ELSE it' = 0 /\ l' = l + 2
  /\ UNCHANGED <<config, pc, ylm, dylm, row, used, tm, stray, im, call, p, terms, out>>

PolarNext ==
  /\ pc = "shift" /\ ~ToShift
  /\ IF im < MMAX THEN im' = im + 1 /\ l' = (im + 1) * MRES /\ pc' = pc
     ELSE im' = 0 /\ l' = 1 /\ pc' = "pack"
  /\ it' = 0
  /\ UNCHANGED <<mem, call, p, terms, out>>

\* For order 0 only the derivative in theta is kept, packed to the front of the row.
PackDerivative ==
  /\ pc = "pack" /\ config.vect /\ l <= LMAX
  /\ LET k == IF l < LMAX THEN 2 ELSE 1
         a == (l - 1) * NLAT_2 + k * it
     IN  dzlm' = IF l < LMAX THEN Copy(Copy(dzlm, a, 2 * a), a + 1, 2 * (a + 1)) ELSE Copy(dzlm, a, 2 * a)
  /\ IF it + 1 < NLAT_2 THEN it' = it + 1 /\ l' = l ELSE it' = 0 /\ l' = l + 2
  /\ UNCHANGED <<config, pc, ylm, dylm, zlm, row, used, tm, stray, im, call, p, terms, out>>

\* mutant: order 0 alone is not padded at its end
MZeroPads == IF Odd(NLAT_2) = 0 THEN <<>> ELSE Writes({<<NLAT_2, Zero>>})
ZeroPads ==
  IF Odd(NLAT_2) = 0 THEN <<>>
  ELSE Writes({<<NLAT_2, Zero>>}
              \cup (IF MMAX = 0 /\ Odd(LMAX) = 0
                    THEN {<<(LMAX + 1) * NLAT_2 + e, Zero>> : e \in {1, 2}} ELSE {}))
Padding ==
  /\ pc = "pack" /\ (~config.vect \/ l > LMAX)
  /\ zlm' = Put(zlm, ZeroPads) /\ stray' = (stray \/ ~Fits(zlm, ZeroPads))
  /\ pc' = "unused" /\ im' = 0 /\ l' = 0 /\ it' = 0
  /\ UNCHANGED <<config, ylm, dylm, dzlm, row, used, tm, call, p, terms, out>>

(***************************************************************************)
(* free_unused_matrices.  sht_func has given each function of a type to an *)
(* algorithm; a block nobody reads is freed, and a scalar block which only *)
(* the functions of three components read is cut off after order 0.        *)
(***************************************************************************)
Cut(b, size) == [a \in 0..(size - 1) |-> At(b, a)]
Moved(rows) == IF ReallocMoves THEN [i \in DOMAIN rows |-> Old + rows[i]] ELSE rows
Reduced(u) == "3" \in u /\ "Q" \notin u /\ MMAX > 0
Freed(f, u) == f \notin u /\ "3" \notin u

free_unused_matrices ==
  /\ pc = "unused"
  /\ used' \in {u \in Uses : config.vect \/ \A d \in DOMAIN u : u[d] \subseteq {"Q"}}
  /\ LET s == used'["synth"]
         a == used'["analys"]
     IN  /\ ylm' = IF Reduced(s) THEN Cut(ylm, (LMAX + 2) * NLAT_2) ELSE IF Freed("Q", s) THEN <<>> ELSE ylm
         /\ zlm' = IF Reduced(a) THEN Cut(zlm, (LMAX + 1) * NLAT_2 + 3) ELSE IF Freed("Q", a) THEN <<>> ELSE zlm
         /\ dylm' = IF Freed("V", s) THEN <<>> ELSE dylm
         /\ dzlm' = IF Freed("V", a) THEN <<>> ELSE dzlm
         /\ row' = [row EXCEPT !.y = IF Reduced(s) THEN Moved(@) ELSE @,
                               !.z = IF Reduced(a) THEN Moved(@) ELSE @]
  /\ pc' = "ready"
  /\ UNCHANGED <<config, tm, stray, im, l, it, call, p, terms, out>>

(***************************************************************************)
(* The kernels.  A term of a sum: the result it goes to, the number of the *)
(* matrix, the degree or latitude of the other factor, the parity of the   *)
(* sum or of the data, and the address, which tells terms apart.           *)
(***************************************************************************)
Has(f) == call.f \in {f, "3"}
imlim == IF MMAX * MRES > call.llim THEN call.llim \div MRES ELSE MMAX
Junk == -2                  \* in place of a latitude: another number of the grid

\* A zero of the matrix or of the other factor adds nothing, unless the matrix has no number.
Times(f, cell, x, par, a) ==
  IF cell \notin {Unset, Outside} /\ (cell = Zero \/ x = Pad) THEN {}
  ELSE {<<f, cell, x, par, a>>}

Synth == call.dir = "synth"
Scalar == IF Synth THEN ylm ELSE zlm
Vector == IF Synth THEN dylm ELSE dzlm
\* The terms of the field Q: from the scalar matrix, or from the derivatives in phi beside a
\* vector of order m > 0; those of a vector.  a is an address of the matrix read.
TermQ(to, a, x, par) == IF Has("Q") THEN Times(<<"Q", to>>, At(Scalar, a), x, par, a) ELSE {}
TermQ3(to, a, x, par) == Times(<<"Q", to>>, At(Vector, a + 1), x, par, a)
TermV(to, a, x, par) == IF Has("V") THEN Times(<<"V", to>>, At(Vector, a), x, par, a) ELSE {}

Unrolled == call.f = "Q"    \* the scalar functions take two elements at a time
MCall == {c \in Calls : c.llim <= LMAX /\ c.f \in used[c.dir]}

Call ==
  /\ pc = "ready"
  /\ call' \in MCall
  /\ im' = 0 /\ l' = 0 /\ it' = 0
  /\ p' = IF call'.dir = "synth" THEN <<row.y[0], IF call'.f = "Q" THEN 0 ELSE row.d[0]>>
          ELSE <<row.z[0], IF call'.f = "Q" THEN 0 ELSE row.dz[0]>>
  /\ terms' = {} /\ out' = [o \in 0..(IF call'.dir = "synth" THEN -1 ELSE NLM - 1) |-> Unset]
  /\ pc' = "sum"
  /\ UNCHANGED mem

(***************************************************************************)
(* Synthesis of order 0 at latitude it.  With vectors of two numbers the   *)
(* coefficients are copied and padded with zeroes, and the loops go on for *)
(* up to three numbers after the last degree.                              *)
(***************************************************************************)
Ql0(i) ==
  CASE i <= call.llim -> i
    [] i > call.llim /\ call.simd /\ i <= call.llim + (IF Unrolled THEN 3 ELSE 2) -> Pad
    [] OTHER -> Wrong
Sl0(i) ==
  CASE i < call.llim -> i + 1
    [] i >= call.llim /\ call.simd /\ i <= call.llim + If(call.f = "3", 1) -> Pad
    [] OTHER -> Wrong
LoopQ0 ==
  CASE ~call.simd -> 0..call.llim
    [] call.simd /\ Unrolled -> 0..(4 * (call.llim \div 4) + 3)
    [] OTHER -> 0..(2 * Half(call.llim) + 1)
LoopV0 ==
  CASE ~call.simd -> 0..(call.llim - 1)
    [] call.simd /\ call.f = "V" -> 0..(2 * Half(call.llim - 1) + 1)
    [] OTHER -> 0..(2 * Half(call.llim) + 1)

Synth0 ==
  /\ terms' = UNION {TermQ(it, p[1] + i, Ql0(i), i % 2) : i \in LoopQ0}
              \cup UNION {TermV(it, p[2] + i, Sl0(i), i % 2) : i \in LoopV0}
  /\ p' = IF call.simd THEN <<p[1] + 2 * Half(LMAX + 2), p[2] + 2 * Half(LMAX + 1)>>
          ELSE <<p[1] + 2 + 2 * Half(call.llim) + 2 * (Half(LMAX) - Half(call.llim)),
                 p[2] + 2 * Half(call.llim) + 2 * Odd(call.llim)
                      + 2 * (Half(LMAX + 1) - Half(call.llim + 1))>>

\* Order im > 0: the row of a latitude has all its degrees, llim+1..LMAX are stepped over.
SynthM ==
  /\ terms' = UNION {
       (IF call.f = "3" THEN TermQ3(it, p[2] + 2 * i, m + i, i % 2) ELSE TermQ(it, p[1] + i, m + i, i % 2))
         \cup TermV(it, p[2] + 2 * i, m + i, 1 - (i % 2)) \cup TermV(it, p[2] + 2 * i + 1, m + i, i % 2) :
         i \in 0..(call.llim - m)}
  /\ LET n == (call.llim - m + 1) + (LMAX - call.llim)
     IN  p' = <<p[1] + n, p[2] + 2 * n>>

SynthRow ==
  /\ pc = "sum" /\ Synth
  /\ IF im = 0 THEN Synth0 ELSE SynthM
  /\ pc' = "stored"
  /\ UNCHANGED <<mem, im, l, it, call, out>>

\* The next latitude; then the next order, at the first latitude kept for it.
SynthNext ==
  /\ pc = "stored" /\ Synth
  /\ IF it + 1 < NLAT_2 THEN it' = it + 1 /\ pc' = "sum" /\ UNCHANGED <<im, p>>
     ELSE IF im < imlim
     THEN /\ im' = im + 1 /\ it' = tm[im + 1] /\ pc' = "sum"
          /\ p' = <<row.y[im + 1], IF call.f = "Q" THEN 0 ELSE row.d[im + 1]>>
     ELSE pc' = "done" /\ UNCHANGED <<im, it, p>>
  /\ UNCHANGED <<mem, l, call, terms, out>>

(***************************************************************************)
(* Analysis, two degrees at a time, the last degree alone.  The data are   *)
(* the even and the odd part of the latitudes; a zero follows the last     *)
(* one, once degree 0 is done.                                             *)
(***************************************************************************)
LiM(d, i) == Half(i * (2 * LMAX + 2 - (i + 1) * MRES)) + d
Upto(n) == 0..(NLAT_2 - 1 + If(n, Odd(NLAT_2)))
Data(i) == IF i < NLAT_2 THEN i ELSE IF l = 0 THEN Junk ELSE Pad

AnalysL0 ==
  /\ terms' = terms \cup UNION {TermQ(0, p[1] + i, Data(i), 0) : i \in Upto(Unrolled /\ call.simd)}
  /\ p' = <<p[1] + NLAT_2 + Odd(NLAT_2), p[2]>>
  /\ out' = [out EXCEPT ![0] = <<"sum", 0, 0, 0>>] /\ l' = 1

\* Of order 0 the derivatives are packed, of the others those in phi follow those in theta.
Lanes == {0, 1}
AnalysPair ==
  LET t == tm[im]
      n == NLAT_2 - t
      w == IF im = 0 THEN 1 ELSE 2
      q(i, e) == IF im > 0 /\ call.f = "3" THEN TermQ3(l + e, p[2] + 2 * (2 * (i - t) + e), i, e)
                 ELSE TermQ(l + e, p[1] + 2 * (i - t) + e, Data(i), (l - m + e) % 2)
      v(i, e) == IF i = NLAT_2 THEN {}
                 ELSE TermV(l + e, p[2] + w * (2 * (i - t) + e), i, (l - m + e + 1) % 2)
                      \cup IF im = 0 THEN {}
                           ELSE TermV(l + e, p[2] + w * (2 * (i - t) + e) + 1, i, e)
  IN  /\ terms' = terms \cup UNION {q(x[1], x[2]) \cup v(x[1], x[2]) :
                           x \in {i \in Upto(Unrolled /\ call.simd /\ im = 0) : i >= t} \X Lanes}
      /\ p' = <<p[1] + 2 * n, p[2] + 2 * w * n>>
      /\ out' = [out EXCEPT ![LiM(l, im)] = <<"sum", im, l, 0>>,
                            ![LiM(l + 1, im)] = <<"sum", im, l + 1, 0>>]
      /\ l' = l + 2

\* In the matrix a degree llim < LMAX has another one beside it.
AnalysLast ==
  LET t == tm[im]
      s == IF l # LMAX THEN 2 ELSE 1
      w == IF im = 0 THEN 1 ELSE 2
      q(i) == IF im > 0 /\ call.f = "3" THEN TermQ3(l, p[2] + 2 * s * (i - t), i, 0)
              ELSE TermQ(l, p[1] + s * (i - t), Data(i), (l - m) % 2)
      v(i) == IF i = NLAT_2 THEN {}
              ELSE TermV(l, p[2] + w * s * (i - t), i, (l - m + 1) % 2)
                   \cup IF im = 0 THEN {} ELSE TermV(l, p[2] + w * s * (i - t) + 1, i, 0)
  IN  /\ terms' = terms \cup UNION {q(i) \cup v(i) : i \in {i \in Upto(Unrolled /\ im = 0) : i >= t}}
      /\ out' = [out EXCEPT ![LiM(l, im)] = <<"sum", im, l, 0>>]
      /\ l' = l + 1
      /\ UNCHANGED p

AnalysDegrees ==
  /\ pc = "sum" /\ ~Synth
  /\ \/ im = 0 /\ l = 0 /\ AnalysL0
     \/ (im > 0 \/ l > 0) /\ l < call.llim /\ AnalysPair
     \/ (im > 0 \/ l > 0) /\ l = call.llim /\ AnalysLast
  /\ pc' = "stored"
  /\ UNCHANGED <<mem, im, it, call>>

AnalysNext ==
  /\ pc = "stored" /\ ~Synth /\ l <= call.llim
  /\ pc' = "sum"
  /\ UNCHANGED <<mem, im, l, it, call, p, terms, out>>

\* The degrees after llim and, when all orders are done, the orders after imlim are zeroed.
Zeroed(o) ==
  \/ o \in LiM(l, im)..LiM(LMAX, im)
  \/ im = imlim /\ imlim < MMAX /\ o >= LiM((imlim + 1) * MRES, imlim + 1)

AnalysFill ==
  /\ pc = "stored" /\ ~Synth /\ l > call.llim
  /\ IF im < imlim
     THEN /\ im' = im + 1 /\ l' = (im + 1) * MRES /\ pc' = "sum"
          /\ p' = <<row.z[im + 1], IF call.f = "Q" THEN 0 ELSE row.dz[im + 1]>>
     ELSE pc' = "done" /\ UNCHANGED <<im, l, p>>
  /\ out' = [o \in DOMAIN out |-> IF Zeroed(o) THEN Zero ELSE out[o]]
  /\ terms' = {}
  /\ UNCHANGED <<mem, it, call>>

Init ==
  /\ config \in Configs
  /\ pc = "alloc" /\ stray = FALSE
  /\ ylm = <<>> /\ dylm = <<>> /\ zlm = <<>> /\ dzlm = <<>> /\ row = <<>>
  /\ used = <<>> /\ tm = <<>> /\ im = 0 /\ l = 0 /\ it = 0
  /\ call = <<>> /\ p = <<0, 0>> /\ terms = {} /\ out = <<>>

Next == Alloc \/ init_SH_synth \/ init_SH_gauss \/ PolarRows \/ PolarShift \/ PolarNext
        \/ PackDerivative \/ Padding \/ free_unused_matrices \/ Call
        \/ SynthRow \/ SynthNext \/ AnalysDegrees \/ AnalysNext \/ AnalysFill
Spec == Init /\ [][Next]_vars

(***************************************************************************)
(* Properties.                                                             *)
(***************************************************************************)
\* Types, and neither filling the matrices nor the zeroes put after rows leave the blocks.
TypeOK ==
  /\ config \in Configs
  /\ pc \in {"alloc", "synth", "gauss", "polar", "shift", "pack", "unused", "ready", "sum",
             "stored", "done"}
  /\ ~stray /\ im \in 0..(MMAX + 1) /\ it \in 0..(NLAT_2 - 1) /\ l \in 0..(LMAX + 2)
  /\ pc \in {"sum", "stored", "done"} => call \in Calls /\ im <= imlim /\ p \in Int \X Int

\* Whatever the polar optimisation and the truncation: a latitude of a synthesis, and each
\* degree of an order of an analysis, is made from all its numbers, each with the factor and
\* the parity which go with it, none twice, and from nothing else, although the loops read
\* past the rows; when an analysis ends, each element of the result was stored by its
\* own sum, and those beyond the truncation, in degree or in order, are zero.
DueRow ==
  {<<<<"Q", it>>, <<IF im > 0 /\ call.f = "3" THEN "p" ELSE "y", im, d, it>>, d, (d - m) % 2>> :
     d \in {d \in m..call.llim : Has("Q")}}
  \cup {<<<<"V", it>>, <<k, im, d, it>>, d, (d - m + If(k = "t", 1)) % 2>> :
     <<d, k>> \in {d \in First..call.llim : Has("V")} \X (IF im = 0 THEN {"t"} ELSE {"t", "p"})}
DueOrder ==
  {<<<<"Q", d>>, <<IF im > 0 /\ call.f = "3" THEN "zp" ELSE "z", im, d, t>>, t, (d - m) % 2>> :
     <<d, t>> \in {d \in m..call.llim : Has("Q")} \X (tm[im]..(NLAT_2 - 1))}
  \cup {<<<<"V", d>>, <<k, im, d, t>>, t, (d - m + If(k = "zt", 1)) % 2>> :
     <<d, t, k>> \in {d \in First..call.llim : Has("V")} \X (tm[im]..(NLAT_2 - 1))
                     \X (IF im = 0 THEN {"zt"} ELSE {"zt", "zp"})}
ProductsRight ==
  /\ pc = "stored" /\ (Synth \/ l > call.llim) =>
       LET due == IF Synth THEN DueRow ELSE DueOrder
       IN  {<<x[1], x[2], x[3], x[4]>> : x \in terms} = due /\ Cardinality(terms) = Cardinality(due)
  /\ pc = "done" /\ ~Synth => \A i \in 0..MMAX : \A d \in (i * MRES)..LMAX :
      out[Degrees(i - 1) + d - i * MRES] = IF d <= call.llim THEN <<"sum", i, d, 0>> ELSE Zero
=============================================================================
