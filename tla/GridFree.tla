------------------------------ MODULE GridFree ------------------------------
(***************************************************************************)
(* The functions of sht_func.c, which work on spectral coefficients and    *)
(* need no grid: fields at a latitude and at a point, rotations, products  *)
(* with cos(theta) and with sin(theta) d/dtheta.  A program is a sequence  *)
(* of calls on a few configurations.  What stays behind between two calls  *)
(* is the Legendre functions and the FFT plan of the last latitude, which  *)
(* a copy of a configuration shares with its base.                         *)
(*                                                                         *)
(* A number is abstracted to what it stands for: an element of a table to  *)
(* the degree and order it belongs to, a sum to the set of its terms.      *)
(* Whether a Legendre function is too small to count depends on latitude   *)
(* and order (Faint); the rotations, which work on several latitudes at    *)
(* once, choose it.                                                        *)
(***************************************************************************)
EXTENDS Integers, Sequences

CONSTANTS Cfg, NULL,
          Lat,        \* latitudes
          Faint,      \* of a latitude and an order: how many pairs of degrees are negligible
          Jobs,       \* the programs considered: sizes, the build's vectors, a sequence of calls
          MaxSkip     \* how many pairs of degrees are negligible in a rotation

ToLat == {"SHqst_to_lat", "SH_to_lat"}
ToPoint == {"SHqst_to_point", "SH_to_grad_point", "SH_to_point"}
Rotations == {"SH_Xrotate90", "SH_Yrotate90", "SH_Yrotate"}
Operators == {"mul_ct", "st_dt"}

\* A copy is a configuration which did not exist before.
NewCopy(prog, i) == prog[i].base # prog[i].cfg /\ \A k \in 1..(i - 1) : prog[k].cfg # prog[i].cfg

ASSUME GridFreeAssumption ==
  /\ \A j \in Jobs :
       /\ j.lmax \in Nat /\ j.lmax >= 2 /\ j.mmax \in Nat /\ j.mres \in Nat \ {0}
       /\ j.mmax * j.mres <= j.lmax /\ j.schmidt \in BOOLEAN
       /\ j.nway \in Nat \ {0} /\ j.vsize2 \in Nat \ {0}
       /\ j.prog \in Seq([fn: STRING, cfg: Cfg, x: Lat, nphi: Nat \ {0}, ltr: Nat, mtr: Nat, base: Cfg, same: BOOLEAN])
       /\ \A i \in DOMAIN j.prog : j.prog[i].fn \in Rotations => j.mmax = j.lmax /\ j.mres = 1
       /\ \A i \in DOMAIN j.prog : j.prog[i].fn = "shtns_create_with_grid" => NewCopy(j.prog, i)
       /\ \A x \in Lat, m \in 0..j.mmax : Faint[x][m] \in Nat
  /\ MaxSkip \in Nat /\ NULL \notin Cfg \cup Lat \cup Nat

VARIABLES
  job, todo,             \* the program, and the calls still to be made
  call, pc,              \* the call being executed, or the last one
  ylm_lat, ct_lat, nphi_lat, ifft_lat,   \* of each configuration; ylm_lat points into heap
  heap,                  \* the blocks of Legendre functions, named after who allocated them
  plans,                 \* the FFT plans made so far: their length, and whether they exist
  rot,                   \* the registers and buffers of a rotation
  res                    \* the result of the last call
vars == <<job, todo, call, pc, ylm_lat, ct_lat, nphi_lat, ifft_lat, heap, plans, rot, res>>
lat == <<ylm_lat, ct_lat, nphi_lat, ifft_lat, heap, plans>>

LMAX == job.lmax
MMAX == job.mmax
MRES == job.mres
NWAY == job.nway
VSIZE2 == job.vsize2
cfg == call.cfg
Least(a, b) == IF a <= b THEN a ELSE b

Wrong == <<"wrong">>
Zero == <<"0">>

(***************************************************************************)
(* Packed tables                                                           *)
(***************************************************************************)
LiM(l, im) == ((im * (2 * LMAX + 2 - (im + 1) * MRES)) \div 2) + l
NLM == LiM(LMAX, MMAX) + 1
\* What the coefficient at a place belongs to.
Coef(o) ==
  LET K == {k \in (0..LMAX) \X (0..MMAX) : k[1] >= k[2] * MRES /\ LiM(k[1], k[2]) = o}
  IN  IF K = {} THEN Wrong ELSE CHOOSE k \in K : TRUE
\* The recurrence: a pair for each degree im*MRES+1..LMAX+1; the first one is the start value
\* and the factor for the degree after it.
alm_im(im) == im * (2 * (LMAX + 1) - (im - 1) * MRES)
AlmPair(im, l) == 2 * LiM(l - 1, im)

\* The pair from which degree l is computed: al[0] and al[1] first, then four numbers for two degrees.
AlUsed(im, l) ==
  LET n == l - im * MRES
  IN  IF n = 1 THEN alm_im(im) ELSE alm_im(im) + 2 + 4 * ((n - 2) \div 2) + 2 * (n % 2)
Climbed(im, l) == \A d \in (im * MRES + 1)..l : AlUsed(im, d) = AlmPair(im, d)

(***************************************************************************)
(* Legendre functions of one order at one latitude, for degrees up to      *)
(* lmax: Y itself, or Y / sin(theta), or the derivative of Y.              *)
(***************************************************************************)
Value(kind, im, l, x) ==
  IF Climbed(im, l) THEN <<kind, im, l, x>> ELSE Wrong
\* ny < 0 until so many pairs have been passed over.
FirstDegree(im, x) == im * MRES + (IF Faint[x][im] = 0 THEN 0 ELSE 2 + 2 * Faint[x][im])

\* Where a function stores its values: all are zero at first.
SphPlm(kind, lmax, im, x) ==
  [l \in (im * MRES)..lmax |-> IF l < FirstDegree(im, x) THEN Zero ELSE Value(kind, im, l, x)]
legendre_sphPlm_array(lmax, im, x) == SphPlm("Y", lmax, im, x)
legendre_sphPlm_deriv_array(lmax, im, x) ==
  [y |-> SphPlm(IF im = 0 THEN "Y" ELSE "Ys", lmax, im, x), dy |-> SphPlm("dY", lmax, im, x)]

\* At the equator every other degree of each vanishes: the array has the ones that do not.
legendre_sphPlm_deriv_array_equ(lmax, im) ==
  [l \in im..lmax |-> Value(IF (l - im) % 2 = 0 THEN "Y" ELSE "dY", im, l, "equator")]

(***************************************************************************)
(* Fields at a latitude or a point.  A term: component, order, factor,     *)
(* Legendre function, field and its coefficient.                           *)
(***************************************************************************)
\* The sums of a function: component, factor, which array, field.
Sums(fn, im) ==
  CASE fn \in {"SH_to_lat"} -> {<<"r", IF im = 0 THEN "1" ELSE "st", "y", "Q">>}
    [] fn \in {"SH_to_point"} -> {<<"r", "1", "y", "Q">>}
    [] fn \in {"SHqst_to_lat", "SHqst_to_point"} ->
         IF im = 0 THEN {<<"r", "1", "y", "Q">>, <<"t", "1", "dy", "S">>, <<"p", "-1", "dy", "T">>}
         ELSE {<<"r", "st", "y", "Q">>, <<"t", "1", "dy", "S">>, <<"t", "im", "y", "T">>,
               <<"p", "im", "y", "S">>, <<"p", "-1", "dy", "T">>}
    [] fn = "SH_to_grad_point" ->
         IF im = 0 THEN {<<"r", "1", "y", "Q">>, <<"t", "1", "dy", "S">>}
         ELSE {<<"r", "st", "y", "Q">>, <<"t", "1", "dy", "S">>, <<"p", "im", "y", "S">>}

\* Factor and function together; Y/sin(theta) is only used for orders above 0.
Meaning(f, y) ==
  LET k == y[1]
  IN  CASE y = Zero -> "0"
        [] k = "Y" /\ f = "1" -> "Y"
        [] k = "Ys" /\ f = "st" -> "Y"
        [] k = "Ys" /\ f = "im" -> "imY/st"
        [] k = "dY" /\ f = "1" -> "dY"
        [] k = "dY" /\ f = "-1" -> "-dY"
        [] OTHER -> "?"
At(y) == IF y \in {Zero, Wrong} THEN y ELSE <<y[2], y[3], y[4]>>
Term(s, o, y, C) == [to |-> s[1], order |-> o, f |-> Meaning(s[2], y), at |-> At(y), field |-> s[4], c |-> C]
Counted(ts) == {t \in ts : t.f # "0"}

(* SHqst_to_lat and SH_to_lat                                              *)
ltr == Least(call.ltr, LMAX)
mtr ==
  LET t == Least(Least(call.mtr, MMAX), ltr \div MRES)
  IN  IF t * 2 * MRES >= call.nphi THEN (call.nphi - 1) \div (2 * MRES) ELSE t

\* Where order m starts in the block of Legendre functions, as the loop that fills it counts.
\* mutant: as if all rows were as long as the first one
MFillAt(m) == m * (LMAX + 1)
FillAt(m) == m * (LMAX + 1) - (MRES * m * (m - 1)) \div 2
\* The same in the loops of the sums: ltr-m+1 degrees are read and LMAX-ltr left out.
\* mutant: the degrees above ltr are not left out
MSumAt(m) == m * (ltr + 1) - (MRES * m * (m - 1)) \div 2
SumAt(m) == m * (ltr + 1) - (MRES * m * (m - 1)) \div 2 + m * (LMAX - ltr)

Degrees(m) == (m * MRES)..ltr
Filled ==
  UNION {LET a == legendre_sphPlm_deriv_array(ltr, m, call.x)
         IN  {<<FillAt(m) + l - m * MRES, a.y[l]>> : l \in Degrees(m)}
               \cup {<<NLM + FillAt(m) + l - m * MRES, a.dy[l]>> : l \in Degrees(m)} : m \in 0..mtr}
Overwrite(old, new) ==
  [o \in DOMAIN old \cup {z[1] : z \in new} |->
     IF \E z \in new : z[1] = o THEN (CHOOSE z \in new : z[1] = o)[2] ELSE old[o]]
Garbage == [o \in 0..(2 * NLM - 1) |-> Wrong]

LatSums(block) ==
  UNION {UNION {LET j == SumAt(m) + l - m * MRES
                IN  {Term(s, m * MRES, block[IF s[3] = "y" THEN j ELSE NLM + j], Coef(j)) : s \in Sums(call.fn, m)} :
                  l \in Degrees(m)} : m \in 0..mtr}

Start ==
  /\ pc = "idle" /\ todo # <<>>
  /\ call' = Head(todo) /\ todo' = Tail(todo)
  /\ pc' = "run"
  /\ UNCHANGED <<job, lat, rot, res>>
Is(fs) == pc = "run" /\ call.fn \in fs
Return(r) ==
  /\ res' = r
  /\ pc' = "idle"
  /\ UNCHANGED <<job, todo, call>>

\* Legendre functions are computed again for another latitude, the plan is made again for
\* another number of longitudes; otherwise they are those of the last call.
EvalLat ==
  /\ Is(ToLat)
  /\ LET b == IF ylm_lat[cfg] = NULL THEN cfg ELSE ylm_lat[cfg]
         old == IF ylm_lat[cfg] = NULL THEN Garbage ELSE heap[b]
         block == IF call.x # ct_lat[cfg] THEN Overwrite(old, Filled) ELSE old
         again == call.nphi # nphi_lat[cfg]
         dead == IF again /\ ifft_lat[cfg] # NULL THEN {ifft_lat[cfg]} ELSE {}
         p == IF again THEN Len(plans) + 1 ELSE ifft_lat[cfg]
         kept == [i \in DOMAIN plans |-> [plans[i] EXCEPT !.alive = @ /\ i \notin dead]]
         made == IF again THEN Append(kept, [n |-> call.nphi, alive |-> TRUE]) ELSE kept
     IN  /\ ylm_lat' = [ylm_lat EXCEPT ![cfg] = b]
         /\ heap' = [heap EXCEPT ![b] = block]
         /\ ct_lat' = [ct_lat EXCEPT ![cfg] = call.x]
         /\ plans' = made
         /\ nphi_lat' = [nphi_lat EXCEPT ![cfg] = call.nphi]
         /\ ifft_lat' = [ifft_lat EXCEPT ![cfg] = p]
         /\ Return([terms |-> Counted(LatSums(block)), plan |-> made[p]])
  /\ UNCHANGED rot

(* SHqst_to_point, SH_to_grad_point and SH_to_point: no memory is kept.    *)
PointDegrees(m) ==
  IF call.fn # "SH_to_point" THEN (m * MRES)..LMAX
  ELSE LET Two == {l \in (m * MRES)..(LMAX - 1) : (l - m * MRES) % 2 = 0}
       IN  Two \cup {l + 1 : l \in Two} \cup (IF (LMAX - m * MRES) % 2 = 0 THEN {LMAX} ELSE {})
PointSums ==
  UNION {LET a == IF call.fn = "SH_to_point" THEN [y |-> legendre_sphPlm_array(LMAX, m, call.x)]
                  ELSE legendre_sphPlm_deriv_array(LMAX, m, call.x)
         IN  {Term(s, m * MRES, a[s[3]][l], Coef(LiM(0, m) + l)) :
                s \in Sums(call.fn, m), l \in PointDegrees(m)} : m \in 0..MMAX}
EvalPoint ==
  /\ Is(ToPoint)
  /\ Return([terms |-> Counted(PointSums)])
  /\ UNCHANGED <<lat, rot>>

\* A copy of a configuration: every pointer and every key is copied.
CreateWithGrid ==
  /\ Is({"shtns_create_with_grid"})
  /\ ylm_lat' = [ylm_lat EXCEPT ![cfg] = ylm_lat[call.base]]
  /\ ct_lat' = [ct_lat EXCEPT ![cfg] = ct_lat[call.base]]
  /\ nphi_lat' = [nphi_lat EXCEPT ![cfg] = nphi_lat[call.base]]
  /\ ifft_lat' = [ifft_lat EXCEPT ![cfg] = ifft_lat[call.base]]
  /\ Return(NULL)
  /\ UNCHANGED <<heap, plans, rot>>

(***************************************************************************)
(* Products with cos(theta) and sin(theta) d/dtheta.  An element of the    *)
(* matrix: a factor (the degree l of what it multiplies or 1), and         *)
(* 1/a (inv) or -b/a (up) of the recurrence for a degree.                  *)
(***************************************************************************)
El(kind, im, l) == <<"1", kind, im, l>>
None == <<"none">>
\* The elements of degree LMAX+1, at the end of an order, are for the vector transforms.
mul_ct_matrix_shifted ==
  LET Row(im) ==
        UNION {LET o == 2 * (LiM(l, im))
                   n == l - im * MRES
                   up == IF l < LMAX
                         THEN IF alm_im(im) + 2 * (n + 1) = AlmPair(im, l + 2) THEN El("up", im, l + 2) ELSE Wrong
                         ELSE El("up", im, LMAX + 2)
                   inv == IF alm_im(im) + 2 * n = AlmPair(im, l + 1) THEN El("inv", im, l + 1) ELSE Wrong
               IN  {<<o + 1, inv>>, <<o, IF job.schmidt THEN up ELSE inv>>} :
                 l \in (im * MRES)..LMAX}
  IN  Overwrite(<<>>, UNION {Row(im) : im \in 0..MMAX})
\* mutant: the matrix keeps the elements of degree LMAX+1
Mmul_ct_matrix ==
  LET s == mul_ct_matrix_shifted
  IN  [o \in DOMAIN s |-> IF o \in {0, 2 * NLM - 1} THEN None ELSE s[o - 1]]
mul_ct_matrix ==
  LET s == mul_ct_matrix_shifted
      cleared == {0, 2 * NLM - 1} \cup UNION {{2 * LiM(im * MRES, im) - 1, 2 * LiM(im * MRES, im)} : im \in 1..MMAX}
  IN  [o \in DOMAIN s |-> IF o \in cleared THEN None ELSE s[o - 1]]
st_dt_matrix ==
  LET mx == mul_ct_matrix
      Factor(o) == LET l == Coef(o \div 2)[1] IN IF o % 2 = 0 THEN l - 1 ELSE -(l + 2)
  IN  [o \in DOMAIN mx |-> IF mx[o] \in {None, Wrong} THEN mx[o] ELSE [mx[o] EXCEPT ![1] = Factor(o)]]

\* What is added up for each coefficient of the result: an element and the coefficient it multiplies.
SH_mul_mx(mx) ==
  [lm \in 0..(NLM - 1) |->
     {p \in (IF lm > 0 THEN {<<mx[2 * lm], Coef(lm - 1)>>} ELSE {})
               \cup (IF lm < NLM - 1 THEN {<<mx[2 * lm + 1], Coef(lm + 1)>>} ELSE {}) : p[1] # None}]
Operate ==
  /\ Is(Operators)
  /\ Return([r |-> SH_mul_mx(IF call.fn = "mul_ct" THEN mul_ct_matrix ELSE st_dt_matrix)])
  /\ UNCHANGED <<lat, rot>>

(***************************************************************************)
(* Rotations (mmax = lmax, mres = 1).  For each degree the field on the    *)
(* great circle through the poles, of 2 ntheta points, is found from one   *)
(* quarter of it; a Fourier transform gives the orders of the rotated      *)
(* field, which are divided by Legendre functions at the equator.          *)
(***************************************************************************)
\* fft_int returns its argument up to 7.
ntheta == ((LMAX + 2 * VSIZE2 * NWAY) \div (2 * VSIZE2 * NWAY)) * 2 * VSIZE2 * NWAY
nk == ntheta \div (2 * VSIZE2)
\* The degrees from l on, which a loop takes in pairs, with the odd one at the end.
Paired(l, top) ==
  LET Two == {d \in l..(top - 1) : (d - l) % 2 = 0}
  IN  Two \cup {d + 1 : d \in Two} \cup (IF l <= top /\ (top - l) % 2 = 0 THEN {top} ELSE {})
Kernels == IF call.fn = "SH_Yrotate" THEN 2 ELSE 1      \* the second one in place

\* Around z: the result holds what the kernel reads from now on.
Rotated(source) ==
  [o \in 0..(NLM - 1) |->
     IF \E m \in 1..LMAX : o \in LiM(m, m)..LiM(LMAX, m) THEN source[o]
     ELSE IF o <= LMAX THEN source[o] ELSE Wrong]
RotBegin ==
  /\ Is(Rotations)
  /\ rot' = [n |-> 1, k |-> 0, Q |-> Rotated([o \in 0..(NLM - 1) |-> Coef(o)]),
             qv |-> [b \in {0, 1} \X (0..(2 * NWAY * LMAX - 1)) |-> {Wrong}],
             q0 |-> [o \in 0..((2 * ntheta + 2) * LMAX - 1) |-> Wrong],
             faint |-> <<>>, m |-> 0, lm |-> 1, R |-> <<>>]
  /\ pc' = "ring"
  /\ UNCHANGED <<job, todo, call, lat, res>>

\* One product: the degree and order of y, its vector of latitudes, the coefficient.
Product(d, m, v, o, ri) ==
  <<IF Climbed(m, d) THEN <<d, m>> ELSE Wrong, v, IF o \in DOMAIN rot.Q THEN rot.Q[o] ELSE Wrong, ri>>

\* Order 0: every element of the two buffers gets its product or zero.
OrderZero(k) ==
  LET Cells == Paired(1, LMAX) \X (0..(NWAY - 1))
      At0(d, j) == (d - 1) * 2 * NWAY + 2 * j
  IN  [b \in {<<e, At0(c[1], c[2]) + i>> : e \in {0, 1}, c \in Cells, i \in {0, 1}} |->
         IF b[1] = 0 /\ b[2] % 2 = 0
         THEN {Product((b[2] \div (2 * NWAY)) + 1, 0, k + ((b[2] % (2 * NWAY)) \div 2), (b[2] \div (2 * NWAY)) + 1, "re")}
         ELSE {}]
\* An order above 0 is added to the buffer of its parity, from the degree where it counts.
Added(k, m, first) ==
  {<<<<m % 2, (d - 1) * 2 * NWAY + 2 * j + (IF ri = "re" THEN 0 ELSE 1)>>, Product(d, m, k + j, LiM(0, m) + d, ri)>> :
     d \in Paired(first, LMAX), j \in 0..(NWAY - 1), ri \in {"re", "im"}}

\* The four points of the circle which a latitude of the quarter stands for; l is odd or even.
\* mutant: the two points beyond the pole have been exchanged
MSymmetric(p, l, e, ri) ==
  LET s(x) == IF x THEN -1 ELSE 1
  IN  CASE p = "north" -> s(ri = "im")
        [] p = "north, beyond" -> s(l % 2 = 1)
        [] p = "south, beyond" -> s(e = 1)
        [] p = "south" -> s(e = 1) * s(ri = "im") * s(l % 2 = 1)
Symmetric(p, l, e, ri) ==
  LET s(x) == IF x THEN -1 ELSE 1
  IN  CASE p = "north" -> s(ri = "im")
        [] p = "south, beyond" -> s(l % 2 = 1)
        [] p = "north, beyond" -> s(e = 1)
        [] p = "south" -> s(e = 1) * s(ri = "im") * s(l % 2 = 1)
Position(p, ijk) ==
  CASE p = "north" -> ijk
    [] p = "south, beyond" -> ntheta + ijk
    [] p = "north, beyond" -> 2 * ntheta - 1 - ijk
    [] p = "south" -> ntheta - 1 - ijk
Points == {"north", "south", "north, beyond", "south, beyond"}

\* The sum for one point: sign, product, lane of its vector, and whether it is multiplied by sin(theta).
PointSum(qv, p, l, j, i) ==
  UNION {LET o == (l - 1) * 2 * NWAY * VSIZE2 + (2 * j + (IF ri = "re" THEN 0 ELSE 1)) * VSIZE2 + i
         IN  {<<Symmetric(p, l, e, ri), z, o % VSIZE2, ri = "re">> : z \in qv[<<e, o \div VSIZE2>>]} :
           e \in {0, 1}, ri \in {"re", "im"}}

\* The two buffers after the orders; from order "weak" on, the first x pairs of degrees are
\* negligible at these latitudes.
Summed(weak, x) ==
  LET zero == OrderZero(rot.k)
      new == UNION {Added(rot.k, m, m + 2 * (IF m >= weak THEN x ELSE 0)) : m \in 1..LMAX}
  IN  [b \in DOMAIN rot.qv |->
         (IF b \in DOMAIN zero THEN zero[b] ELSE rot.qv[b]) \cup {z[2] : z \in {y \in new : y[1] = b}}]

\* The points which these latitudes stand for.
RingOf(qv) ==
  UNION {{<<Position(p, (rot.k + j) * VSIZE2 + i) * LMAX + l - 1, PointSum(qv, p, l, j, i)>> :
            p \in Points, j \in 0..(NWAY - 1), i \in 0..(VSIZE2 - 1)} : l \in 1..LMAX}

RotRing ==
  /\ pc = "ring" /\ rot.k < nk
  /\ \E weak \in 2..(LMAX + 1), x \in 1..MaxSkip :
       LET qv == Summed(weak, x)
       IN  rot' = [rot EXCEPT !.k = @ + NWAY, !.qv = qv, !.q0 = Overwrite(@, RingOf(qv)),
                              !.faint = Append(@, <<weak, x>>)]
  /\ UNCHANGED <<job, todo, call, pc, lat, res>>

\* LMAX transforms with that stride, in place: order m of degree l is at m*LMAX + l-1.
RotFft ==
  /\ pc = "ring" /\ rot.k >= nk
  /\ rot' = [rot EXCEPT !.q0 = [o \in DOMAIN @ |-> <<o \div LMAX, (o % LMAX) + 1>>],
                        !.R = [o \in {0} |-> rot.Q[0]]]
  /\ pc' = "store"
  /\ UNCHANGED <<job, todo, call, lat, res>>

\* The orders of the result, one after the other; lm counts the coefficients.
RotStore ==
  /\ pc = "store" /\ rot.m <= LMAX
  /\ LET m == rot.m
         from == IF m = 0 THEN 1 ELSE m
         ydyl == legendre_sphPlm_deriv_array_equ(LMAX, m)
         sgn(l) == IF m = 0 THEN (IF (l - from) % 2 = 0 THEN -1 ELSE 1) ELSE (IF (l - from) % 2 = 0 THEN 1 ELSE -1)
         order == {<<rot.lm + l - from, <<rot.q0[m * LMAX + l - 1], ydyl[l], sgn(l)>>>> : l \in Paired(from, LMAX)}
     IN  rot' = [rot EXCEPT !.R = Overwrite(@, order),
                            !.m = @ + 1, !.lm = @ + LMAX - from + 1]
  /\ UNCHANGED <<job, todo, call, pc, lat, res>>

RotEnd ==
  /\ pc = "store" /\ rot.m > LMAX
  /\ IF rot.n < Kernels
     THEN /\ rot' = [rot EXCEPT !.n = @ + 1, !.k = 0, !.m = 0, !.lm = 1, !.faint = <<>>,
                                !.Q = Rotated([o \in 0..(NLM - 1) |-> IF o \in DOMAIN rot.R THEN Coef(o) ELSE Wrong]),
                                !.qv = [b \in DOMAIN @ |-> {Wrong}], !.q0 = [o \in DOMAIN @ |-> Wrong]]
          /\ pc' = "ring"
          /\ UNCHANGED <<job, todo, call, res>>
     ELSE Return(rot.R) /\ rot' = NULL
  /\ UNCHANGED lat

\* The rotation about z, in place or not.
Zrotate ==
  /\ Is({"SH_Zrotate"})
  /\ LET turned == UNION {{LiM(l, im) : l \in (im * MRES)..LMAX} : im \in 1..MMAX}
         left == (IF call.same THEN 0..(NLM - 1) ELSE 0..LMAX) \ turned
     IN  Return([o \in turned \cup left |-> <<IF o \in turned THEN Coef(o)[2] * MRES ELSE 0, Coef(o)>>])
  /\ UNCHANGED <<lat, rot>>

Init ==
  /\ job \in Jobs
  /\ todo = job.prog /\ call = NULL /\ pc = "idle"
  /\ ylm_lat = [c \in Cfg |-> NULL] /\ ct_lat = [c \in Cfg |-> NULL]
  /\ nphi_lat = [c \in Cfg |-> 0] /\ ifft_lat = [c \in Cfg |-> NULL]
  /\ heap = [c \in Cfg |-> <<>>] /\ plans = <<>>
  /\ rot = NULL /\ res = NULL

End == pc = "idle" /\ todo = <<>> /\ UNCHANGED vars

Next ==
  \/ Start
  \/ EvalLat \/ EvalPoint \/ CreateWithGrid
  \/ Operate
  \/ RotBegin \/ RotRing \/ RotFft \/ RotStore \/ RotEnd \/ Zrotate
  \/ End

Spec == Init /\ [][Next]_vars

(***************************************************************************)
(* Properties                                                              *)
(***************************************************************************)
\* Types, and nothing is written beyond the end of the blocks of Legendre functions, of the
\* ring of points or of the result of a rotation.
TypeOK ==
  /\ pc \in {"idle", "run", "ring", "store"}
  /\ \A c \in Cfg :
       /\ ylm_lat[c] \in Cfg \cup {NULL} /\ ct_lat[c] \in Lat \cup {NULL} /\ nphi_lat[c] \in Nat
       /\ ifft_lat[c] \in (DOMAIN plans) \cup {NULL}
       /\ DOMAIN heap[c] = IF \E d \in Cfg : ylm_lat[d] = c THEN 0..(2 * NLM - 1) ELSE {}
  /\ rot # NULL => /\ DOMAIN rot.q0 = 0..((2 * ntheta + 2) * LMAX - 1)
                   /\ DOMAIN rot.R \subseteq 0..(NLM - 1)

Ended(fs) == pc = "idle" /\ call # NULL /\ call.fn \in fs

\* What a field at a latitude or a point is: all degrees and orders within the truncation and
\* below half the number of longitudes, each with its Legendre function at this latitude.
FieldTerms ==
  LET local == call.fn \in ToLat
      lmax == IF local THEN Least(call.ltr, LMAX) ELSE LMAX
      Orders == {m \in 0..MMAX : m * MRES <= lmax /\ (local => m <= call.mtr /\ 2 * m * MRES < call.nphi)}
      scalar == call.fn \in {"SH_to_lat", "SH_to_point"}
      Comps(m) ==
        {<<"r", "Y", "Q">>}
          \cup (IF scalar THEN {} ELSE {<<"t", "dY", "S">>})
          \cup (IF scalar \/ m = 0 THEN {} ELSE {<<"p", "imY/st", "S">>})
          \cup (IF scalar \/ call.fn = "SH_to_grad_point" THEN {} ELSE {<<"p", "-dY", "T">>})
          \cup (IF scalar \/ m = 0 \/ call.fn = "SH_to_grad_point" THEN {} ELSE {<<"t", "imY/st", "T">>})
  IN  UNION {UNION {{[to |-> z[1], order |-> m * MRES, f |-> z[2], at |-> <<m, l, call.x>>, field |-> z[3], c |-> <<l, m>>] :
                       z \in Comps(m)} : l \in FirstDegree(m, call.x)..lmax} : m \in Orders}

\* The programs for which the Legendre functions and the plan that stay behind are enough: while a
\* configuration stays at a latitude, no call wants more than an earlier one; and where
\* configurations are copied, all calls are at one latitude, with one number of longitudes.
Within(c, d) == c.nphi <= d.nphi /\ c.ltr <= d.ltr /\ c.mtr <= d.mtr
Careful(prog) ==
  LET At_(k, c) == prog[k].fn \in ToLat /\ prog[k].cfg = c
      K == {k \in DOMAIN prog : prog[k].fn \in ToLat}
  IN  IF \E k \in DOMAIN prog : prog[k].fn = "shtns_create_with_grid"
      THEN \A k, n \in K : k < n => prog[n].x = prog[k].x /\ prog[n].nphi = prog[k].nphi /\ Within(prog[n], prog[k])
      ELSE \A k, n \in K :
             /\ k < n /\ prog[n].cfg = prog[k].cfg
             /\ \A i \in k..n : At_(i, prog[k].cfg) => prog[i].x = prog[k].x
             => Within(prog[n], prog[k])

\* The field at a latitude or at a point is the sum over the degrees and orders of this call with
\* Legendre functions of this latitude, and is transformed with a plan which exists and has its
\* length, whatever was called before and with which configurations.
LocalRight ==
  /\ Ended(ToLat) => /\ res.terms = FieldTerms
                     /\ res.plan = [n |-> call.nphi, alive |-> TRUE]
  /\ Ended(ToPoint) => res.terms = FieldTerms

\* cos(theta) Y(l) = 1/a(l+1) Y(l+1) - b(l+1)/a(l+1) Y(l-1), so the result of degree l has 1/a(l) of the
\* degree below and -b(l+2)/a(l+2) of the degree above, which without Schmidt's normalization is
\* 1/a(l+1); the derivative has these times l-1 and -(l+2).  Nothing leaks between orders, which
\* lie next to each other in memory.
OperatorsRight ==
  Ended(Operators) =>
    res.r = [lm \in 0..(NLM - 1) |->
      LET l == Coef(lm)[1]
          im == Coef(lm)[2]
          f(x) == IF call.fn = "mul_ct" THEN "1" ELSE x
          up(x) == IF job.schmidt THEN <<x, "up", im, l + 2>> ELSE <<x, "inv", im, l + 1>>
      IN  (IF l > im * MRES THEN {<<<<f(l - 1), "inv", im, l>>, <<l - 1, im>>>>} ELSE {})
            \cup (IF l < LMAX THEN {<<up(f(-(l + 2))), <<l + 1, im>>>>} ELSE {})]

\* The field of degree l at point p of the circle: Y(pi - theta) = (-1)^(l-m) Y(theta) in the south, a
\* factor (-1)^m beyond the poles, where moreover the direction of increasing phi is the opposite one.
Circle(p, l) ==
  LET beyond == p >= ntheta
      th == IF beyond THEN 2 * ntheta - 1 - p ELSE p
      south == th >= ntheta \div 2
      x == IF south THEN ntheta - 1 - th ELSE th
      v == x \div VSIZE2
      weak == rot.faint[(v \div NWAY) + 1]
      minus(b) == IF b THEN -1 ELSE 1
      Counts(m) == m < weak[1] \/ l >= m + 2 * weak[2]
  IN  {<<minus(beyond /\ k[1] % 2 = 1) * minus(south /\ (l - k[1]) % 2 = 1)
           * (IF k[2] = "im" THEN minus(~beyond) ELSE 1),
         <<<<l, k[1]>>, v, <<l, k[1]>>, k[2]>>, x % VSIZE2, k[2] = "re">> :
           k \in {n \in (0..l) \X {"re", "im"} : Counts(n[1]) /\ ~(n[1] = 0 /\ n[2] = "im")}}

\* A rotation evaluates the field of every degree at every point of the circle, with the right
\* symmetries, whatever is negligible where; and divides each order of the transform by the
\* function of its own degree and order which does not vanish at the equator.  Its result has
\* all degrees and orders, and degree 0 is left as it was.
RotationRight ==
  /\ pc = "ring" /\ rot.k >= nk =>
       \A p \in 0..(2 * ntheta - 1), l \in 1..LMAX : rot.q0[p * LMAX + l - 1] = Circle(p, l)
  /\ Ended(Rotations) =>
       res = [o \in 0..(NLM - 1) |->
         LET l == Coef(o)[1]
             m == Coef(o)[2]
         IN  IF o = 0 THEN <<0, 0>>
             ELSE <<<<m, l>>, <<IF (l - m) % 2 = 0 THEN "Y" ELSE "dY", m, l, "equator">>, IF (l - m) % 2 = 0 THEN 1 ELSE -1>>]
  /\ Ended({"SH_Zrotate"}) =>
       res = [o \in 0..(NLM - 1) |-> <<Coef(o)[2] * MRES, Coef(o)>>]
=============================================================================
