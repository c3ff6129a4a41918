---------------------------- MODULE LegendreSum ----------------------------
(***************************************************************************)
(* The sums over the degree l in the on-the-fly kernels.  For each order   *)
(* im and each block of latitudes a kernel climbs the recurrence           *)
(*     y(l) = al[1] cos(theta) y(l-1) + al[0] y(l-2)                       *)
(* two degrees at a time, with pointers into three packed tables (the      *)
(* coefficients al of the recurrence, the mx of the vector transforms, the *)
(* spectral arrays), and multiplies each y with its own coefficient        *)
(* (synthesis) or adds it to its own accumulator (analysis).  Close to the *)
(* poles y underflows: it is kept scaled by an exponent ny, and the terms  *)
(* with ny < 0 are left out.                                               *)
(*                                                                         *)
(* fly, omp and mic are three copies of that code with other buffers, loop *)
(* limits and offsets; fly also has functions for one order (here one).    *)
(* A number is abstracted to what it stands for: y to the degree it holds, *)
(* an element of a buffer to the degree it belongs to.  Wrong stands for   *)
(* anything else.  Degrees are relative to nothing: y0 = m means P_m^m.    *)
(***************************************************************************)
EXTENDS Integers

CONSTANTS LMAX, MMAX, MRES,  \* the sizes of the transform
          Jobs,              \* the calls considered, of JobType
          Blocks,            \* the number of blocks of latitudes
          RescaleL,          \* SHT_L_RESCALE_FLY
          MinExp             \* the least exponent considered

ASSUME SizesAssumption ==
  /\ LMAX \in Nat \ {0} /\ MMAX \in Nat /\ MRES \in Nat \ {0} /\ MMAX * MRES <= LMAX
  /\ Blocks \in Nat \ {0} /\ RescaleL \in Nat /\ MinExp \in Int /\ MinExp <= 0

Wrong == -1
Pad == -2          \* a zero put into a buffer on purpose: its terms add nothing

JobType ==
  [kern: {"fly", "omp", "mic"},
   dir: {"synth", "analys"},
   one: BOOLEAN,                \* the function for one order, of fly
   f: {"Q", "V", "3"},          \* scalar, vector, or both
   llim: 0..LMAX, im: 0..MMAX,  \* the truncation; the order of a function for one
   magic: BOOLEAN,              \* SHTNS4MAGIC: the vectors on the grid carry a sine
   nth: Nat \ {0}]              \* the threads of omp and mic

\* Only fly has functions for one order, and it has one thread.
ASSUME JobsAssumption ==
  \A j \in Jobs :
    /\ j \in JobType /\ j.im * MRES <= j.llim
    /\ j.one => j.kern = "fly"
    /\ j.kern = "fly" => j.nth = 1

VARIABLES
  job,      \* the call being executed
  th, im,   \* the thread, and the order it is at
  blk,      \* the block of latitudes
  pc,       \* "order", "start", "skip", "sum", "stored", "finish", "next", "done"
  alm,      \* offset of the row of recurrence coefficients
  co,       \* what is added to a degree to find its coefficient
  vw,       \* synthesis: the content of VWl, a function of the degree
  r,        \* the registers of a block
  cleared,  \* analysis: the accumulators which have been set to zero
  out       \* analysis: what has been stored at each position of the result
vars == <<job, th, im, blk, pc, alm, co, vw, r, cleared, out>>

m == im * MRES
Has(f) == job.f \in {f, "3"}      \* is a line with that tag compiled in

(***************************************************************************)
(* The packed tables, as their writers lay them out.                       *)
(***************************************************************************)
\* The position of degree l and order i in the spectral arrays.
LiM(l, i) == ((i * (2 * LMAX + 2 - (i + 1) * MRES)) \div 2) + l

\* legendre_precomp: the row of order i holds a pair for each degree i*MRES..LMAX+1; the
\* first one is the start value and the factor for the degree after it.
AlmRow(i) == i * (2 * (LMAX + 1) - (i - 1) * MRES)
AlmPair(i, d) == AlmRow(i) + 2 * (d - i * MRES - 1)

\* The degree after p1 and p2, from the pair at offset o.
Rec(p1, p2, o) ==
  IF p2 # Wrong /\ p1 = p2 + 1 /\ p1 <= LMAX /\ o = AlmPair(im, p1 + 1) THEN p1 + 1 ELSE Wrong

\* The same for the derivative, which also uses y itself.
RecD(d1, y1, d0, o) == IF d1 = y1 THEN Rec(d1, d0, o) ELSE Wrong

(***************************************************************************)
(* Registers, and a term of a sum: which field, the degree of y, the       *)
(* degree its coefficient belongs to, and the parity about the equator of  *)
(* the sum or of the data.                                                 *)
(***************************************************************************)
Registers ==
  [l |-> 0, al |-> 0, ny |-> 0, y0 |-> Wrong, y1 |-> Wrong, d0 |-> Wrong, d1 |-> Wrong,
   first |-> 0,                  \* the degree at which y was large enough
   q |-> 0, v |-> 0,             \* analysis: where the pointers into qq and vw are
   weight |-> FALSE,             \* analysis: has y been multiplied by the weight
   sinQ |-> 0, sinV |-> 0,       \* the power of sin(theta) in the terms, less m
   half |-> 0, nphi |-> FALSE,   \* the halves in the factor of y; is it multiplied by nphi
   terms |-> {}, twice |-> FALSE]

Add(x, f, y, c, p) ==
  LET t == <<f, IF x.ny = 0 /\ x.weight = (job.dir = "analys") THEN y ELSE Wrong, c, p>>
  IN  IF Has(f) /\ c # Pad THEN [x EXCEPT !.terms = @ \cup {t}, !.twice = @ \/ t \in x.terms] ELSE x

\* The scalar coefficient of degree l which the loops see: read in place, or from the
\* copy of mic.
QlmAt(l) == IF co + l = IF job.one THEN l - m ELSE LiM(l, im) THEN l ELSE Wrong
MicQl(l) == IF l \in m..job.llim THEN QlmAt(l)
            ELSE IF job.f = "3" /\ l = job.llim + 1 THEN Pad ELSE Wrong
VWlAt(l) == IF l \in DOMAIN vw THEN l ELSE Wrong
\* For m=0 the real parts are packed; a loop do..while copies degree 1 even when llim is 0.
Packed0 == 1..(IF job.llim > 1 THEN job.llim ELSE 1)
Ql0(i) == IF i = 0 \/ i \in Packed0 THEN i ELSE Wrong
Sl0(i) == IF i + 1 \in Packed0 THEN i + 1 ELSE Wrong

\* An accumulator at offset o, where each degree has w numbers; the first is for degree m.
Slot(o, w) == IF o % w = 0 /\ (o \div w) \in cleared THEN m + (o \div w) ELSE Wrong

(***************************************************************************)
(* The two steps of a loop of synthesis for m > 0, then of analysis.  c is *)
(* what is added to l, a is the offset of the pair of al.                  *)
(***************************************************************************)
SynEven(x, Q(_), c, a) ==
  [Add(Add(x, "Q", x.y0, Q(x.l + c), 0), "V", x.y0, VWlAt(x.l + c), 0)
     EXCEPT !.y0 = Rec(x.y1, x.y0, x.al + a)]
SynOdd(x, Q(_), c, a) ==
  [Add(Add(x, "Q", x.y1, Q(x.l + c), 1), "V", x.y1, VWlAt(x.l + c), 1)
     EXCEPT !.y1 = Rec(x.y0, x.y1, x.al + a)]

AnaEven(x, sq, sv, a) ==
  [Add(Add(x, "Q", x.y0, sq, 0), "V", x.y0, sv, 0) EXCEPT !.y0 = Rec(x.y1, x.y0, x.al + a)]
AnaOdd(x, sq, sv, a) ==
  [Add(Add(x, "Q", x.y1, sq, 1), "V", x.y1, sv, 1) EXCEPT !.y1 = Rec(x.y0, x.y1, x.al + a)]

Advance(x, dl, da, dq, dv) ==
  [x EXCEPT !.l = @ + dl, !.al = @ + da, !.q = @ + dq, !.v = @ + dv]

\* The recurrence alone, while y is too small to count; g tells whether it was rescaled.
Climb(x, g) ==
  LET a == [x EXCEPT !.y0 = Rec(x.y1, x.y0, x.al)]
      b == [a EXCEPT !.y1 = Rec(a.y0, a.y1, x.al + 2)]
  IN  [Advance(b, 2, 4, 0, 0) EXCEPT !.ny = IF g THEN @ + 1 ELSE @]

\* sin(theta)^(m+s) by repeated squaring from h halves, the first two degrees, the scale.
Begin(s, h, nphi, ny) ==
  [Registers EXCEPT !.l = m, !.al = alm + 2, !.ny = ny, !.sinQ = s, !.sinV = s,
     !.y0 = IF alm = AlmRow(im) THEN m ELSE Wrong,
     !.y1 = IF alm = AlmRow(im) THEN m + 1 ELSE Wrong, !.half = h, !.nphi = nphi]

(***************************************************************************)
(* Order 0: the derivative of y is climbed beside y, and the antisymmetric *)
(* part of a vector meets the even degrees.                                *)
(***************************************************************************)
Begin0(l, h, nphi) ==
  [Registers EXCEPT !.l = l, !.al = alm + 2, !.half = h, !.nphi = nphi,
     !.y0 = IF alm = AlmRow(0) THEN 0 ELSE Wrong, !.d0 = 0,
     !.y1 = IF alm = AlmRow(0) THEN 1 ELSE Wrong, !.d1 = 1, !.first = 0,
     !.sinV = 1, !.weight = (job.dir = "analys")]

SynStart0 ==
  LET b == [Begin0(2, 2, FALSE) EXCEPT !.sinV = IF job.magic THEN 2 ELSE 1]
      x == Add(b, "Q", 0, Ql0(0), 0)
  IN  Add(Add(x, "Q", x.y1, Ql0(1), 1), "V", x.d1, Sl0(0), 0)

Even0(x, a) == [x EXCEPT !.d0 = RecD(x.d1, x.y1, x.d0, x.al + a),
                         !.y0 = Rec(x.y1, x.y0, x.al + a)]
Odd0(x, a) == [x EXCEPT !.d1 = RecD(x.d0, x.y0, x.d1, x.al + a),
                        !.y1 = Rec(x.y0, x.y1, x.al + a)]

SynEven0(x) == LET e == Even0(x, 0)
               IN  Add(Add(e, "Q", e.y0, Ql0(e.l), 0), "V", e.d0, Sl0(e.l - 1), 1)
SynOdd0(x) == LET o == Odd0(x, 2)
              IN  Add(Add(o, "Q", o.y1, Ql0(o.l + 1), 1), "V", o.d1, Sl0(o.l), 0)
SynPair0(x) == Advance(SynOdd0(SynEven0(x)), 2, 4, 0, 0)
SynTail0(x) == IF x.l = job.llim THEN SynEven0(x) ELSE x

AnaOdd0(x, sq, sv) == Add(Add(x, "Q", x.y1, sq, 1), "V", x.d1, sv, 0)
AnaEven0(x, sq, sv) == Add(Add(x, "Q", x.y0, sq, 0), "V", x.d0, sv, 1)
\* Accumulator l-1 of qq, numbers 2l-2 and 2l-1 of vw: there degree 1 comes first.
Slot0(o, w) == IF o % w = 0 /\ (o \div w) \in cleared THEN 1 + (o \div w) ELSE Wrong
AnaPair0(x) ==
  LET a == AnaOdd0(Even0(x, 0), Slot0(x.l - 1, 1), Slot0(2 * x.l - 2, 2))
  IN  Advance(AnaEven0(Odd0(a, 2), Slot0(x.l, 1), Slot0(2 * x.l, 2)), 2, 4, 0, 0)
AnaTail0(x) ==
  IF x.l = job.llim THEN AnaOdd0(x, Slot0(x.l - 1, 1), Slot0(2 * x.l - 2, 2)) ELSE x

(***************************************************************************)
(* fly, synthesis of all orders.                                           *)
(***************************************************************************)
\* What the conversion from vector to scalar harmonics leaves for degree l: the degrees
\* whose coefficients enter, each with the index of its factor in mx (Wrong: no factor).
\* The upper neighbour comes with mx[2l], the lower one is carried from l-1 with mx[2l-1].
Converted(base, l) ==
  (IF l <= job.llim THEN {<<l, Wrong>>} ELSE {})
  \cup (IF l < job.llim THEN {<<l + 1, base + 2 * l>>} ELSE {})
  \cup (IF l > m THEN {<<l - 1, base + 2 * (l - 1) + 1>>} ELSE {})
VectorInput(base) == IF Has("V") THEN [l \in m..(job.llim + 1) |-> Converted(base, l)] ELSE <<>>

FlySynOrder ==
  LET l == (im * (2 * (LMAX + 1) - (m + MRES))) \div 2
  IN  /\ alm' = alm + 2 * (LMAX + 1 - m + MRES)
      /\ co' = l
      /\ vw' = VectorInput(2 * l)
FlySynStart0 == SynStart0
FlySynStart(ny) == Begin(IF Has("V") /\ ~job.magic THEN -1 ELSE 0, 2, FALSE, ny)
FlySynPair(x) == Advance(SynOdd(SynEven(x, QlmAt, 0, 0), QlmAt, 1, 2), 2, 4, 0, 0)
\* The even degree of a vector is always left over; at l = llim so are Q and the odd one.
FlySynTail(x) ==
  LET a == Add(x, "V", x.y0, VWlAt(x.l), 0)
      b == IF x.l = job.llim
           THEN Add(Add(a, "Q", x.y0, QlmAt(x.l), 0), "V", x.y1, VWlAt(x.l + 1), 1)
           ELSE a
  IN  [b EXCEPT !.sinQ = IF job.f = "3" /\ ~job.magic THEN @ + 1 ELSE @]
FlySyn0(x) == IF x.l < job.llim THEN SynPair0(x) ELSE SynTail0(x)

(***************************************************************************)
(* fly, synthesis of one order; the arrays of the caller start at degree m.*)
(***************************************************************************)
FlyOneSynOrder ==
  LET l == im * (2 * (LMAX + 1) - m)
  IN  /\ alm' = l + m
      /\ co' = -m
      /\ vw' = VectorInput(l - m)
FlyOneSynStart0 == SynStart0
FlyOneSynStart(ny) == Begin(IF Has("V") /\ ~job.magic THEN -1 ELSE 0, 2, FALSE, ny)
FlyOneSynPair(x) == FlySynPair(x)
FlyOneSynTail(x) == FlySynTail(x)
FlyOneSyn0(x) == IF x.l < job.llim THEN SynPair0(x) ELSE SynTail0(x)

(***************************************************************************)
(* omp, synthesis: the rows are found from the order, as threads skip some.*)
(***************************************************************************)
OmpSynOrder ==
  LET l == (im * (2 * (LMAX + 1) - (m + MRES))) \div 2
  IN  /\ alm' = 2 * (l + m)
      /\ co' = l
      /\ vw' = VectorInput(2 * l)
OmpSynStart0 == SynStart0
OmpSynStart(ny) == Begin(IF Has("V") /\ ~job.magic THEN -1 ELSE 0, 2, FALSE, ny)
OmpSynPair(x) == FlySynPair(x)
OmpSynTail(x) == FlySynTail(x)
OmpSyn0(x) == IF x.l < job.llim THEN SynPair0(x) ELSE SynTail0(x)

(***************************************************************************)
(* mic, synthesis: Q is copied one element below its degree and, beside a  *)
(* vector, padded with a zero; vectors run their loop one degree further.  *)
(***************************************************************************)
MicSynOrder ==
  LET l == (im * (2 * (LMAX + 1) - (m + MRES))) \div 2
  IN  /\ alm' = 2 * (l + m)
      /\ co' = l
      /\ vw' = VectorInput(2 * l)
MicSynStart0 == SynStart0
MicSynStart(ny) == Begin(IF Has("V") /\ ~job.magic THEN -1 ELSE 0, 2, FALSE, ny)
Llim2 == IF Has("V") THEN job.llim + 1 ELSE job.llim

\* mutant: the odd term reads the recurrence of the even one
MMicSynPair(x) == Advance(SynOdd(SynEven(x, MicQl, 0, 0), MicQl, 1, 0), 2, 4, 0, 0)
MicSynPair(x) == Advance(SynOdd(SynEven(x, MicQl, 0, 0), MicQl, 1, 2), 2, 4, 0, 0)
MicSynTail(x) ==
  LET a == IF job.f = "Q" THEN Add(x, "Q", x.y0, MicQl(x.l), 0) ELSE Add(x, "V", x.y0, VWlAt(x.l), 0)
      b == IF x.l = Llim2 THEN a ELSE x
  IN  [b EXCEPT !.sinQ = IF job.f = "3" /\ ~job.magic THEN @ + 1 ELSE @]
MicSyn0(x) == IF x.l < job.llim THEN SynPair0(x) ELSE SynTail0(x)

(***************************************************************************)
(* Analysis.  After the climb the pointers move to the accumulators of the *)
(* degree reached, and y takes the weight of the latitude; the data of a   *)
(* vector or beside one has been multiplied with a power of sin(theta).    *)
(***************************************************************************)
Weigh(x, w) ==
  [x EXCEPT !.weight = TRUE, !.q = @ + w * (x.l - m), !.v = @ + 2 * w * (x.l - m),
            !.sinQ = IF job.f = "3" THEN @ + 1 ELSE @,
            !.sinV = IF job.magic THEN @ - 1 ELSE @]

\* What is stored: order, degree, and for vectors the degrees it was made from, each with
\* the index of its factor in mx.
Unset == [i |-> Wrong, l |-> Wrong, v |-> {}]
Zero == [i |-> Pad, l |-> Pad, v |-> {}]
Read(s) == IF s \in cleared THEN m + s ELSE Wrong
Combined(base, s) ==
  {<<Read(s), Wrong>>, <<Read(s + 1), base + 2 * s>>}
  \cup (IF s > 0 THEN {<<Read(s - 1), base + 2 * (s - 1) + 1>>} ELSE {})

\* Store the accumulators up to llim, zeroes for the rest of the order.
Stored(o, base) ==
  [p \in DOMAIN o |->
     IF p - co \in m..job.llim
     THEN [i |-> im, l |-> Read(p - co - m), v |-> IF Has("V") THEN Combined(base, p - co - m) ELSE {}]
     ELSE IF p - co \in (job.llim + 1)..LMAX THEN Zero ELSE o[p]]
Stored0(o) ==
  [p \in DOMAIN o |->
     IF p = 0 THEN [i |-> 0, l |-> 0, v |-> {}]
     ELSE IF p \in 1..job.llim
     THEN LET l == IF p - 1 \in cleared THEN p ELSE Wrong
          IN  [i |-> 0, l |-> l, v |-> IF Has("V") THEN {<<l, Wrong>>} ELSE {}]
     ELSE IF p \in (job.llim + 1)..LMAX THEN Zero ELSE o[p]]
ZeroFrom(o, i) == [p \in DOMAIN o |-> IF p >= LiM(i * MRES, i) THEN Zero ELSE o[p]]

\* mutant: orders with no degree left count
Mimlim == job.llim \div MRES
\* The last order which the truncation leaves.
imlim == IF MMAX * MRES > job.llim THEN job.llim \div MRES ELSE MMAX

(***************************************************************************)
(* fly, analysis of all orders.                                            *)
(***************************************************************************)
FlyAna0(x) == IF x.l < job.llim THEN AnaPair0(x) ELSE AnaTail0(x)
FlyAnaStart0 == Begin0(1, 2, FALSE)
FlyAnaOrder == /\ alm' = alm + 2 * (LMAX + 1 - m + MRES)
               /\ cleared' = 0..(job.llim + 1 - m)
               /\ co' = LiM(m, im) - m
FlyAnaStart(ny) == Begin(IF Has("V") THEN -1 ELSE 0, 1, FALSE, ny)
FlyAnaWeigh(x) == Weigh(x, 2)
FlyAnaPair(x) ==
  Advance(AnaOdd(AnaEven(x, Slot(x.q, 2), Slot(x.v, 4), 0),
                 Slot(x.q + 2, 2), Slot(x.v + 4, 4), 2), 2, 4, 4, 8)
FlyAnaTail(x) ==
  LET a == Add(x, "V", x.y0, Slot(x.v, 4), 0)
  IN  IF x.l = job.llim
      THEN Add(Add(a, "Q", x.y0, Slot(x.q, 2), 0), "V", x.y1, Slot(x.v + 4, 4), 1)
      ELSE a
FlyAnaStore(o) == IF im = 0 THEN Stored0(o) ELSE Stored(o, 2 * LiM(m, im))
\* mutant: one order too few is cleared
MFlyAnaEnd(o) == IF imlim < MMAX THEN ZeroFrom(o, imlim + 2) ELSE o
FlyAnaEnd(o) == IF imlim < MMAX THEN ZeroFrom(o, imlim + 1) ELSE o

(***************************************************************************)
(* fly, analysis of one order: the data has not been through the FFT, so y *)
(* takes a factor nphi, which cancels the normalisation in blm.            *)
(***************************************************************************)
FlyOneAna0(x) == IF x.l < job.llim THEN AnaPair0(x) ELSE AnaTail0(x)
FlyOneAnaStart0 == Begin0(1, 2, TRUE)
FlyOneAnaOrder == /\ alm' = im * (2 * (LMAX + 1) - m + MRES)
                  /\ cleared' = 0..(job.llim - m)
                  /\ co' = -m
FlyOneAnaStart(ny) == Begin(IF Has("V") THEN -1 ELSE 0, 2, TRUE, ny)
FlyOneAnaWeigh(x) == Weigh(x, 2)
FlyOneAnaPair(x) == FlyAnaPair(x)
FlyOneAnaTail(x) == FlyAnaTail(x)
FlyOneAnaStore(o) == IF im = 0 THEN Stored0(o) ELSE Stored(o, 2 * LiM(m, im))

(***************************************************************************)
(* omp and mic, analysis: the thread of order 0 also zeroes the orders     *)
(* which the truncation removes; mic adds up each block before storing.    *)
(***************************************************************************)
OmpAna0(x) == IF x.l < job.llim THEN AnaPair0(x) ELSE AnaTail0(x)
OmpAnaStart0 == Begin0(1, 2, FALSE)
OmpAnaOrder == /\ alm' = im * (2 * (LMAX + 1) - m + MRES)
               /\ cleared' = 0..(job.llim + 1 - m)
               /\ co' = LiM(m, im) - m
OmpAnaStart(ny) == Begin(IF Has("V") THEN -1 ELSE 0, 1, FALSE, ny)
OmpAnaWeigh(x) == Weigh(x, 2)
OmpAnaPair(x) == FlyAnaPair(x)
OmpAnaTail(x) == FlyAnaTail(x)
OmpAnaStore(o) ==
  IF im > 0 THEN Stored(o, 2 * LiM(m, im))
  ELSE IF imlim + 1 <= MMAX THEN ZeroFrom(Stored0(o), imlim + 1) ELSE Stored0(o)

MicAna0(x) == IF x.l < job.llim THEN AnaPair0(x) ELSE AnaTail0(x)
MicAnaStart0 == Begin0(1, 2, FALSE)
MicAnaOrder == /\ alm' = im * (2 * (LMAX + 1) - m + MRES)
               /\ cleared' = 0..(job.llim - m + 1)
               /\ co' = LiM(m, im) - m
MicAnaStart(ny) == Begin(IF Has("V") THEN -1 ELSE 0, 1, FALSE, ny)
MicAnaWeigh(x) == Weigh(x, 1)
MicAnaPair(x) ==
  Advance(AnaOdd(AnaEven(x, Slot(x.q, 1), Slot(x.v, 2), 0),
                 Slot(x.q + 1, 1), Slot(x.v + 2, 2), 2), 2, 4, 2, 4)
MicAnaTail(x) ==
  LET a == Add(x, "V", x.y0, Slot(x.v, 2), 0)
  IN  IF x.l = job.llim
      THEN Add(Add(a, "Q", x.y0, Slot(x.q, 1), 0), "V", x.y1, Slot(x.v + 2, 2), 1)
      ELSE a
MicAnaStore(o) ==
  IF im > 0 THEN Stored(o, 2 * LiM(m, im))
  ELSE IF imlim + 1 <= MMAX THEN ZeroFrom(Stored0(o), imlim + 1) ELSE Stored0(o)

(***************************************************************************)
(* The machine.                                                            *)
(***************************************************************************)
Synth == job.dir = "synth"
Which(fly, one, omp, mic) ==
  IF job.one THEN one
  ELSE IF job.kern = "omp" THEN omp
  ELSE IF job.kern = "mic" THEN mic ELSE fly

Init ==
  /\ job \in Jobs
  /\ th = 0 /\ im = (IF job.one THEN job.im ELSE 0) /\ blk = 1 /\ pc = "order"
  /\ alm = 0 /\ co = 0 /\ vw = <<>> /\ r = Registers /\ cleared = {}
  /\ out = IF Synth THEN <<>>
           ELSE [p \in 0..(IF job.one THEN LMAX - m ELSE LiM(LMAX, MMAX)) |-> Unset]

Order0 ==
  /\ pc = "order" /\ im = 0
  /\ alm' = 0 /\ co' = 0
  /\ cleared' = IF Synth THEN cleared ELSE 0..(job.llim - 1)
  /\ pc' = "start"
  /\ UNCHANGED <<job, th, im, blk, vw, r, out>>

OrderM ==
  /\ pc = "order" /\ im > 0
  /\ IF Synth
     THEN /\ Which(FlySynOrder, FlyOneSynOrder, OmpSynOrder, MicSynOrder)
          /\ UNCHANGED cleared
     ELSE /\ Which(FlyAnaOrder, FlyOneAnaOrder, OmpAnaOrder, MicAnaOrder)
          /\ UNCHANGED vw
  /\ pc' = "start"
  /\ UNCHANGED <<job, th, im, blk, r, out>>

\* The exponents which the powers of a sine can have: none below RescaleL.
Exponents == IF job.llim <= RescaleL THEN {0} ELSE MinExp..0

Start ==
  /\ pc = "start"
  /\ IF im = 0
     THEN /\ r' = IF Synth THEN Which(FlySynStart0, FlyOneSynStart0, OmpSynStart0, MicSynStart0)
                  ELSE Which(FlyAnaStart0, FlyOneAnaStart0, OmpAnaStart0, MicAnaStart0)
          /\ pc' = "sum"
     ELSE /\ \E ny \in Exponents :
               r' = IF Synth
                    THEN Which(FlySynStart(ny), FlyOneSynStart(ny), OmpSynStart(ny), MicSynStart(ny))
                    ELSE Which(FlyAnaStart(ny), FlyOneAnaStart(ny), OmpAnaStart(ny), MicAnaStart(ny))
          /\ pc' = "skip"
  /\ UNCHANGED <<job, th, im, blk, alm, co, vw, cleared, out>>

Skip ==
  /\ pc = "skip" /\ r.ny < 0 /\ r.l < job.llim
  /\ \E g \in BOOLEAN : r' = Climb(r, g)
  /\ UNCHANGED <<job, th, im, blk, pc, alm, co, vw, cleared, out>>

\* With ny < 0 at the end the whole block is left out.
EndSkip ==
  /\ pc = "skip" /\ (r.ny = 0 \/ r.l >= job.llim)
  /\ LET x == [r EXCEPT !.first = r.l]
     IN  r' = IF Synth \/ r.ny < 0 THEN x
              ELSE Which(FlyAnaWeigh(x), FlyOneAnaWeigh(x), OmpAnaWeigh(x), MicAnaWeigh(x))
  /\ pc' = IF r.ny = 0 THEN "sum" ELSE "stored"
  /\ UNCHANGED <<job, th, im, blk, alm, co, vw, cleared, out>>

Limit == IF Synth /\ job.kern = "mic" /\ im > 0 THEN Llim2 ELSE job.llim

Pair(x) ==
  CASE im = 0 /\ Synth -> Which(FlySyn0(x), FlyOneSyn0(x), OmpSyn0(x), MicSyn0(x))
    [] im = 0 /\ ~Synth -> Which(FlyAna0(x), FlyOneAna0(x), OmpAna0(x), MicAna0(x))
    [] im > 0 /\ Synth -> Which(FlySynPair(x), FlyOneSynPair(x), OmpSynPair(x), MicSynPair(x))
    [] im > 0 /\ ~Synth -> Which(FlyAnaPair(x), FlyOneAnaPair(x), OmpAnaPair(x), MicAnaPair(x))
Ending(x) ==
  CASE im = 0 -> Pair(x)
    [] im > 0 /\ Synth -> Which(FlySynTail(x), FlyOneSynTail(x), OmpSynTail(x), MicSynTail(x))
    [] im > 0 /\ ~Synth -> Which(FlyAnaTail(x), FlyOneAnaTail(x), OmpAnaTail(x), MicAnaTail(x))

SumPair ==
  /\ pc = "sum" /\ r.l < Limit
  /\ r' = Pair(r)
  /\ UNCHANGED <<job, th, im, blk, pc, alm, co, vw, cleared, out>>

SumTail ==
  /\ pc = "sum" /\ r.l >= Limit
  /\ r' = Ending(r)
  /\ pc' = "stored"
  /\ UNCHANGED <<job, th, im, blk, alm, co, vw, cleared, out>>

NextBlock ==
  /\ pc = "stored"
  /\ IF blk < Blocks THEN blk' = blk + 1 /\ pc' = "start" ELSE blk' = 1 /\ pc' = "finish"
  /\ UNCHANGED <<job, th, im, alm, co, vw, r, cleared, out>>

Finish ==
  /\ pc = "finish"
  /\ out' = IF Synth THEN out
            ELSE Which(FlyAnaStore(out), FlyOneAnaStore(out), OmpAnaStore(out), MicAnaStore(out))
  /\ pc' = "next"
  /\ UNCHANGED <<job, th, im, blk, alm, co, vw, r, cleared>>

\* Thread th takes the orders th, th + nth, ...; here one thread after the other.
NextOrder ==
  /\ pc = "next"
  /\ \/ /\ ~job.one /\ im + job.nth <= imlim
        /\ im' = im + job.nth /\ pc' = "order"
        /\ UNCHANGED <<th, out>>
     \/ /\ ~job.one /\ im + job.nth > imlim /\ th + 1 < job.nth /\ th + 1 <= imlim
        /\ th' = th + 1 /\ im' = th + 1 /\ pc' = "order"
        /\ UNCHANGED out
     \/ /\ job.one \/ (im + job.nth > imlim /\ (th + 1 >= job.nth \/ th + 1 > imlim))
        /\ pc' = "done"
        /\ out' = IF Synth \/ job.one \/ job.kern # "fly" THEN out ELSE FlyAnaEnd(out)
        /\ UNCHANGED <<th, im>>
  /\ UNCHANGED <<job, blk, alm, co, vw, r, cleared>>

Next == Order0 \/ OrderM \/ Start \/ Skip \/ EndSkip \/ SumPair \/ SumTail \/ NextBlock
        \/ Finish \/ NextOrder
Spec == Init /\ [][Next]_vars

(***************************************************************************)
(* Properties.                                                             *)
(***************************************************************************)
TypeOK ==
  /\ job \in Jobs /\ im \in 0..MMAX /\ th \in 0..MMAX /\ blk \in 1..Blocks
  /\ pc \in {"order", "start", "skip", "sum", "stored", "finish", "next", "done"}
  /\ alm \in Nat /\ co \in Int /\ cleared \subseteq 0..(LMAX + 1)
  /\ r.l \in 0..(LMAX + 2) /\ r.ny \in MinExp..0 /\ r.first \in 0..(LMAX + 1)
  /\ r.al \in Nat /\ r.q \in Nat /\ r.v \in Nat

\* The number of elements of the orders before i in a spectral array, and the place of a degree.
Before[i \in 0..MMAX] == IF i = 0 THEN 0 ELSE Before[i - 1] + LMAX - (i - 1) * MRES + 1
Pos(i, l) == Before[i] + l - i * MRES

\* Each degree meets its own coefficient once, or its own accumulator once, on the side of
\* the equator its parity asks for; near the poles the degrees from the first one that
\* counts.  For m > 0 vectors have a degree llim+1.
DueFrom(n) ==
  {<<"Q", l, l, (l - n) % 2>> : l \in {l \in n..job.llim : Has("Q")}}
  \cup {<<"V", l, l, (l - n) % 2>> : l \in {l \in n..(job.llim + 1) : Has("V")}}
Due0 ==
  {<<"Q", l, l, l % 2>> : l \in {l \in (IF Synth THEN 0 ELSE 1)..job.llim : Has("Q")}}
  \cup {<<"V", l, l, (l + 1) % 2>> : l \in {l \in 1..job.llim : Has("V")}}
DegreesRight ==
  pc = "stored" => /\ ~r.twice
                   /\ r.terms = IF im = 0 THEN Due0 ELSE IF r.ny < 0 THEN {} ELSE DueFrom(r.first)

\* The converted vector of degree l is made from the degrees l-1, l and l+1 which the
\* truncation leaves, with the factors of this order: the last degree, llim+1, gets the
\* factor of llim, and llim takes nothing from above.
Mix(l, top) ==
  (IF l <= top THEN {<<l, Wrong>>} ELSE {})
  \cup (IF l + 1 <= top THEN {<<l + 1, 2 * Pos(im, l)>>} ELSE {})
  \cup (IF l - 1 >= m THEN {<<l - 1, 2 * Pos(im, l - 1) + 1>>} ELSE {})
InputsRight ==
  pc = "start" /\ im > 0 /\ Synth /\ Has("V") => vw = [l \in m..(job.llim + 1) |-> Mix(l, job.llim)]

\* When an analysis ends, every element of the result holds its own order and degree, made
\* from accumulators that were set; all beyond the truncation is zero.
Result(i, l) ==
  IF l > job.llim THEN Zero
  ELSE [i |-> i, l |-> l,
        v |-> IF ~Has("V") \/ (i = 0 /\ l = 0) THEN {}
              ELSE IF i = 0 THEN {<<l, Wrong>>}
              ELSE {<<l, Wrong>>, <<l + 1, 2 * Pos(i, l)>>}
                   \cup (IF l > i * MRES THEN {<<l - 1, 2 * Pos(i, l - 1) + 1>>} ELSE {})]
OutputsRight ==
  pc = "done" /\ ~Synth =>
    IF job.one THEN \A l \in m..LMAX : out[l - m] = Result(im, l)
    ELSE \A i \in 0..MMAX : \A l \in (i * MRES)..LMAX : out[Pos(i, l)] = Result(i, l)

\* The factors that go with a sum: all fields of a block have the power of sin(theta) that
\* the data on the grid asks for, and y is halved once, or not at all where the FFT's
\* normalisation needs the other half; an order analysed alone takes nphi instead.
FactorsRight ==
  pc = "stored" /\ r.ny = 0 =>
    /\ r.half = IF Synth \/ job.one \/ im = 0 THEN 2 ELSE 1
    /\ r.nphi = (job.one /\ ~Synth)
    /\ im > 0 /\ Has("Q") => r.sinQ = 0
    /\ im > 0 /\ Has("V") => r.sinV = IF job.magic THEN (IF Synth THEN 0 ELSE -2) ELSE -1

\* Every sum is right: its degrees, the vectors it starts from and its factors.
SumsRight == DegreesRight /\ InputsRight /\ FactorsRight
=============================================================================
