--------------------------- MODULE MCLegendreSum ---------------------------
(***************************************************************************)
(* All kernels, both directions, every kind of field and truncation, with  *)
(* one and two threads, on a transform with some orders left out.          *)
(***************************************************************************)
EXTENDS LegendreSum

Asked ==
  {j \in [kern: {"fly", "omp", "mic"}, dir: {"synth", "analys"}, one: BOOLEAN, f: {"Q", "V", "3"},
          llim: 0..LMAX, im: 0..MMAX, magic: BOOLEAN, nth: {1, 2}] :
     /\ j.one => j.kern = "fly"
     /\ ~j.one => j.im = 0
     /\ j.kern = "fly" => j.nth = 1
     /\ j.im * MRES <= j.llim}

\* Analysis of vectors for one order reads an accumulator which it has not set, when the
\* order is not 0.
Uncleared == {j \in Asked : j.one /\ j.dir = "analys" /\ j.f # "Q" /\ j.im > 0}
\* The loops for order 0 run once even for llim = 0.
Constant == {j \in Asked : j.llim = 0}

MCMinExp == -2
MCJobs == (Asked \ Uncleared) \ Constant
MCTop == Uncleared
MCConstant == Constant
=============================================================================
