---------------------------- MODULE MCGpuKernels ----------------------------
(***************************************************************************)
(* All kernels, in blocks of a few warps; with one block of latitudes and  *)
(* with two, some threads without a latitude, one field and two.           *)
(***************************************************************************)
EXTENDS GpuKernels

Wide == [threads |-> 32, warp |-> 16]
Thin == [threads |-> 16, warp |-> 8]
MCShape ==
  [leg_m0 |-> Thin, leg_low |-> Thin, leg_high |-> Wide,
   ileg_m0 |-> Thin, ileg_low |-> Thin, ileg_high |-> Thin,
   sphtor2scal |-> Thin, scal2sphtor |-> Thin,
   transpose |-> Thin, transpose_zero |-> Thin, transpose_skip |-> Thin]

Launches(kerns, Ss, ims, llims, ns, Fs) ==
  [kern: kerns, S: Ss, im: ims, llim: llims, n: ns, fields: Fs]

\* Orders up to llim / mres are launched; vector transforms have one degree more.
Legal(j) == j.im * MRES <= j.llim /\ j.llim <= LMAX + j.S

MCJobs ==
  {j \in Launches({"leg_m0"}, {0, 1}, {0}, {1, 2, 5, 6, 7, LMAX}, {12, 20}, {1})
           \cup Launches({"leg_low"}, {0, 1}, {0, 1, MMAX}, {7, 8, 9, LMAX, LMAX + 1}, {24, 40}, {1, 2})
           \cup Launches({"leg_low"}, {0}, {0, 1}, {1, 2}, {24}, {1})
           \cup Launches({"leg_high"}, {0, 1}, {0, 2}, {4, 11, LMAX}, {24, 40}, {1})
           \cup Launches({"ileg_m0"}, {0, 1}, {0}, {1, 3, 4, LMAX}, {12, 20}, {1})
           \cup Launches({"ileg_low"}, {0, 1}, {0, 2}, {6, 7, 8}, {12, 20}, {1, 2})
           \cup Launches({"ileg_high"}, {0, 1}, {0, MMAX}, {7, 10}, {12, 20}, {1})
           \cup Launches(Convert, {0}, {0, 1, MMAX}, {6, 7, LMAX}, {12}, {1})
           \cup Launches(Transpose, {0}, {0}, {LMAX}, {8}, {1}) :
     Legal(j)}

\* Two fields, of a transform with order 0 only.
MCFields == {j \in Launches({"ileg_m0"}, {1}, {0}, {8}, {12}, {2}) : Legal(j)}
=============================================================================
