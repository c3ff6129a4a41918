--------------------------- MODULE MCFourierRows ---------------------------
(***************************************************************************)
(* Calls on the smallest grids and on grids whose last block of latitudes  *)
(* runs over the equator, for every vector extension and layout, with and  *)
(* without polar optimisation, for each number of vectors in a block.      *)
(***************************************************************************)
EXTENDS FourierRows

Sizes(simd) == CASE simd = "scalar" -> {8, 9} [] simd = "sse2" -> {8, 10}
                 [] simd = "avx" -> {16, 18} [] simd = "avx512" -> {32, 36}

Ways(simd) == IF simd = "scalar" THEN {1, 3} ELSE {1, 2, 3}

Asked ==
  UNION {[simd: {s}, magic: BOOLEAN, kernel: {"fly", "mic"}, kind: {"m0", "m", "fixed"},
          nlat: Sizes(s), nphi: {4}, im: {0, 1}, tm: {0, 1, 3}, nway: Ways(s)] : s \in Simds}

\* Left aside, because the code is wrong there: the calls which StoresWell excludes.
MCCalls == {c \in Asked : CallExists(c) /\ StoresWell(c)}

\* The largest block of mic, on the smallest grid which has it.
MCWide == {c \in [simd: {"sse2"}, magic: {FALSE}, kernel: {"mic"}, kind: {"m0"}, nlat: {32},
                  nphi: {4}, im: {0}, tm: {0}, nway: {8}] : CallExists(c)}

\* An even number of latitudes which is no multiple of 4.
MCEven == {c \in [simd: {"avx512"}, magic: {FALSE}, kernel: {"fly"}, kind: {"m"}, nlat: {34},
                  nphi: {4}, im: {1}, tm: {0}, nway: {1}] : CallExists(c)}
=============================================================================
