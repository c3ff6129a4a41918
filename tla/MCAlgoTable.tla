---------------------------- MODULE MCAlgoTable ----------------------------
(* Small instances of the choice of transform functions for TLC.           *)
EXTENDS AlgoTable

\* The kind of program: many grids on one configuration, or jobs of several
\* processes which share the file.
VARIABLE program

MCRequest(k, v, ls, g, n, p) ==
  [kind |-> k, vector |-> v, load_save |-> ls, gpu |-> g, nlat |-> n,
   nphi |-> p]

(* Timings in which a, and then b, are faster than all the others. *)
Favour(a, b) ==
  [x \in Alg |-> IF x = a THEN 0 ELSE IF x = b THEN 1 ELSE 2]

(* Every type may have its own winner. *)
MCAnySpeeds ==
  {[t \in Type |-> IF t = "gto" THEN Favour("mem", "mem") ELSE time[t]] :
     time \in [Type \ {"gto"} ->
                 {Favour("mem", "mem"), Favour("s+v", "fly2")}]}
(* Scalar and vector types each have one. *)
MCTwoSpeeds ==
  {[t \in Type |-> IF t \in Scalar THEN time[1] ELSE time[2]] :
     time \in [1..2 -> {Favour("mem", "mem"), Favour("s+v", "omp2"),
                        Favour("gpu1", "fly4")}]}

(* One of each way through shtns_set_grid_auto; with a megabyte of 4000    *)
(* bytes, the matrices of 128 latitudes are not small, of 256 are huge.    *)
MCGrids ==
  {MCRequest("gauss", TRUE, FALSE, FALSE, 8, 8),
   MCRequest("gauss", FALSE, FALSE, FALSE, 8, 8),
   MCRequest("gauss", TRUE, FALSE, FALSE, 6, 1),
   MCRequest("gauss", TRUE, FALSE, FALSE, 6, 8),
   MCRequest("gauss", TRUE, FALSE, FALSE, 256, 8),
   MCRequest("quick_init", TRUE, FALSE, FALSE, 8, 8),
   MCRequest("quick_init", TRUE, FALSE, FALSE, 128, 8),
   MCRequest("gauss_fly", TRUE, FALSE, FALSE, 8, 8),
   MCRequest("reg_dct", TRUE, FALSE, FALSE, 16, 8)}
MCSize(l, m) == [lmax |-> l, mmax |-> m, mres |-> 1]
MCSizes == {MCSize(3, 2), MCSize(3, 0)}
MCOneSize == {MCSize(3, 2)}

(* Grids whose configuration is saved, with and without a GPU. *)
MCSaved ==
  {MCRequest("gauss", TRUE, TRUE, FALSE, 16, 8),
   MCRequest("quick_init", TRUE, TRUE, FALSE, 16, 8)}
MCSavedGpu ==
  {MCRequest("gauss", TRUE, TRUE, TRUE, 64, 8),
   MCRequest("gauss", TRUE, TRUE, TRUE, 128, 8),
   MCRequest("quick_init", TRUE, TRUE, TRUE, 64, 8)}

MCRequests == MCGrids \cup MCSaved \cup MCSavedGpu
MCSpeeds == MCAnySpeeds \cup MCTwoSpeeds

(* A program: its build, its processes, what they create and ask for, the  *)
(* timings.                                                                *)
Programs ==
  {[cuda |-> FALSE, rank |-> {0}, sizes |-> MCSizes, requests |-> MCGrids, threads |-> {4},
    speeds |-> MCAnySpeeds, grids |-> "many", records |-> 1],
   [cuda |-> TRUE, rank |-> Rank, sizes |-> MCOneSize, requests |-> MCSavedGpu, threads |-> {2},
    speeds |-> MCTwoSpeeds, grids |-> "one", records |-> MaxRecords]}

ProgramInit == Init /\ program \in Programs /\ cuda = program.cuda
ProgramNext ==
  /\ \/ \E n \in program.threads : use_threads(n)
     \/ \E p \in program.rank, s \in program.sizes : Create(p, s)
     \/ \E p \in program.rank, r \in program.requests :
          (cfg[p].phase = "ready" => program.grids = "many") /\ BeginSetGrid(p, r)
     \/ \E p \in program.rank, time \in program.speeds :
          Len(file) < program.records /\ EndSetGrid(p, time)
     \/ NewJob
  /\ UNCHANGED program
ProgramSpec == ProgramInit /\ [][ProgramNext]_<<vars, program>>

(* Jobs whose quick initialisation may load what another one has saved. *)
QuickProgram ==
  [cuda |-> FALSE, rank |-> {0}, sizes |-> MCOneSize, requests |-> MCSaved, threads |-> {2},
   speeds |-> MCTwoSpeeds, grids |-> "one", records |-> MaxRecords]
QuickSpec ==
  Init /\ program = QuickProgram /\ cuda = FALSE /\ [][ProgramNext]_<<vars, program>>
=============================================================================
