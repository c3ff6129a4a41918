----------------------------- MODULE AlgoTable -----------------------------
(***************************************************************************)
(* How a configuration of SHTns gets its transform functions: the table    *)
(* ftable that shtns_set_grid_auto fills from sht_func, by default, from   *)
(* the file shtns_cfg, or by timing the algorithms (choose_best_sht), and  *)
(* the Legendre matrices that the chosen functions read, some of which     *)
(* free_unused_matrices then releases.                                     *)
(*                                                                         *)
(* A job is a set of processes, ranked as MPI ranks them, that share the   *)
(* directory where shtns_cfg lives.  The file outlives the job.  When      *)
(* there is more than one process, the barrier of the documentation holds  *)
(* back the others until process 0 has set its grid.                       *)
(***************************************************************************)
EXTENDS Integers, Sequences, FiniteSets

CONSTANTS
  Rank,         \* the processes of a job, from 0
  NULL,         \* the null pointer
  VSIZE2,       \* doubles in a vector register
  Megabyte,     \* the bytes of a megabyte
  SHTNS_MAX_MEMORY,  \* in megabytes
  Builds,       \* builds considered: TRUE with cuda
  Sizes,        \* what the processes create
  Requests,     \* the grids they ask for
  Threads,      \* arguments of shtns_use_threads
  Speeds,       \* outcomes of the timings: [Type -> [Alg -> Nat]]
  MaxRecords    \* bound on the records of the file

FlyAlgs == <<"fly1", "fly2", "fly3", "fly4", "fly6", "fly8">>
OmpAlgs == <<"omp1", "omp2", "omp3", "omp4", "omp6", "omp8">>
GpuAlgs == <<"gpu1", "gpu2", "gpu3", "gpu4">>
sht_name ==
  <<"mem", "s+v", "fly1", "fly2", "fly3", "fly4", "fly6", "fly8", "gpu1", "gpu2", "gpu3",
    "gpu4", "omp1", "omp2", "omp3", "omp4", "omp6", "omp8">>
Alg == {sht_name[i] : i \in 1..Len(sht_name)}

Variant == {"std", "ltr", "m"}
Scalar == {"syn", "ana"}
Type == Scalar \cup {"vsy", "van", "gsp", "gto", "v3s", "v3a"}
Analysis == {"ana", "van", "v3a"}

Kinds == {"gauss", "gauss_fly", "quick_init", "reg_fast", "reg_dct",
          "reg_poles"}
Request ==
  [kind : Kinds, vector : BOOLEAN, load_save : BOOLEAN, gpu : BOOLEAN,
   nlat : Nat \ {0}, nphi : Nat \ {0}]
Size == [lmax : Nat, mmax : Nat, mres : Nat \ {0}]

ASSUME AlgoAssumption ==
  /\ 0 \in Rank /\ Rank \subseteq Nat
  /\ VSIZE2 \in {1, 2, 4, 8}
  /\ Megabyte \in Nat \ {0} /\ SHTNS_MAX_MEMORY \in Nat
  /\ Builds \subseteq BOOLEAN
  /\ Sizes \subseteq Size /\ Requests \subseteq Request
  /\ Threads \subseteq Nat \ {0}
  /\ Speeds \subseteq [Type -> [Alg -> Nat]]
  /\ NULL \notin Alg

VARIABLES
  cuda,         \* whether the library is built with cuda
  omp_threads,  \* the same in all processes of the job
  cfg,          \* cfg[p]: the configuration of process p
  file          \* the records of shtns_cfg, which outlives the processes

vars == <<cuda, omp_threads, cfg, file>>

(* Amounts of a matrix: none of it, its m=0 part, or all of it. *)
Matrix == {"ylm", "dylm", "zlm", "dzlm"}
NoMatrices == [x \in Matrix |-> 0]
NoFunctions == [v \in Variant |-> [t \in Type |-> NULL]]
NoConfig == [phase |-> "none"]

Init ==
  /\ cuda \in Builds
  /\ omp_threads = 1
  /\ cfg = [p \in Rank |-> NoConfig]
  /\ file = <<>>

-----------------------------------------------------------------------------
(* init_sht_array_func.                                                    *)

(* How many of the on-the-fly algorithms do not overflow half a meridian. *)
AlgLim(nlat) ==
  LET w == ((nlat + 1) \div 2) \div VSIZE2
  IN  IF w >= 8 THEN 6 ELSE IF w >= 6 THEN 5 ELSE IF w = 5 THEN 4 ELSE w

(* The types that the rows of ffly and fomp, and of fgpu, implement. *)
FlyTypes == <<Type \ Scalar, Type, Type, Scalar \cup {"gsp", "gto"}, Scalar, Scalar>>
GpuTypes == <<Type \ {"gsp", "gto"}, Type \ (Scalar \cup {"gsp", "gto"}),
              Scalar \cup {"vsy", "v3s"}, {"vsy", "v3s"}>>

(* Is sht_func[v][a][t] set, for a grid r, gpu telling if there is a GPU?  *)
Has(v, a, t, r, gpu) ==
  \/ a = "s+v" /\ t \in {"v3s", "v3a"}
  \/ a = "mem" /\ v # "m"
  \/ \E j \in 1..AlgLim(r.nlat) : t \in FlyTypes[j] /\ a = FlyAlgs[j]
  \/ \E j \in 1..AlgLim(r.nlat) :
       t \in FlyTypes[j] /\ a = OmpAlgs[j] /\ r.nphi > 1
  \/ \E j \in 1..4 :
       t \in GpuTypes[j] /\ a = GpuAlgs[j] /\ r.nphi > 1 /\ gpu /\ v # "m"

(* The function it points to: for a fixed m, omp is the function of fly. *)
Fun(v, a) ==
  IF v = "m" /\ \E j \in 1..6 : a = OmpAlgs[j]
  THEN FlyAlgs[CHOOSE j \in 1..6 : a = OmpAlgs[j]] ELSE a
sht_func(v, a, t, r, gpu) == IF Has(v, a, t, r, gpu) THEN Fun(v, a) ELSE NULL

(* set_sht_mem: there is no "mem" algorithm for a fixed m. *)
set_sht_mem(r) ==
  [v \in Variant |-> [t \in Type |->
     sht_func(v, IF v = "m" THEN "fly2" ELSE "mem", t, r, FALSE)]]

set_sht_fly(r, nthreads) ==
  LET a == IF nthreads > 1 /\ Has("std", "omp2", "syn", r, FALSE)
           THEN "omp2" ELSE "fly2"
  IN  [v \in Variant |-> [t \in Type |-> sht_func(v, a, t, r, FALSE)]]

-----------------------------------------------------------------------------
(* shtns_create, and the options of shtns_set_grid_auto.                   *)

Smaller(i, j) == IF i < j THEN i ELSE j

use_threads(n) ==
  /\ \A p \in Rank : cfg[p].phase = "none"
  /\ omp_threads' = n
  /\ UNCHANGED <<cuda, cfg, file>>

Create(p, s) ==
  /\ cfg[p].phase = "none"
  /\ \A q \in Rank : cfg[q].phase # "none" => cfg[q].size = s
  /\ cfg' = [cfg EXCEPT ![p] =
       [phase |-> "created", size |-> s,
        nthreads |-> Smaller(omp_threads, s.mmax + 1), req |-> NULL,
        gpu |-> FALSE, table |-> NoFunctions, have |-> NoMatrices,
        loaded |-> FALSE, again |-> FALSE]]
  /\ UNCHANGED <<cuda, omp_threads, file>>

QuickInit(r) == r.kind \in {"quick_init", "reg_fast", "reg_poles"}
Gauss(r) == r.kind \in {"gauss", "gauss_fly", "quick_init"}

(* The bytes of one scalar matrix: a double for each coefficient and each  *)
(* latitude of a hemisphere.                                               *)
nlm_calc(s) == (s.mmax + 1) * (s.lmax + 1) - (s.mres * s.mmax * (s.mmax + 1)) \div 2
sht_mem_size(s, nlat) == ((nlat + 1) \div 2) * 8 * nlm_calc(s)

MSetThreads(nthreads, s, r) ==
  IF QuickInit(r) /\ sht_mem_size(s, r.nlat) < Megabyte THEN 0 ELSE nthreads

(* Threads are disabled for small transforms in quick_init mode. *)
SetThreads(nthreads, s, r) ==
  IF QuickInit(r) /\ sht_mem_size(s, r.nlat) < Megabyte THEN 1 ELSE nthreads

(* The matrices of synthesis and analysis, of vectors too, take too much.  *)
Huge(r, s) ==
  2 * (IF r.vector THEN 3 ELSE 1) * sht_mem_size(s, r.nlat) > SHTNS_MAX_MEMORY * Megabyte

on_the_fly(r, s, nthreads) ==
  \/ r.kind \in {"gauss_fly", "reg_fast", "reg_dct", "reg_poles"}
  \/ Huge(r, s)
  \/ QuickInit(r) /\ \/ VSIZE2 >= 4 /\ r.nlat >= 4 * VSIZE2
                     \/ nthreads > 1 /\ r.nlat >= 16 * VSIZE2

(* The checks that stop the program. *)
GridAllowed(r, s, nthreads) ==
  /\ r.nlat > (IF Gauss(r) THEN s.lmax ELSE 2 * s.lmax)
  /\ VSIZE2 > 1 => r.nlat % 2 = 0
  /\ cuda => r.nlat % 64 = 0
  /\ r.nphi > 2 * s.mmax
  /\ on_the_fly(r, s, nthreads) => r.nlat >= 4 * VSIZE2

(* alloc_SHTarrays. *)
Matrices(r, otf) ==
  [x \in Matrix |-> IF ~otf /\ (r.vector \/ x \in {"ylm", "zlm"})
                    THEN 2 ELSE 0]

-----------------------------------------------------------------------------
(* config_save and config_load.                                            *)

(* What is compared: quick_init uses the records of gauss.  Nothing tells  *)
(* whether the GPU that the flags allow was found.                         *)
Key(s, nthreads, r) ==
  [lmax |-> s.lmax, mmax |-> s.mmax, mres |-> s.mres, nthreads |-> nthreads,
   nphi |-> r.nphi, nlat |-> r.nlat, vector |-> r.vector,
   load_save |-> r.load_save, allow_gpu |-> r.gpu,
   kind |-> IF r.kind = "quick_init" THEN "gauss" ELSE r.kind]

(* fprint_ftable: the first algorithm with this function gives its name. *)
NameOf(v, t, f, r, gpu) ==
  IF f = NULL THEN "none"
  ELSE LET same == {i \in 1..Len(sht_name) :
                      sht_func(v, sht_name[i], t, r, gpu) = f}
       IN  sht_name[CHOOSE i \in same : \A j \in same : i <= j]

Record(c, table) ==
  [key |-> Key(c.size, c.nthreads, c.req),
   name |-> [v \in Variant |-> [t \in Type |->
               NameOf(v, t, table[v][t], c.req, c.gpu)]],
   saved |-> table]     \* what the names stand for; not in the file

MMatching(key) ==
  {i \in 1..Len(file) : [file[i].key EXCEPT !.nlat = key.nlat] = key}

(* The first record with this key; the rest of the file is not read. *)
Matching(key) == {i \in 1..Len(file) : file[i].key = key}
Found(key) == CHOOSE i \in Matching(key) : \A j \in Matching(key) : i <= j

MLoaded(rec, table, r, gpu) ==
  [v \in Variant |-> [t \in Type |->
     LET n == rec.name[v][t]
     IN  IF n \in Alg /\ (\A j \in 1..6 : n # OmpAlgs[j]) /\ Has(v, n, t, r, gpu)
         THEN sht_func(v, n, t, r, gpu) ELSE table[v][t]]]

(* A name without function here leaves the default in place. *)
Loaded(rec, table, r, gpu) ==
  [v \in Variant |-> [t \in Type |->
     LET n == rec.name[v][t]
     IN  IF n \in Alg /\ Has(v, n, t, r, gpu)
         THEN sht_func(v, n, t, r, gpu) ELSE table[v][t]]]

-----------------------------------------------------------------------------
(* choose_best_sht.                                                        *)

(* The algorithms timed for type t. *)
Candidates(t, r, nthreads, have, gpu) ==
  {a \in Alg : /\ Has("std", a, t, r, gpu)
               /\ a = "mem" => have["ylm"] > 0
               /\ nthreads <= 1 => \A j \in 1..6 : a # OmpAlgs[j]}

(* The fastest, the first of the fastest in the order of sht_func. *)
Fastest(C, time) ==
  LET idx == {i \in 1..Len(sht_name) : sht_name[i] \in C}
  IN  sht_name[CHOOSE i \in idx : \A j \in idx :
                 \/ time[sht_name[i]] < time[sht_name[j]]
                 \/ time[sht_name[i]] = time[sht_name[j]] /\ i <= j]

(* Only one of the two gradients is timed, and nothing is when there is no *)
(* choice or when the meridian is too short for on-the-fly algorithms.     *)
Timed(t) == IF t = "gto" THEN "gsp" ELSE t
choose_best_sht(table, r, nthreads, have, gpu, time) ==
  [v \in Variant |-> [t \in Type |->
     LET C == Candidates(Timed(t), r, nthreads, have, gpu)
         a == Fastest(C, time[Timed(t)])
     IN  IF /\ r.nlat >= 4 * VSIZE2
            /\ r.vector \/ t \in Scalar
            /\ Cardinality(C) >= 2
            /\ Has(v, a, t, r, gpu)
         THEN sht_func(v, a, t, r, gpu) ELSE table[v][t]]]

Mfree_unused_matrices(table, have, mmax) ==
  LET uses(t) == \E v \in Variant : table[v][t] = "mem"
      only(t, x) == IF uses(t) THEN have[x] ELSE 0
  IN  [ylm |-> only("syn", "ylm"), zlm |-> only("ana", "zlm"),
       dylm |-> IF \E t \in {"v3s", "vsy", "gsp", "gto"} : uses(t)
                THEN have["dylm"] ELSE 0,
       dzlm |-> IF uses("v3a") \/ uses("van") THEN have["dzlm"] ELSE 0]

Mfree_nothing(table, have, mmax) == have

(* free_unused_matrices: what no function in use reads is released, except *)
(* that the 3-component transforms need the scalar matrix up to m=0.       *)
free_unused_matrices(table, have, mmax) ==
  LET uses(t) == \E v \in Variant : table[v][t] = "mem"
      scalar(t3, t, x) ==
        IF uses(t) THEN have[x]
        ELSE IF ~uses(t3) THEN 0
        ELSE IF mmax > 0 THEN Smaller(have[x], 1) ELSE have[x]
  IN  [ylm |-> scalar("v3s", "syn", "ylm"),
       zlm |-> scalar("v3a", "ana", "zlm"),
       dylm |-> IF \E t \in {"v3s", "vsy", "gsp", "gto"} : uses(t)
                THEN have["dylm"] ELSE 0,
       dzlm |-> IF uses("v3a") \/ uses("van") THEN have["dzlm"] ELSE 0]

-----------------------------------------------------------------------------
(* shtns_set_grid_auto.                                                    *)

(* External: a process alone sets its grids in any order.  When there are  *)
(* several, each sets one: process 0 first, the others after it and for    *)
(* the same request.                                                       *)
MayBegin(p, r) ==
  \/ p = 0 /\ cfg[0].phase = "created"
  \/ p = 0 /\ cfg[0].phase = "ready" /\ \A q \in Rank \ {0} : cfg[q].phase = "none"
  \/ /\ p # 0 /\ cfg[p].phase = "created"
     /\ cfg[0].phase = "ready" /\ ~cfg[0].again /\ r = cfg[0].req

(* Up to the call of config_load.  A configuration found in the file, or   *)
(* quick_init, leaves nothing to be timed.                                 *)
BeginSetGrid(p, r) ==
  \E gpu \in BOOLEAN :
    /\ MayBegin(p, r)
    /\ GridAllowed(r, cfg[p].size, SetThreads(cfg[p].nthreads, cfg[p].size, r))
    /\ gpu => cuda /\ r.gpu
    /\ LET c == cfg[p]
           nthreads == SetThreads(c.nthreads, c.size, r)
           otf == on_the_fly(r, c.size, nthreads)
           have == Matrices(r, otf)
           default == IF otf THEN set_sht_fly(r, nthreads) ELSE set_sht_mem(r)
           key == Key(c.size, nthreads, r)
           found == r.load_save /\ Matching(key) # {}
           table == IF found THEN Loaded(file[Found(key)], default, r, gpu)
                    ELSE default
       IN  cfg' = [cfg EXCEPT ![p] =
             [c EXCEPT
               !.phase = IF found \/ QuickInit(r) THEN "ready" ELSE "timing",
               !.nthreads = nthreads, !.req = r, !.gpu = gpu,
               !.table = table, !.loaded = found, !.again = (c.phase = "ready"),
               !.have = IF found /\ ~QuickInit(r) /\ ~otf
                        THEN free_unused_matrices(table, have, c.size.mmax)
                        ELSE have]]
    /\ UNCHANGED <<cuda, omp_threads, file>>

(* The rest, after the timings. *)
EndSetGrid(p, time) ==
  /\ cfg[p].phase = "timing"
  /\ LET c == cfg[p]
         table == choose_best_sht(c.table, c.req, c.nthreads, c.have, c.gpu, time)
         otf == on_the_fly(c.req, c.size, c.nthreads)
     IN  /\ cfg' = [cfg EXCEPT ![p] =
              [c EXCEPT
                !.phase = "ready", !.table = table,
                !.have = IF otf THEN c.have
                         ELSE free_unused_matrices(table, c.have, c.size.mmax)]]
         /\ file' = IF c.req.load_save THEN Append(file, Record(c, table))
                    ELSE file
  /\ UNCHANGED <<cuda, omp_threads>>

(* The job ends, or is killed, and another one starts. *)
NewJob ==
  /\ omp_threads' = 1
  /\ cfg' = [p \in Rank |-> NoConfig]
  /\ UNCHANGED <<cuda, file>>

Next ==
  \/ \E n \in Threads : use_threads(n)
  \/ \E p \in Rank, s \in Sizes : Create(p, s)
  \/ \E p \in Rank, r \in Requests : BeginSetGrid(p, r)
  \/ \E p \in Rank, time \in Speeds :
       Len(file) < MaxRecords /\ EndSetGrid(p, time)
  \/ NewJob

Spec == Init /\ [][Next]_vars

-----------------------------------------------------------------------------
Config ==
  [phase : {"created", "timing", "ready"}, size : Sizes, nthreads : Nat \ {0},
   req : Requests \cup {NULL}, gpu : BOOLEAN,
   table : [Variant -> [Type -> Alg \cup {NULL}]],
   have : [Matrix -> 0..2], loaded : BOOLEAN,
   again : BOOLEAN]      \* a grid had been set before this one

TypeOK ==
  /\ cuda \in Builds
  /\ omp_threads \in Nat \ {0}
  /\ \A p \in Rank : cfg[p] = NoConfig \/ cfg[p] \in Config
  /\ \A i \in 1..Len(file) :
       file[i].name \in [Variant -> [Type -> Alg \cup {"none"}]]

Ready == {p \in Rank : cfg[p].phase = "ready"}

(* The transforms that a request makes available. *)
Promised(r) == IF r.vector THEN Type ELSE Scalar

(* What function f of type t reads: "s+v" calls the functions of the       *)
(* scalar and of the vector type, the others need nothing.                 *)
MemNeeds(t) ==
  [x \in Matrix |->
    CASE x = "ylm" -> IF t = "syn" THEN 2 ELSE IF t = "v3s" THEN 1 ELSE 0
      [] x = "zlm" -> IF t = "ana" THEN 2 ELSE IF t = "v3a" THEN 1 ELSE 0
      [] x = "dylm" -> IF t \in {"vsy", "gsp", "gto", "v3s"} THEN 2 ELSE 0
      [] x = "dzlm" -> IF t \in {"van", "v3a"} THEN 2 ELSE 0]

Runs(c, v, t) ==
  c.table[v][t] = "mem" => \A x \in Matrix : c.have[x] >= MemNeeds(t)[x]

(* Every transform that the request makes available and that has a         *)
(* function finds the matrices the function reads, whichever way the table *)
(* and the matrices were chosen.                                           *)
MatricesPresent ==
  \A p \in Ready : \A v \in Variant, t \in Promised(cfg[p].req) :
    Runs(cfg[p], v, t)

(* After timings, a matrix is kept only if a function in use reads it, and *)
(* kept beyond m=0 only if a function reads it there.                      *)
NoWaste ==
  \A p \in Ready :
    LET c == cfg[p]
    IN  c.req.vector /\ ~QuickInit(c.req) =>
          \A x \in Matrix : c.have[x] > 0 =>
            \E v \in Variant, t \in Type :
              /\ c.table[v][t] = "mem"
              /\ MemNeeds(t)[x] > 0
              /\ c.size.mmax > 0 => MemNeeds(t)[x] = c.have[x]

(* A configuration read from the file is one that was timed for the same   *)
(* sizes, threads and grid, and each of its functions is the one that was  *)
(* saved, except those of a GPU that is missing here.                      *)
LoadedAsSaved ==
  \A p \in Ready :
    LET c == cfg[p]
    IN  c.loaded =>
          \E i \in 1..Len(file) :
            /\ file[i].key.lmax = c.size.lmax /\ file[i].key.mmax = c.size.mmax
            /\ file[i].key.mres = c.size.mres
            /\ file[i].key.nthreads = c.nthreads
            /\ file[i].key.nlat = c.req.nlat /\ file[i].key.nphi = c.req.nphi
            /\ \A v \in Variant, t \in Type :
                 \/ c.table[v][t] = file[i].saved[v][t]
                 \/ ~c.gpu /\ \E j \in 1..4 : file[i].saved[v][t] = GpuAlgs[j]

(* All processes of a job that load and save their configuration, with the *)
(* barrier, use the same functions, if they all found a GPU or none did.   *)
SameConfig ==
  \A p, q \in Ready :
    /\ cfg[p].req.load_save
    /\ cfg[p].req = cfg[q].req
    /\ cfg[p].gpu = cfg[q].gpu
    => cfg[p].table = cfg[q].table

(* A transform loaded from the file by quick_init, which shares the        *)
(* records of gauss, can run.                                              *)
QuickLoadedRuns ==
  \A p \in Ready : QuickInit(cfg[p].req) /\ cfg[p].loaded =>
    \A v \in Variant, t \in Promised(cfg[p].req) : Runs(cfg[p], v, t)

(* Every transform that the request makes available has a function, those  *)
(* at a fixed m included.                                                  *)
AllCallable ==
  \A p \in Ready : \A v \in Variant, t \in Promised(cfg[p].req) :
    cfg[p].table[v][t] # NULL
=============================================================================
