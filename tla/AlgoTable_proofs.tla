-------------------------- MODULE AlgoTable_proofs --------------------------
(***************************************************************************)
(* Proofs about the choice of transform functions, for every set of        *)
(* processes, sizes, requests, timings and builds, every width of the      *)
(* vector registers and every limit on the memory.                         *)
(***************************************************************************)
EXTENDS AlgoTable, FiniteSetTheorems, TLAPS

-----------------------------------------------------------------------------
(* Induction over the natural numbers, for sets rather than predicates.     *)

(* A set with 0 and with the successor of each of its numbers has all. *)
LEMMA SetInduction ==
  ASSUME NEW P, 0 \in P, \A k \in Nat : k \in P => k + 1 \in P
  PROVE  Nat \subseteq P
<1> SUFFICES ASSUME NEW n \in Nat, n \notin P PROVE FALSE
  OBVIOUS
<1> DEFINE D == {k \in 0..n : k \notin P}
           f == [k \in D |-> k - 1]
<1>1. IsFiniteSet(0..n)
  BY FS_Interval
<1>2. IsFiniteSet(D)
  BY <1>1, FS_Subset
<1>3. IsFiniteSet(D \ {n}) /\ Cardinality(D \ {n}) = Cardinality(D) - 1 /\ Cardinality(D) \in Nat
  <2>1. n \in D
    OBVIOUS
  <2> QED BY <1>2, <2>1, FS_RemoveElement, FS_CardinalityType
<1>4. \A k \in D : k - 1 \in D \ {n}
  <2> TAKE k \in D
  <2>1. k \in Nat /\ k # 0
    OBVIOUS
  <2>2. k - 1 \in Nat /\ (k - 1) + 1 = k /\ k - 1 \in 0..n /\ k - 1 # n
    BY <2>1
  <2>3. k - 1 \notin P
    BY <2>2
  <2> QED BY <2>2, <2>3
<1>5. f \in Injection(D, D \ {n})
  BY <1>4 DEF Injection, IsInjective
<1>6. Cardinality(D) <= Cardinality(D \ {n})
  BY <1>2, <1>3, <1>5, FS_Injection DEF ExistsInjection
<1> QED BY <1>3, <1>6

(* A set of natural numbers which is not empty has a least element. *)
LEMMA LeastExists ==
  ASSUME NEW S \in SUBSET Nat, S # {}
  PROVE  \E m \in S : \A n \in S : m <= n
<1> SUFFICES ASSUME \A m \in S : \E n \in S : ~(m <= n) PROVE FALSE
  OBVIOUS
<1> DEFINE P == {k \in Nat : \A n \in S : n >= k}
<1>1. 0 \in P
  OBVIOUS
<1>2. \A k \in Nat : k \in P => k + 1 \in P
  <2> SUFFICES ASSUME NEW k \in Nat, k \in P, NEW n \in S, ~(n >= k + 1) PROVE FALSE
    OBVIOUS
  <2>1. n = k
    OBVIOUS
  <2>2. PICK m \in S : ~(n <= m)
    OBVIOUS
  <2> QED BY <2>1, <2>2
<1> HIDE DEF P
<1>3. Nat \subseteq P
  BY <1>1, <1>2, SetInduction
<1>4. PICK n \in S : TRUE
  OBVIOUS
<1>5. n + 1 \in P
  BY <1>3, <1>4
<1> QED BY <1>4, <1>5 DEF P

-----------------------------------------------------------------------------
(* The inductive invariant.                                                *)

Begun(c) == c.phase \in {"timing", "ready"}
Otf(c) == on_the_fly(c.req, c.size, c.nthreads)
Default(r, otf, nthreads) ==
  IF otf THEN set_sht_fly(r, nthreads) ELSE set_sht_mem(r)
DefaultOf(c) == Default(c.req, Otf(c), c.nthreads)
KeyOf(c) == Key(c.size, c.nthreads, c.req)

(* Loaded by sht_quick_init from a record of sht_gauss.  *)
QuickLoaded(c) == c.req.kind = "quick_init" /\ c.loaded

(* A meridian so short that no function is set for a fixed m. *)
NoFly(v, r) == v = "m" /\ AlgLim(r.nlat) < 2

(* Each function of the table is the one of an algorithm that the grid r   *)
(* has, which reads the matrices only if mem.                              *)
TableOK(table, r, gpu, mem) ==
  \A v \in Variant, t \in Type :
    \/ table[v][t] = NULL /\ NoFly(v, r)
    \/ \E a \in Alg : /\ Has(v, a, t, r, gpu)
                      /\ table[v][t] = Fun(v, a)
                      /\ a = "mem" => mem

Table == [Variant -> [Type -> Alg \cup {NULL}]]
ConfigKey ==
  [lmax : Nat, mmax : Nat, mres : Nat \ {0}, nthreads : Nat \ {0},
   nphi : Nat \ {0}, nlat : Nat \ {0}, vector : BOOLEAN, load_save : BOOLEAN, allow_gpu : BOOLEAN, kind : Kinds]
Entry ==
  [key : ConfigKey, name : [Variant -> [Type -> Alg \cup {"none"}]], saved : Table]

(* A record of the file stands for a table that was timed for its key. *)
EntryOK(rec) ==
  \E r \in Requests, s \in Sizes, gpu \in BOOLEAN :
    /\ ~QuickInit(r)
    /\ rec.key = Key(s, rec.key.nthreads, r)
    /\ TableOK(rec.saved, r, gpu, ~on_the_fly(r, s, rec.key.nthreads))
    /\ \A v \in Variant, t \in Type :
         rec.name[v][t] = NameOf(v, t, rec.saved[v][t], r, gpu)

TypeInv ==
  /\ cuda \in Builds
  /\ omp_threads \in Nat \ {0}
  /\ cfg \in [Rank -> Config \cup {NoConfig}]
  /\ file \in Seq(Entry)

(* What the table and the matrices of a grid are, whichever way they were  *)
(* chosen.                                                                 *)
ConfigInv(c) ==
  /\ c.req \in Requests
  /\ c.nthreads = SetThreads(c.nthreads, c.size, c.req)
  /\ Otf(c) => c.req.nlat >= 4 * VSIZE2
  /\ TableOK(c.table, c.req, c.gpu, ~Otf(c) \/ QuickLoaded(c))
  /\ c.phase = "timing" => ~QuickInit(c.req) /\ ~c.loaded
  /\ c.loaded => c.req.load_save
  /\ c.have = IF c.phase = "timing" \/ QuickInit(c.req) \/ Otf(c)
              THEN Matrices(c.req, Otf(c))
              ELSE free_unused_matrices(c.table, Matrices(c.req, Otf(c)), c.size.mmax)

TableInv ==
  /\ \A p \in Rank : cfg[p].phase # "none" => cfg[p].nthreads \in 1..(cfg[p].size.mmax + 1)
  /\ \A p \in Rank : Begun(cfg[p]) => ConfigInv(cfg[p])
  /\ \A i \in 1..Len(file) : EntryOK(file[i])

-----------------------------------------------------------------------------
(* The algorithms.                                                         *)

(* sht_name, written out: eighteen names, and no other algorithm. *)
LEMMA AlgElements ==
  /\ Len(sht_name) = 18
  /\ \A i \in 1..18 : sht_name[i] \in Alg
  /\ Alg = {"mem", "s+v", "fly1", "fly2", "fly3", "fly4", "fly6", "fly8", "gpu1", "gpu2",
            "gpu3", "gpu4", "omp1", "omp2", "omp3", "omp4", "omp6", "omp8"}
<1>1. Len(sht_name) = 18
  BY DEF sht_name
<1>2. \A i \in 1..18 :
        sht_name[i] \in {"mem", "s+v", "fly1", "fly2", "fly3", "fly4", "fly6", "fly8", "gpu1",
          "gpu2", "gpu3", "gpu4", "omp1", "omp2", "omp3", "omp4", "omp6", "omp8"}
  BY DEF sht_name
<1>3. /\ sht_name[1] = "mem" /\ sht_name[2] = "s+v" /\ sht_name[3] = "fly1"
      /\ sht_name[4] = "fly2" /\ sht_name[5] = "fly3" /\ sht_name[6] = "fly4"
      /\ sht_name[7] = "fly6" /\ sht_name[8] = "fly8" /\ sht_name[9] = "gpu1"
      /\ sht_name[10] = "gpu2" /\ sht_name[11] = "gpu3" /\ sht_name[12] = "gpu4"
      /\ sht_name[13] = "omp1" /\ sht_name[14] = "omp2" /\ sht_name[15] = "omp3"
      /\ sht_name[16] = "omp4" /\ sht_name[17] = "omp6" /\ sht_name[18] = "omp8"
  BY DEF sht_name
<1> QED BY <1>1, <1>2, <1>3 DEF Alg

(* The rows of on-the-fly, OpenMP and GPU functions name algorithms,       *)
(* none of which uses matrices, and those of the GPU are no others.        *)
LEMMA FlyElements ==
  /\ \A j \in 1..6 : FlyAlgs[j] \in Alg \ {"mem", "s+v"} /\ OmpAlgs[j] \in Alg \ {"mem", "s+v"}
  /\ \A j \in 1..4 : GpuAlgs[j] \in Alg \ {"mem", "s+v"}
  /\ \A j \in 1..4, i \in 1..6 : GpuAlgs[j] # OmpAlgs[i]
  /\ FlyAlgs[2] = "fly2" /\ OmpAlgs[2] = "omp2"
BY AlgElements DEF FlyAlgs, OmpAlgs, GpuAlgs

(* Six rows of on-the-fly functions, of which the second is there whenever *)
(* the grid is allowed to be computed on the fly.                          *)
LEMMA AlgLimRange ==
  ASSUME NEW n \in Nat
  PROVE  AlgLim(n) \in 0..6 /\ (n >= 4 * VSIZE2 => AlgLim(n) >= 2)
<1>1. CASE VSIZE2 = 1
  BY <1>1 DEF AlgLim
<1>2. CASE VSIZE2 = 2
  BY <1>2 DEF AlgLim
<1>3. CASE VSIZE2 = 4
  BY <1>3 DEF AlgLim
<1>4. CASE VSIZE2 = 8
  BY <1>4 DEF AlgLim
<1> QED BY <1>1, <1>2, <1>3, <1>4, AlgoAssumption

(* What set_grid is called with. *)
LEMMA RequestType ==
  ASSUME NEW r \in Requests
  PROVE  /\ r.kind \in Kinds /\ r.vector \in BOOLEAN /\ r.load_save \in BOOLEAN
         /\ r.gpu \in BOOLEAN /\ r.nlat \in Nat \ {0} /\ r.nphi \in Nat \ {0}
BY AlgoAssumption DEF Request

(* What Has tells of an algorithm does not depend on the GPU, except for   *)
(* those of the GPU.                                                       *)
LEMMA HasAlg ==
  ASSUME NEW v, NEW a, NEW t, NEW r \in Requests, NEW gpu \in BOOLEAN, Has(v, a, t, r, gpu)
  PROVE  /\ a \in Alg
         /\ a = "mem" => v # "m"
         /\ \/ Has(v, a, t, r, FALSE)
            \/ gpu /\ v # "m" /\ \E j \in 1..4 : a = GpuAlgs[j]
<1>1. AlgLim(r.nlat) \in 0..6
  BY RequestType, AlgLimRange
<1>2. "mem" \in Alg /\ "s+v" \in Alg
  BY AlgElements
<1> QED BY <1>1, <1>2, FlyElements DEF Has

(* Without a GPU there is nothing which is not there with one. *)
LEMMA HasMore ==
  ASSUME NEW v, NEW a, NEW t, NEW r, NEW gpu \in BOOLEAN, Has(v, a, t, r, FALSE)
  PROVE  Has(v, a, t, r, gpu)
BY DEF Has

(* What Has depends on. *)
LEMMA HasSame ==
  ASSUME NEW v, NEW a, NEW t, NEW r, NEW q, NEW gpu, r.nlat = q.nlat, r.nphi = q.nphi
  PROVE  Has(v, a, t, r, gpu) <=> Has(v, a, t, q, gpu)
BY DEF Has

(* The function behind an algorithm is one of an algorithm, with or        *)
(* without matrices like it; only for a fixed m is it another one.         *)
LEMMA FunAlg ==
  ASSUME NEW v, NEW a \in Alg
  PROVE  /\ Fun(v, a) \in Alg
         /\ Fun(v, a) = "mem" <=> a = "mem"
         /\ v # "m" => Fun(v, a) = a
<1>1. CASE v = "m" /\ \E j \in 1..6 : a = OmpAlgs[j]
  <2> DEFINE k == CHOOSE j \in 1..6 : a = OmpAlgs[j]
  <2>1. k \in 1..6 /\ a = OmpAlgs[k]
    BY <1>1
  <2>2. Fun(v, a) = FlyAlgs[k]
    BY <1>1 DEF Fun
  <2> QED BY <1>1, <2>1, <2>2, FlyElements
<1>2. CASE ~(v = "m" /\ \E j \in 1..6 : a = OmpAlgs[j])
  BY <1>2 DEF Fun
<1> QED BY <1>1, <1>2
-----------------------------------------------------------------------------
(* The tables.                                                             *)

(* The function of an algorithm, wherever it is entered in a table. *)
LEMMA Entered ==
  ASSUME NEW v \in Variant, NEW t \in Type, NEW a, NEW r \in Requests, NEW gpu \in BOOLEAN,
         Has(v, a, t, r, gpu)
  PROVE  /\ a \in Alg
         /\ sht_func(v, a, t, r, gpu) = Fun(v, a)
         /\ sht_func(v, a, t, r, gpu) \in Alg
         /\ sht_func(v, a, t, r, gpu) # NULL
<1>1. a \in Alg
  BY HasAlg
<1>2. sht_func(v, a, t, r, gpu) = Fun(v, a)
  BY DEF sht_func
<1> QED BY <1>1, <1>2, FunAlg, AlgoAssumption

(* The default tables never name an algorithm of the GPU. *)
LEMMA EnteredByDefault ==
  ASSUME NEW v \in Variant, NEW t \in Type, NEW a, NEW r \in Requests, NEW gpu \in BOOLEAN,
         Has(v, a, t, r, FALSE)
  PROVE  /\ a \in Alg /\ Has(v, a, t, r, gpu)
         /\ sht_func(v, a, t, r, FALSE) = Fun(v, a)
         /\ Fun(v, a) \in Alg
<1>1. Has(v, a, t, r, gpu)
  BY HasMore
<1>2. a \in Alg
  BY <1>1, HasAlg
<1>3. sht_func(v, a, t, r, FALSE) = Fun(v, a)
  BY DEF sht_func
<1> QED BY <1>1, <1>2, <1>3, FunAlg

(* Both default tables are complete, but for a fixed m on a meridian that  *)
(* is too short.                                                           *)
LEMMA DefaultTable ==
  ASSUME NEW r \in Requests, NEW otf \in BOOLEAN, NEW n \in Nat, NEW gpu \in BOOLEAN,
         otf => r.nlat >= 4 * VSIZE2
  PROVE  /\ Default(r, otf, n) \in Table
         /\ TableOK(Default(r, otf, n), r, gpu, ~otf)
         /\ \A v \in Variant, t \in Type : NoFly(v, r) => Default(r, otf, n)[v][t] = NULL
<1> DEFINE D == Default(r, otf, n)
<1>1. AlgLim(r.nlat) \in 0..6 /\ (otf => AlgLim(r.nlat) >= 2)
  BY RequestType, AlgLimRange
<1>2. FlyTypes[2] = Type
  BY DEF FlyTypes
<1>3. ASSUME NEW v \in Variant, NEW t \in Type, AlgLim(r.nlat) >= 2
      PROVE  Has(v, "fly2", t, r, FALSE)
  <2>1. 2 \in 1..AlgLim(r.nlat) /\ t \in FlyTypes[2] /\ "fly2" = FlyAlgs[2]
    BY <1>1, <1>2, <1>3, FlyElements
  <2> QED BY <2>1 DEF Has
<1>4. ASSUME NEW v \in Variant, NEW t \in Type, AlgLim(r.nlat) >= 2,
             Has("std", "omp2", "syn", r, FALSE)
      PROVE  Has(v, "omp2", t, r, FALSE)
  <2>1. r.nphi > 1
    BY <1>4, <1>1 DEF Has, FlyAlgs
  <2>2. 2 \in 1..AlgLim(r.nlat) /\ t \in FlyTypes[2] /\ "omp2" = OmpAlgs[2]
    BY <1>1, <1>2, <1>4, FlyElements
  <2> QED BY <2>1, <2>2 DEF Has
<1>5. CASE otf
  <2>1. PICK a \in {"fly2", "omp2"} :
          /\ a = "omp2" => Has("std", "omp2", "syn", r, FALSE)
          /\ D = [v \in Variant |-> [t \in Type |-> sht_func(v, a, t, r, FALSE)]]
    BY <1>5 DEF Default, set_sht_fly
  <2> HIDE DEF D
  <2>2. \A v \in Variant, t \in Type : Has(v, a, t, r, FALSE)
    BY <1>1, <1>3, <1>4, <1>5, <2>1
  <2>3. ASSUME NEW v \in Variant, NEW t \in Type
        PROVE  D[v][t] = Fun(v, a) /\ D[v][t] \in Alg /\ Has(v, a, t, r, gpu)
    <3>1. Has(v, a, t, r, FALSE) /\ D[v][t] = sht_func(v, a, t, r, FALSE)
      BY <2>1, <2>2
    <3>2. /\ Has(v, a, t, r, gpu)
          /\ sht_func(v, a, t, r, FALSE) = Fun(v, a) /\ Fun(v, a) \in Alg
      BY <3>1, EnteredByDefault
    <3> QED BY <3>1, <3>2
  <2>4. D \in Table
    BY <2>1, <2>3 DEF Table
  <2>5. TableOK(D, r, gpu, ~otf)
    <3>1. a \in Alg /\ a # "mem"
      BY AlgElements
    <3> QED BY <2>3, <3>1 DEF TableOK
  <2>6. \A v \in Variant : ~NoFly(v, r)
    BY <1>1, <1>5 DEF NoFly
  <2> QED BY <2>4, <2>5, <2>6 DEF D
<1>6. CASE ~otf
  <2>1. D = [v \in Variant |-> [t \in Type |->
                sht_func(v, IF v = "m" THEN "fly2" ELSE "mem", t, r, FALSE)]]
    BY <1>6 DEF Default, set_sht_mem
  <2> HIDE DEF D
  <2>2. ASSUME NEW v \in Variant, NEW t \in Type, v # "m"
        PROVE  D[v][t] = Fun(v, "mem") /\ D[v][t] \in Alg /\ Has(v, "mem", t, r, gpu)
    <3>1. Has(v, "mem", t, r, FALSE)
      BY <2>2 DEF Has
    <3>2. D[v][t] = sht_func(v, "mem", t, r, FALSE)
      BY <2>1, <2>2
    <3>3. /\ Has(v, "mem", t, r, gpu)
          /\ sht_func(v, "mem", t, r, FALSE) = Fun(v, "mem") /\ Fun(v, "mem") \in Alg
      BY <3>1, EnteredByDefault
    <3> QED BY <3>2, <3>3
  <2>3. ASSUME NEW v \in Variant, NEW t \in Type, v = "m", AlgLim(r.nlat) >= 2
        PROVE  D[v][t] = Fun(v, "fly2") /\ D[v][t] \in Alg /\ Has(v, "fly2", t, r, gpu)
    <3>1. Has(v, "fly2", t, r, FALSE)
      BY <2>3, <1>3
    <3>2. D[v][t] = sht_func(v, "fly2", t, r, FALSE)
      BY <2>1, <2>3
    <3>3. /\ Has(v, "fly2", t, r, gpu)
          /\ sht_func(v, "fly2", t, r, FALSE) = Fun(v, "fly2") /\ Fun(v, "fly2") \in Alg
      BY <3>1, EnteredByDefault
    <3> QED BY <3>2, <3>3
  <2>4. ASSUME NEW v \in Variant, NEW t \in Type, v = "m", ~(AlgLim(r.nlat) >= 2)
        PROVE  D[v][t] = NULL
    <3>1. D[v][t] = sht_func(v, "fly2", t, r, FALSE)
      BY <2>1, <2>4
    <3>2. ~Has(v, "fly2", t, r, FALSE)
      <4>1. \A j \in 1..AlgLim(r.nlat) : j = 1
        BY <1>1, <2>4
      <4>2. "fly2" # FlyAlgs[1] /\ "fly2" # OmpAlgs[1]
        BY DEF FlyAlgs, OmpAlgs
      <4> QED BY <4>1, <4>2 DEF Has
    <3> QED BY <3>1, <3>2 DEF sht_func
  <2>5. \A v \in Variant, t \in Type : D[v][t] \in Alg \cup {NULL}
    BY <2>2, <2>3, <2>4
  <2>6. D \in Table
    BY <2>1, <2>5 DEF Table
  <2>7. TableOK(D, r, gpu, ~otf)
    <3> SUFFICES ASSUME NEW v \in Variant, NEW t \in Type
                 PROVE  \/ D[v][t] = NULL /\ NoFly(v, r)
                        \/ \E a \in Alg : /\ Has(v, a, t, r, gpu)
                                          /\ D[v][t] = Fun(v, a)
                                          /\ a = "mem" => ~otf
      BY DEF TableOK
    <3>1. "mem" \in Alg /\ "fly2" \in Alg
      BY AlgElements
    <3>2. CASE v # "m"
      BY <1>6, <2>2, <3>1, <3>2
    <3>3. CASE v = "m" /\ AlgLim(r.nlat) >= 2
      BY <1>6, <2>3, <3>1, <3>3
    <3>4. CASE v = "m" /\ ~(AlgLim(r.nlat) >= 2)
      BY <1>1, <2>4, <3>4 DEF NoFly
    <3> QED BY <3>2, <3>3, <3>4
  <2>8. \A v \in Variant, t \in Type : NoFly(v, r) => D[v][t] = NULL
    BY <1>1, <2>4 DEF NoFly
  <2> QED BY <2>6, <2>7, <2>8 DEF D
<1> QED BY <1>5, <1>6

(* The name of a function is that of an algorithm that stands for it. *)
LEMMA NameStands ==
  ASSUME NEW v \in Variant, NEW t \in Type, NEW r \in Requests, NEW gpu \in BOOLEAN,
         NEW a \in Alg, Has(v, a, t, r, gpu), NEW f, f = Fun(v, a)
  PROVE  LET n == NameOf(v, t, f, r, gpu)
         IN  n \in Alg /\ Has(v, n, t, r, gpu) /\ Fun(v, n) = f
<1> DEFINE same == {i \in 1..Len(sht_name) : sht_func(v, sht_name[i], t, r, gpu) = f}
           k == CHOOSE i \in same : \A j \in same : i <= j
<1>1. f # NULL /\ f = sht_func(v, a, t, r, gpu)
  BY Entered
<1>2. PICK i \in 1..18 : a = sht_name[i]
  BY AlgElements DEF Alg
<1>3. same \in SUBSET Nat /\ same # {}
  BY <1>1, <1>2, AlgElements
<1>4. k \in same
  BY <1>3, LeastExists
<1>5. NameOf(v, t, f, r, gpu) = sht_name[k]
  BY <1>1 DEF NameOf
<1>6. k \in 1..18 /\ sht_func(v, sht_name[k], t, r, gpu) = f
  BY <1>4, AlgElements
<1> HIDE DEF k, same
<1>7. Has(v, sht_name[k], t, r, gpu) /\ Fun(v, sht_name[k]) = f
  BY <1>1, <1>6 DEF sht_func
<1> QED BY <1>5, <1>6, <1>7, AlgElements

(* config_save writes none for a null function, which config_load can      *)
(* tell from the names.                                                    *)
LEMMA NoneIsNoName == "none" \notin Alg
BY AlgElements

(* The table that config_save writes. *)
LEMMA NamesType ==
  ASSUME NEW r \in Requests, NEW gpu \in BOOLEAN, NEW mem \in BOOLEAN,
         NEW table \in Table, TableOK(table, r, gpu, mem)
  PROVE  [v \in Variant |-> [t \in Type |-> NameOf(v, t, table[v][t], r, gpu)]]
           \in [Variant -> [Type -> Alg \cup {"none"}]]
<1>1. ASSUME NEW v \in Variant, NEW t \in Type
      PROVE  NameOf(v, t, table[v][t], r, gpu) \in Alg \cup {"none"}
  <2>1. CASE table[v][t] = NULL
    BY <2>1 DEF NameOf
  <2>2. CASE table[v][t] # NULL
    <3>1. PICK a \in Alg : Has(v, a, t, r, gpu) /\ table[v][t] = Fun(v, a)
      BY <2>2 DEF TableOK
    <3> QED BY <3>1, NameStands
  <2> QED BY <2>1, <2>2
<1> QED BY <1>1

-----------------------------------------------------------------------------
(* The choices.                                                            *)

(* Requests with the same key are the same grid, computed in the same way, *)
(* except that quick_init finds the records of gauss.                      *)
LEMMA SameKey ==
  ASSUME NEW r \in Requests, NEW q \in Requests, NEW s \in Sizes, NEW z \in Sizes,
         NEW n, NEW k, Key(s, n, r) = Key(z, k, q)
  PROVE  /\ n = k /\ r.nlat = q.nlat /\ r.nphi = q.nphi /\ r.vector = q.vector
         /\ s.lmax = z.lmax /\ s.mmax = z.mmax /\ s.mres = z.mres
         /\ ~QuickInit(q) => r.kind = q.kind \/ r.kind = "quick_init"
         /\ r.kind = q.kind => (on_the_fly(r, s, n) <=> on_the_fly(q, z, k))
<1>1. /\ Key(s, n, r).lmax = Key(z, k, q).lmax /\ Key(s, n, r).mmax = Key(z, k, q).mmax
      /\ Key(s, n, r).mres = Key(z, k, q).mres /\ Key(s, n, r).nthreads = Key(z, k, q).nthreads
      /\ Key(s, n, r).nphi = Key(z, k, q).nphi /\ Key(s, n, r).nlat = Key(z, k, q).nlat
      /\ Key(s, n, r).vector = Key(z, k, q).vector /\ Key(s, n, r).kind = Key(z, k, q).kind
  OBVIOUS
<1>2. /\ n = k /\ r.nlat = q.nlat /\ r.nphi = q.nphi /\ r.vector = q.vector
      /\ s.lmax = z.lmax /\ s.mmax = z.mmax /\ s.mres = z.mres
  BY <1>1 DEF Key
<1>3. ~QuickInit(q) => r.kind = q.kind \/ r.kind = "quick_init"
  BY <1>1 DEF Key, QuickInit
<1>4. ASSUME r.kind = q.kind
      PROVE  on_the_fly(r, s, n) <=> on_the_fly(q, z, k)
  <2>1. sht_mem_size(s, r.nlat) = sht_mem_size(z, q.nlat)
    BY <1>2 DEF sht_mem_size, nlm_calc
  <2>2. Huge(r, s) <=> Huge(q, z)
    BY <1>2, <2>1 DEF Huge
  <2>3. QuickInit(r) <=> QuickInit(q)
    BY <1>4 DEF QuickInit
  <2> QED BY <1>2, <1>4, <2>2, <2>3 DEF on_the_fly
<1> QED BY <1>2, <1>3, <1>4

(* A record comes back as the table that was saved, where this grid has    *)
(* the function: only those of a GPU may be missing.                       *)
ComesBack(L, saved, D, r, gpu) ==
  \A v \in Variant, t \in Type :
    \/ L[v][t] = saved[v][t]
    \/ saved[v][t] = NULL /\ NoFly(v, r) /\ L[v][t] = D[v][t]
    \/ ~gpu /\ \E j \in 1..4 : saved[v][t] = GpuAlgs[j]

(* What config_load makes of a table: it fits the grid of the caller       *)
(* like the one it was saved from, and is as Read says.                    *)
LEMMA LoadedTable ==
  ASSUME NEW r \in Requests, NEW q \in Requests, NEW gpu \in BOOLEAN, NEW gpu0 \in BOOLEAN,
         NEW mem \in BOOLEAN, NEW mem0 \in BOOLEAN, mem0 => mem,
         r.nlat = q.nlat, r.nphi = q.nphi,
         NEW D \in Table, TableOK(D, r, gpu, mem),
         NEW rec, rec.saved \in Table, TableOK(rec.saved, q, gpu0, mem0),
         \A v \in Variant, t \in Type :
           rec.name[v][t] = NameOf(v, t, rec.saved[v][t], q, gpu0)
  PROVE  /\ Loaded(rec, D, r, gpu) \in Table
         /\ TableOK(Loaded(rec, D, r, gpu), r, gpu, mem)
         /\ ComesBack(Loaded(rec, D, r, gpu), rec.saved, D, r, gpu)
<1> DEFINE L == Loaded(rec, D, r, gpu)
<1>1. ASSUME NEW v \in Variant, NEW t \in Type
      PROVE  /\ L[v][t] \in Alg \cup {NULL}
             /\ \/ L[v][t] = NULL /\ NoFly(v, r)
                \/ \E a \in Alg : /\ Has(v, a, t, r, gpu)
                                  /\ L[v][t] = Fun(v, a)
                                  /\ a = "mem" => mem
             /\ \/ L[v][t] = rec.saved[v][t]
                \/ /\ rec.saved[v][t] = NULL /\ NoFly(v, r)
                   /\ L[v][t] = D[v][t]
                \/ ~gpu /\ \E j \in 1..4 : rec.saved[v][t] = GpuAlgs[j]
  <2> DEFINE n == rec.name[v][t]
             f == rec.saved[v][t]
  <2>1. L[v][t] = IF n \in Alg /\ Has(v, n, t, r, gpu)
                  THEN sht_func(v, n, t, r, gpu) ELSE D[v][t]
    BY DEF Loaded
  <2>2. n = NameOf(v, t, f, q, gpu0)
    OBVIOUS
  <2>3. /\ D[v][t] \in Alg \cup {NULL}
        /\ \/ D[v][t] = NULL /\ NoFly(v, r)
           \/ \E a \in Alg : /\ Has(v, a, t, r, gpu)
                             /\ D[v][t] = Fun(v, a)
                             /\ a = "mem" => mem
    BY DEF Table, TableOK
  <2>4. \/ f = NULL /\ NoFly(v, q)
        \/ \E a \in Alg : /\ Has(v, a, t, q, gpu0)
                          /\ f = Fun(v, a)
                          /\ a = "mem" => mem0
    BY DEF TableOK
  <2> HIDE DEF L, n, f
  <2>5. CASE f = NULL /\ NoFly(v, q)
    <3>1. n \notin Alg
      BY <2>2, <2>5, NoneIsNoName DEF NameOf
    <3>2. NoFly(v, r)
      BY <2>5 DEF NoFly
    <3> QED BY <2>1, <2>3, <2>5, <3>1, <3>2 DEF f
  <2>6. CASE \E a \in Alg : /\ Has(v, a, t, q, gpu0)
                            /\ f = Fun(v, a)
                            /\ a = "mem" => mem0
    <3>1. PICK a \in Alg : Has(v, a, t, q, gpu0) /\ f = Fun(v, a) /\ (a = "mem" => mem0)
      BY <2>6
    <3>2. n \in Alg /\ Has(v, n, t, q, gpu0) /\ Fun(v, n) = f
      BY <2>2, <3>1, NameStands
    <3>3. n = "mem" => mem
      <4>1. (Fun(v, n) = "mem" <=> n = "mem") /\ (Fun(v, a) = "mem" <=> a = "mem")
        BY <3>1, <3>2, FunAlg
      <4> QED BY <3>1, <3>2, <4>1
    <3>4. CASE Has(v, n, t, r, gpu)
      <4>1. /\ sht_func(v, n, t, r, gpu) = Fun(v, n)
            /\ sht_func(v, n, t, r, gpu) \in Alg
        BY <3>4, Entered
      <4>2. L[v][t] = sht_func(v, n, t, r, gpu)
        BY <2>1, <3>2, <3>4
      <4> QED BY <3>2, <3>3, <3>4, <4>1, <4>2 DEF f
    <3>5. CASE ~Has(v, n, t, r, gpu)
      <4>1. L[v][t] = D[v][t]
        BY <2>1, <3>5
      <4>2. ~Has(v, n, t, q, FALSE)
        <5> SUFFICES ASSUME Has(v, n, t, q, FALSE) PROVE FALSE
          OBVIOUS
        <5>1. Has(v, n, t, q, gpu)
          BY HasMore
        <5> QED BY <3>5, <5>1, HasSame
      <4>3. gpu0 /\ v # "m" /\ \E j \in 1..4 : n = GpuAlgs[j]
        BY <3>2, <4>2, HasAlg
      <4>4. ~gpu
        <5>1. Has(v, n, t, r, gpu0)
          BY <3>2, HasSame
        <5> QED BY <3>5, <4>3, <5>1
      <4>5. f = n
        BY <3>2, <4>3, FunAlg
      <4> QED BY <2>3, <4>1, <4>3, <4>4, <4>5 DEF f
    <3> QED BY <3>4, <3>5
  <2> QED BY <2>4, <2>5, <2>6
<1>2. L \in Table
  BY <1>1 DEF Table, Loaded
<1>3. TableOK(L, r, gpu, mem)
  BY <1>1 DEF TableOK
<1>4. ComesBack(L, rec.saved, D, r, gpu)
  BY <1>1 DEF ComesBack
<1> QED BY <1>2, <1>3, <1>4

(* The fastest of several algorithms is one of them. *)
LEMMA FastestIn ==
  ASSUME NEW C \in SUBSET Alg, C # {}, NEW time \in [Alg -> Nat]
  PROVE  Fastest(C, time) \in C
<1> DEFINE idx == {i \in 1..Len(sht_name) : sht_name[i] \in C}
           first(i) == \A j \in idx : \/ time[sht_name[i]] < time[sht_name[j]]
                                      \/ time[sht_name[i]] = time[sht_name[j]] /\ i <= j
           times == {time[sht_name[i]] : i \in idx}
<1>1. PICK a \in C : TRUE
  OBVIOUS
<1>2. PICK i \in 1..18 : a = sht_name[i]
  BY <1>1 DEF Alg, sht_name
<1>3. /\ \A j \in idx : j \in 1..18 /\ sht_name[j] \in C /\ time[sht_name[j]] \in Nat
      /\ idx # {}
  BY <1>1, <1>2, AlgElements
<1>4. times \in SUBSET Nat /\ times # {}
  BY <1>3
<1>5. PICK m \in times : \A x \in times : m <= x
  BY <1>4, LeastExists
<1> DEFINE best == {j \in idx : time[sht_name[j]] = m}
<1>6. best \in SUBSET Nat /\ best # {}
  BY <1>3, <1>5
<1>7. PICK k \in best : \A j \in best : k <= j
  BY <1>6, LeastExists
<1>8. first(k)
  <2> SUFFICES ASSUME NEW j \in idx
               PROVE  \/ time[sht_name[k]] < time[sht_name[j]]
                      \/ time[sht_name[k]] = time[sht_name[j]] /\ k <= j
    OBVIOUS
  <2>1. time[sht_name[k]] = m /\ m <= time[sht_name[j]] /\ m \in Nat
    BY <1>3, <1>5, <1>7
  <2>2. time[sht_name[j]] \in Nat
    BY <1>3
  <2>3. CASE time[sht_name[j]] = m
    BY <1>7, <2>1, <2>3
  <2>4. CASE time[sht_name[j]] # m
    BY <2>1, <2>2, <2>4
  <2> QED BY <2>3, <2>4
<1>9. k \in idx
  BY <1>7
<1> DEFINE w == CHOOSE j \in idx : first(j)
<1>10. Fastest(C, time) = sht_name[w]
  BY DEF Fastest
<1> HIDE DEF first
<1>11. w \in idx
  BY <1>8, <1>9
<1> HIDE DEF w
<1> QED BY <1>3, <1>10, <1>11

(* Timing replaces functions by others that the grid has. *)
LEMMA BestTable ==
  ASSUME NEW r \in Requests, NEW gpu \in BOOLEAN, NEW mem \in BOOLEAN, NEW n, NEW have,
         NEW time \in Speeds, have["ylm"] > 0 => mem,
         NEW table \in Table, TableOK(table, r, gpu, mem)
  PROVE  /\ choose_best_sht(table, r, n, have, gpu, time) \in Table
         /\ TableOK(choose_best_sht(table, r, n, have, gpu, time), r, gpu, mem)
<1> DEFINE B == choose_best_sht(table, r, n, have, gpu, time)
<1>1. ASSUME NEW v \in Variant, NEW t \in Type
      PROVE  /\ B[v][t] \in Alg \cup {NULL}
             /\ \/ B[v][t] = NULL /\ NoFly(v, r)
                \/ \E a \in Alg : /\ Has(v, a, t, r, gpu)
                                  /\ B[v][t] = Fun(v, a)
                                  /\ a = "mem" => mem
  <2> DEFINE C == Candidates(Timed(t), r, n, have, gpu)
             a == Fastest(C, time[Timed(t)])
             chosen == /\ r.nlat >= 4 * VSIZE2
                       /\ r.vector \/ t \in Scalar
                       /\ Cardinality(C) >= 2
                       /\ Has(v, a, t, r, gpu)
  <2>1. B[v][t] = IF chosen THEN sht_func(v, a, t, r, gpu) ELSE table[v][t]
    BY DEF choose_best_sht
  <2>2. /\ table[v][t] \in Alg \cup {NULL}
        /\ \/ table[v][t] = NULL /\ NoFly(v, r)
           \/ \E x \in Alg : /\ Has(v, x, t, r, gpu)
                             /\ table[v][t] = Fun(v, x)
                             /\ x = "mem" => mem
    BY DEF Table, TableOK
  <2>3. C \in SUBSET Alg /\ ("mem" \in C => mem)
    BY DEF Candidates
  <2>4. time[Timed(t)] \in [Alg -> Nat]
    <3>1. Timed(t) \in Type
      BY DEF Timed, Type
    <3>2. time \in [Type -> [Alg -> Nat]]
      BY AlgoAssumption
    <3> QED BY <3>1, <3>2
  <2>5. CASE chosen
    <3>1. C # {}
      BY <2>5, FS_EmptySet
    <3>2. a \in C
      BY <2>3, <2>4, <3>1, FastestIn
    <3> HIDE DEF a, C
    <3>3. Has(v, a, t, r, gpu) /\ B[v][t] = sht_func(v, a, t, r, gpu)
      BY <2>1, <2>5
    <3>4. /\ a \in Alg /\ sht_func(v, a, t, r, gpu) = Fun(v, a)
          /\ sht_func(v, a, t, r, gpu) \in Alg
      BY <3>3, Entered
    <3> QED BY <2>3, <3>2, <3>3, <3>4
  <2>6. CASE ~chosen
    BY <2>1, <2>2, <2>6
  <2> QED BY <2>5, <2>6
<1>2. B \in Table
  BY <1>1 DEF Table, choose_best_sht
<1>3. TableOK(B, r, gpu, mem)
  BY <1>1 DEF TableOK
<1> QED BY <1>2, <1>3

(* Amounts of matrices. *)
LEMMA MatricesType ==
  ASSUME NEW r, NEW otf
  PROVE  /\ Matrices(r, otf) \in [Matrix -> 0..2]
         /\ otf => \A x \in Matrix : Matrices(r, otf)[x] = 0
BY DEF Matrices

(* free_unused_matrices leaves each matrix allocated or not. *)
LEMMA FreeType ==
  ASSUME NEW table, NEW have \in [Matrix -> 0..2], NEW mmax \in Nat
  PROVE  free_unused_matrices(table, have, mmax) \in [Matrix -> 0..2]
BY DEF free_unused_matrices, Matrix, Smaller

-----------------------------------------------------------------------------
(* The steps.                                                              *)

(* The parts of a configuration which exists. *)
LEMMA ConfigType ==
  ASSUME TypeInv, NEW p \in Rank, cfg[p].phase # "none"
  PROVE  /\ cfg[p] \in Config
         /\ cfg[p].size \in Sizes /\ cfg[p].nthreads \in Nat \ {0} /\ cfg[p].table \in Table
         /\ cfg[p].have \in [Matrix -> 0..2] /\ cfg[p].gpu \in BOOLEAN
         /\ cfg[p].size.lmax \in Nat /\ cfg[p].size.mmax \in Nat /\ cfg[p].size.mres \in Nat \ {0}
<1>1. cfg[p] \in Config
  BY DEF TypeInv, NoConfig
<1>2. cfg[p].size \in Size
  BY <1>1, AlgoAssumption DEF Config
<1> QED BY <1>1, <1>2 DEF Config, Size, Table

(* A grid never raises the number of threads, and setting it again         *)
(* leaves them.                                                            *)
LEMMA ThreadsType ==
  ASSUME NEW n \in Nat \ {0}, NEW s \in Sizes, NEW r
  PROVE  /\ SetThreads(n, s, r) \in Nat \ {0}
         /\ SetThreads(n, s, r) <= n
         /\ SetThreads(SetThreads(n, s, r), s, r) = SetThreads(n, s, r)
BY DEF SetThreads

(* The decision to compute on the fly. *)
LEMMA OtfType ==
  ASSUME NEW r, NEW s, NEW n
  PROVE  on_the_fly(r, s, n) \in BOOLEAN
BY DEF on_the_fly

(* The record that config_load stops at. *)
LEMMA FoundRecord ==
  ASSUME TypeInv, NEW key, Matching(key) # {}
  PROVE  /\ Found(key) \in 1..Len(file) /\ file[Found(key)].key = key
         /\ file[Found(key)] \in Entry
<1>1. Matching(key) \in SUBSET Nat
  BY DEF TypeInv, Matching
<1>2. Found(key) \in Matching(key)
  BY <1>1, LeastExists DEF Found
<1> QED BY <1>2 DEF Matching, TypeInv

(* shtns_set_grid_auto up to the timings: d is the configuration then. *)
BeginOutcome(p, r, d) ==
  /\ cfg[p].phase \in {"created", "ready"}
  /\ cfg' = [cfg EXCEPT ![p] = d]
  /\ d.size = cfg[p].size /\ d.req = r /\ d.gpu \in BOOLEAN
  /\ d.nthreads = SetThreads(cfg[p].nthreads, cfg[p].size, r)
  /\ GridAllowed(r, d.size, d.nthreads)
  /\ d.loaded \in BOOLEAN
  /\ d.loaded <=> r.load_save /\ Matching(KeyOf(d)) # {}
  /\ d.phase = IF d.loaded \/ QuickInit(r) THEN "ready" ELSE "timing"
  /\ d.again \in BOOLEAN
  /\ d.again <=> cfg[p].phase = "ready"
  /\ d.table = IF d.loaded THEN Loaded(file[Found(KeyOf(d))], DefaultOf(d), r, d.gpu)
               ELSE DefaultOf(d)
  /\ d.have = IF d.loaded /\ ~QuickInit(r) /\ ~Otf(d)
              THEN free_unused_matrices(d.table, Matrices(r, Otf(d)), d.size.mmax)
              ELSE Matrices(r, Otf(d))
  /\ d.table \in Table /\ d.have \in [Matrix -> 0..2] => d \in Config

(* The beginning of set_grid, with its local variables gone. *)
LEMMA BeginStep ==
  ASSUME TypeInv, NEW p \in Rank, NEW r \in Requests, BeginSetGrid(p, r)
  PROVE  MayBegin(p, r) /\ \E d : BeginOutcome(p, r, d)
<1> DEFINE c == cfg[p]
           nthreads == SetThreads(c.nthreads, c.size, r)
           otf == on_the_fly(r, c.size, nthreads)
           have == Matrices(r, otf)
           default == Default(r, otf, nthreads)
           key == Key(c.size, nthreads, r)
           found == r.load_save /\ Matching(key) # {}
           table(gpu) == IF found THEN Loaded(file[Found(key)], default, r, gpu) ELSE default
           d(gpu, phase, f, again, t, h) ==
             [c EXCEPT !.phase = phase, !.nthreads = nthreads, !.req = r, !.gpu = gpu,
                       !.table = t, !.loaded = f, !.again = again, !.have = h]
<1>1. PICK gpu \in BOOLEAN :
        /\ MayBegin(p, r) /\ GridAllowed(r, c.size, nthreads)
        /\ cfg' = [cfg EXCEPT ![p] =
             d(gpu, IF found \/ QuickInit(r) THEN "ready" ELSE "timing",
               found, c.phase = "ready", table(gpu),
               IF found /\ ~QuickInit(r) /\ ~otf
               THEN free_unused_matrices(table(gpu), have, c.size.mmax) ELSE have)]
  BY DEF BeginSetGrid, Default
<1>2. c.phase \in {"created", "ready"}
  BY <1>1 DEF MayBegin
<1>3. c \in Config /\ nthreads \in Nat \ {0}
  <2>1. c \in Config /\ c.size \in Sizes /\ c.nthreads \in Nat \ {0}
    BY <1>2, ConfigType
  <2> QED BY <2>1, ThreadsType
<1>4. PICK f \in BOOLEAN : f = found
  OBVIOUS
<1>5. PICK again \in BOOLEAN : again = (c.phase = "ready")
  OBVIOUS
<1>6. PICK phase : phase = IF f \/ QuickInit(r) THEN "ready" ELSE "timing"
  OBVIOUS
<1>7. PICK t : t = table(gpu)
  OBVIOUS
<1>8. PICK h : h = IF f /\ ~QuickInit(r) /\ ~otf
                   THEN free_unused_matrices(t, have, c.size.mmax) ELSE have
  OBVIOUS
<1> DEFINE e == d(gpu, phase, f, again, t, h)
<1>9. f <=> r.load_save /\ Matching(key) # {}
  BY <1>4
<1>10. t = IF f THEN Loaded(file[Found(key)], default, r, gpu) ELSE default
  BY <1>4, <1>7
<1>11. cfg' = [cfg EXCEPT ![p] = e]
  BY <1>1, <1>4, <1>5, <1>6, <1>7, <1>8
<1>12. nthreads = SetThreads(cfg[p].nthreads, cfg[p].size, r)
  OBVIOUS
<1> HIDE DEF nthreads, found, table
<1>13. /\ e.size = c.size /\ e.req = r /\ e.gpu = gpu
       /\ e.nthreads = nthreads /\ e.loaded = f
       /\ e.phase = phase /\ e.again = again /\ e.table = t /\ e.have = h
  BY <1>3 DEF Config
<1>14. e.table \in Table /\ e.have \in [Matrix -> 0..2] => e \in Config
  <2> SUFFICES ASSUME t \in Table, h \in [Matrix -> 0..2] PROVE e \in Config
    BY <1>13
  <2>1. phase \in {"created", "timing", "ready"}
    BY <1>6
  <2> QED BY <1>3, <2>1 DEF Config, Table
<1> HIDE DEF d
<1>15. Otf(e) = otf /\ KeyOf(e) = key /\ DefaultOf(e) = default
  BY <1>13 DEF Otf, KeyOf, DefaultOf
<1> HIDE DEF otf, key, default
<1>16. BeginOutcome(p, r, e)
  <2> HIDE DEF e
  <2> QED
    BY <1>1, <1>2, <1>5, <1>6, <1>8, <1>9, <1>10, <1>11, <1>12, <1>13, <1>14, <1>15
    DEF BeginOutcome
<1> QED BY <1>1, <1>16

(* Its end, after the timings. *)
EndOutcome(p, time, d) ==
  /\ cfg[p].phase = "timing" /\ d.phase = "ready"
  /\ cfg' = [cfg EXCEPT ![p] = d]
  /\ d.size = cfg[p].size /\ d.nthreads = cfg[p].nthreads /\ d.req = cfg[p].req
  /\ d.gpu = cfg[p].gpu /\ d.loaded = cfg[p].loaded /\ d.again = cfg[p].again
  /\ d.table = choose_best_sht(cfg[p].table, d.req, d.nthreads, cfg[p].have, d.gpu, time)
  /\ d.have = IF Otf(d) THEN cfg[p].have
              ELSE free_unused_matrices(d.table, cfg[p].have, d.size.mmax)
  /\ file' = IF d.req.load_save THEN Append(file, Record(d, d.table)) ELSE file
  /\ d.table \in Table /\ d.have \in [Matrix -> 0..2] => d \in Config

(* The end of set_grid after the times have been measured, likewise. *)
LEMMA EndStep ==
  ASSUME TypeInv, NEW p \in Rank, NEW time \in Speeds, EndSetGrid(p, time)
  PROVE  \E d : EndOutcome(p, time, d)
<1> DEFINE c == cfg[p]
           table == choose_best_sht(c.table, c.req, c.nthreads, c.have, c.gpu, time)
           have == IF on_the_fly(c.req, c.size, c.nthreads) THEN c.have
                   ELSE free_unused_matrices(table, c.have, c.size.mmax)
           d == [c EXCEPT !.phase = "ready", !.table = table, !.have = have]
<1>1. /\ c.phase = "timing"
      /\ cfg' = [cfg EXCEPT ![p] = d]
      /\ file' = IF c.req.load_save THEN Append(file, Record(c, table)) ELSE file
  BY DEF EndSetGrid
<1>2. c \in Config
  BY <1>1, ConfigType
<1>3. /\ table = choose_best_sht(c.table, c.req, c.nthreads, c.have, c.gpu, time)
      /\ have = IF on_the_fly(c.req, c.size, c.nthreads) THEN c.have
                ELSE free_unused_matrices(table, c.have, c.size.mmax)
  OBVIOUS
<1> HIDE DEF table, have
<1>4. /\ d.phase = "ready" /\ d.table = table /\ d.have = have
      /\ d.size = c.size /\ d.nthreads = c.nthreads /\ d.req = c.req
      /\ d.gpu = c.gpu /\ d.loaded = c.loaded /\ d.again = c.again
  BY <1>2 DEF Config
<1>5. d.table \in Table /\ d.have \in [Matrix -> 0..2] => d \in Config
  BY <1>2, <1>4 DEF Config, Table
<1> HIDE DEF d
<1>6. Record(c, table) = Record(d, table)
  BY <1>4 DEF Record
<1>7. Otf(d) <=> on_the_fly(c.req, c.size, c.nthreads)
  BY <1>4 DEF Otf
<1>8. d.have = IF Otf(d) THEN cfg[p].have
               ELSE free_unused_matrices(d.table, cfg[p].have, d.size.mmax)
  BY <1>3, <1>4, <1>7
<1>9. d.table = choose_best_sht(cfg[p].table, d.req, d.nthreads, cfg[p].have, d.gpu, time)
  BY <1>3, <1>4
<1>10. file' = IF d.req.load_save THEN Append(file, Record(d, d.table)) ELSE file
  BY <1>1, <1>4, <1>6
<1>11. EndOutcome(p, time, d)
  BY <1>1, <1>4, <1>5, <1>8, <1>9, <1>10 DEF EndOutcome
<1> QED BY <1>11

(* One process changes its configuration. *)
LEMMA OneConfig ==
  ASSUME TypeInv, TableInv, UNCHANGED <<cuda, omp_threads, file>>,
         NEW p \in Rank, NEW d \in Config, cfg' = [cfg EXCEPT ![p] = d],
         d.nthreads \in 1..(d.size.mmax + 1), Begun(d) => ConfigInv(d)
  PROVE  TypeInv' /\ TableInv'
<1>1. TypeInv'
  BY DEF TypeInv
<1>2. \A q \in Rank : cfg'[q] = IF q = p THEN d ELSE cfg[q]
  BY DEF TypeInv
<1>3. TableInv'
  BY <1>2 DEF TableInv
<1> QED BY <1>1, <1>3

(* config_load gives a table that the grid has, as it was saved. *)
AsSaved(c, f) ==
  \E i \in 1..Len(f) :
    /\ f[i].key.lmax = c.size.lmax /\ f[i].key.mmax = c.size.mmax
    /\ f[i].key.mres = c.size.mres
    /\ f[i].key.nthreads = c.nthreads
    /\ f[i].key.nlat = c.req.nlat /\ f[i].key.nphi = c.req.nphi
    /\ \A v \in Variant, t \in Type :
         \/ c.table[v][t] = f[i].saved[v][t]
         \/ ~c.gpu /\ \E j \in 1..4 : f[i].saved[v][t] = GpuAlgs[j]

(* The configuration which begins set_grid has a sound table, which is     *)
(* the one of the file if it was read.                                     *)
LEMMA BeginTable ==
  ASSUME TypeInv, TableInv, NEW p \in Rank, NEW r \in Requests, NEW d, BeginOutcome(p, r, d)
  PROVE  /\ d \in Config /\ ConfigInv(d)
         /\ d.nthreads \in 1..(d.size.mmax + 1)
         /\ d.loaded => AsSaved(d, file)
<1> USE DEF BeginOutcome
<1>1. /\ cfg[p].size \in Sizes /\ cfg[p].size.mmax \in Nat /\ cfg[p].nthreads \in Nat \ {0}
      /\ cfg[p].nthreads \in 1..(cfg[p].size.mmax + 1)
  BY ConfigType DEF TableInv
<1>2. /\ d.nthreads \in 1..(d.size.mmax + 1) /\ d.nthreads \in Nat \ {0}
      /\ d.nthreads = SetThreads(d.nthreads, d.size, d.req)
  <2>1. /\ d.nthreads \in Nat \ {0} /\ d.nthreads <= cfg[p].nthreads
        /\ d.nthreads = SetThreads(d.nthreads, d.size, d.req)
    BY <1>1, ThreadsType
  <2> QED BY <1>1, <2>1
<1>3. Otf(d) \in BOOLEAN /\ (Otf(d) => r.nlat >= 4 * VSIZE2)
  BY OtfType DEF Otf, GridAllowed
<1>4. PICK otf \in BOOLEAN : otf = Otf(d)
  BY <1>3
<1>5. PICK mem \in BOOLEAN : mem = (~otf \/ QuickLoaded(d))
  BY <1>4
<1>6. /\ DefaultOf(d) \in Table
      /\ TableOK(DefaultOf(d), r, d.gpu, ~otf)
      /\ \A v \in Variant, t \in Type : NoFly(v, r) => DefaultOf(d)[v][t] = NULL
  <2>1. DefaultOf(d) = Default(r, otf, d.nthreads)
    BY <1>4 DEF DefaultOf
  <2>2. d.nthreads \in Nat
    BY <1>2
  <2> QED BY <1>3, <1>4, <2>1, <2>2, DefaultTable
<1>7. TableOK(DefaultOf(d), r, d.gpu, mem)
  BY <1>5, <1>6 DEF TableOK
<1>8. d.table \in Table /\ TableOK(d.table, r, d.gpu, mem) /\ (d.loaded => AsSaved(d, file))
  <2>1. CASE ~d.loaded
    BY <1>6, <1>7, <2>1
  <2>2. CASE d.loaded
    <3> DEFINE i == Found(KeyOf(d))
    <3>1. /\ i \in 1..Len(file) /\ file[i].key = KeyOf(d) /\ file[i] \in Entry
          /\ EntryOK(file[i])
      BY <2>2, FoundRecord DEF TableInv
    <3>2. PICK q \in Requests, s \in Sizes, gpu0 \in BOOLEAN :
            /\ ~QuickInit(q)
            /\ file[i].key = Key(s, file[i].key.nthreads, q)
            /\ TableOK(file[i].saved, q, gpu0, ~on_the_fly(q, s, file[i].key.nthreads))
            /\ \A v \in Variant, t \in Type :
                 file[i].name[v][t] = NameOf(v, t, file[i].saved[v][t], q, gpu0)
      BY <3>1 DEF EntryOK
    <3>3. /\ Key(d.size, d.nthreads, r) = Key(s, file[i].key.nthreads, q)
          /\ file[i].saved \in Table
      BY <3>1, <3>2 DEF KeyOf, Entry
    <3>4. /\ d.nthreads = file[i].key.nthreads /\ r.nlat = q.nlat /\ r.nphi = q.nphi
          /\ ~QuickInit(q) => r.kind = q.kind \/ r.kind = "quick_init"
          /\ r.kind = q.kind =>
               (on_the_fly(r, d.size, d.nthreads) <=> on_the_fly(q, s, file[i].key.nthreads))
      BY <1>1, <3>3, SameKey
    <3>5. PICK mem0 \in BOOLEAN : mem0 = ~on_the_fly(q, s, file[i].key.nthreads)
      OBVIOUS
    <3>6. mem0 => mem
      BY <1>4, <1>5, <2>2, <3>2, <3>4, <3>5 DEF QuickLoaded, Otf
    <3>7. d.table = Loaded(file[i], DefaultOf(d), r, d.gpu)
      BY <2>2
    <3>8. TableOK(file[i].saved, q, gpu0, mem0)
      BY <3>2, <3>5
    <3> HIDE DEF i
    <3>9. /\ d.table \in Table
          /\ TableOK(d.table, r, d.gpu, mem)
          /\ ComesBack(d.table, file[i].saved, DefaultOf(d), r, d.gpu)
      <4> DEFINE rec == file[i]
                 D == DefaultOf(d)
      <4>1. PICK gpu \in BOOLEAN : gpu = d.gpu
        OBVIOUS
      <4>2. /\ D \in Table /\ TableOK(D, r, gpu, mem)
            /\ rec.saved \in Table /\ TableOK(rec.saved, q, gpu0, mem0)
            /\ \A v \in Variant, t \in Type :
                 rec.name[v][t] = NameOf(v, t, rec.saved[v][t], q, gpu0)
        BY <1>6, <1>7, <3>2, <3>3, <3>8, <4>1
      <4> HIDE DEF rec, D
      <4>3. /\ Loaded(rec, D, r, gpu) \in Table
            /\ TableOK(Loaded(rec, D, r, gpu), r, gpu, mem)
            /\ ComesBack(Loaded(rec, D, r, gpu), rec.saved, D, r, gpu)
        <5> HIDE DEF BeginOutcome
        <5>1. r.nlat = q.nlat /\ r.nphi = q.nphi /\ (mem0 => mem)
          BY <3>4, <3>6
        <5> QED BY <4>2, <5>1, LoadedTable
      <4> QED BY <3>7, <4>1, <4>3 DEF rec, D
    <3>10. \A v \in Variant, t \in Type :
             \/ d.table[v][t] = file[i].saved[v][t]
             \/ ~d.gpu /\ \E j \in 1..4 : file[i].saved[v][t] = GpuAlgs[j]
      BY <1>6, <3>9 DEF ComesBack
    <3>11. /\ file[i].key.lmax = d.size.lmax /\ file[i].key.mmax = d.size.mmax
           /\ file[i].key.mres = d.size.mres /\ file[i].key.nthreads = d.nthreads
           /\ file[i].key.nlat = d.req.nlat /\ file[i].key.nphi = d.req.nphi
      BY <3>1 DEF KeyOf, Key
    <3> QED BY <3>1, <3>9, <3>10, <3>11 DEF AsSaved
  <2> QED BY <2>1, <2>2
<1>9. d.have \in [Matrix -> 0..2]
  <2>1. Matrices(r, Otf(d)) \in [Matrix -> 0..2]
    BY MatricesType
  <2> QED BY <1>1, <2>1, FreeType
<1>10. d \in Config
  BY <1>8, <1>9
<1>11. ConfigInv(d)
  <2>1. TableOK(d.table, d.req, d.gpu, ~Otf(d) \/ QuickLoaded(d))
    BY <1>4, <1>5, <1>8
  <2>2. d.have = IF d.phase = "timing" \/ QuickInit(d.req) \/ Otf(d)
                 THEN Matrices(d.req, Otf(d))
                 ELSE free_unused_matrices(d.table, Matrices(d.req, Otf(d)), d.size.mmax)
    OBVIOUS
  <2>3. /\ d.phase = "timing" => ~QuickInit(d.req) /\ ~d.loaded
        /\ d.loaded => d.req.load_save
    OBVIOUS
  <2> QED BY <1>2, <1>3, <2>1, <2>2, <2>3 DEF ConfigInv
<1> QED BY <1>2, <1>8, <1>10, <1>11

(* The key that config_save writes before a table. *)
LEMMA KeyType ==
  ASSUME NEW s \in Sizes, NEW n \in Nat \ {0}, NEW r \in Requests
  PROVE  Key(s, n, r) \in ConfigKey
<1>1. s.lmax \in Nat /\ s.mmax \in Nat /\ s.mres \in Nat \ {0}
  BY AlgoAssumption DEF Size
<1>2. (IF r.kind = "quick_init" THEN "gauss" ELSE r.kind) \in Kinds
  BY RequestType DEF Kinds
<1> QED BY <1>1, <1>2, RequestType DEF Key, ConfigKey

(* The timings end with a table that the grid has, and the record written  *)
(* stands for it.                                                          *)
LEMMA EndTable ==
  ASSUME TypeInv, TableInv, NEW p \in Rank, NEW time \in Speeds, NEW d, EndOutcome(p, time, d)
  PROVE  /\ d \in Config /\ ConfigInv(d)
         /\ d.nthreads \in 1..(d.size.mmax + 1)
         /\ Record(d, d.table) \in Entry /\ EntryOK(Record(d, d.table))
<1> DEFINE c == cfg[p]
<1>1. /\ c \in Config /\ ConfigInv(c) /\ c.phase = "timing"
      /\ c.size \in Sizes /\ c.nthreads \in Nat \ {0} /\ c.table \in Table /\ c.gpu \in BOOLEAN
      /\ c.have \in [Matrix -> 0..2] /\ c.size.mmax \in Nat
      /\ c.nthreads \in 1..(c.size.mmax + 1)
  BY ConfigType DEF EndOutcome, TableInv, Begun
<1>2. /\ d.size = c.size /\ d.nthreads = c.nthreads /\ d.req = c.req /\ d.gpu = c.gpu
      /\ d.loaded = c.loaded /\ d.phase = "ready" /\ Otf(d) = Otf(c)
  BY DEF EndOutcome, Otf
<1>3. /\ c.req \in Requests /\ ~QuickInit(c.req) /\ ~c.loaded
      /\ c.have = Matrices(c.req, Otf(c))
      /\ TableOK(c.table, c.req, c.gpu, ~Otf(c) \/ QuickLoaded(c))
      /\ c.nthreads = SetThreads(c.nthreads, c.size, c.req)
      /\ Otf(c) => c.req.nlat >= 4 * VSIZE2
  BY <1>1 DEF ConfigInv
<1>4. PICK mem \in BOOLEAN : mem = ~Otf(c)
  OBVIOUS
<1>5. c.have["ylm"] > 0 => mem
  <2>1. "ylm" \in Matrix
    BY DEF Matrix
  <2>2. Otf(c) => Matrices(c.req, Otf(c))["ylm"] = 0
    BY <2>1 DEF Matrices
  <2>3. CASE Otf(c)
    <3>1. c.have["ylm"] = 0
      BY <1>3, <2>2, <2>3
    <3> QED BY <3>1
  <2>4. CASE ~Otf(c)
    BY <1>4, <2>4
  <2> QED BY <2>3, <2>4
<1>6. TableOK(c.table, c.req, c.gpu, mem)
  BY <1>3, <1>4 DEF QuickLoaded, TableOK
<1>7. d.table \in Table /\ TableOK(d.table, c.req, c.gpu, mem)
  <2> DEFINE b == choose_best_sht(c.table, c.req, c.nthreads, c.have, c.gpu, time)
  <2>1. b \in Table /\ TableOK(b, c.req, c.gpu, mem)
    BY <1>1, <1>3, <1>5, <1>6, BestTable
  <2>2. d.table = b
    BY <1>2 DEF EndOutcome
  <2> QED BY <2>1, <2>2
<1>8. d \in Config
  <2>1. d.have \in [Matrix -> 0..2]
    <3>1. free_unused_matrices(d.table, c.have, d.size.mmax) \in [Matrix -> 0..2]
      BY <1>1, <1>2, FreeType
    <3> QED BY <1>1, <3>1 DEF EndOutcome
  <2> QED BY <1>7, <2>1 DEF EndOutcome
<1>9. ConfigInv(d)
  <2>1. TableOK(d.table, d.req, d.gpu, ~Otf(d) \/ QuickLoaded(d))
    BY <1>2, <1>3, <1>4, <1>7 DEF QuickLoaded
  <2>2. d.have = IF d.phase = "timing" \/ QuickInit(d.req) \/ Otf(d)
                 THEN Matrices(d.req, Otf(d))
                 ELSE free_unused_matrices(d.table, Matrices(d.req, Otf(d)), d.size.mmax)
    <3>1. CASE Otf(d)
      BY <1>2, <1>3, <3>1 DEF EndOutcome
    <3>2. CASE ~Otf(d)
      <4>1. Matrices(d.req, Otf(d)) = c.have
        BY <1>2, <1>3
      <4> QED BY <1>2, <1>3, <3>2, <4>1 DEF EndOutcome
    <3> QED BY <3>1, <3>2
  <2> QED BY <1>2, <1>3, <2>1, <2>2 DEF ConfigInv
<1>10. Record(d, d.table) \in Entry /\ EntryOK(Record(d, d.table))
  <2> DEFINE rec == Record(d, d.table)
  <2>1. /\ rec.key = Key(d.size, d.nthreads, d.req) /\ rec.saved = d.table
        /\ rec.name = [v \in Variant |-> [t \in Type |->
                         NameOf(v, t, d.table[v][t], d.req, d.gpu)]]
    BY DEF Record
  <2>2. rec.key \in ConfigKey /\ rec.key.nthreads = d.nthreads
    BY <1>1, <1>2, <1>3, <2>1, KeyType DEF Key
  <2>3. rec.name \in [Variant -> [Type -> Alg \cup {"none"}]]
    BY <1>1, <1>2, <1>3, <1>7, <2>1, NamesType
  <2>4. rec \in Entry
    BY <1>7, <2>1, <2>2, <2>3 DEF Entry, Record
  <2>5. \A v \in Variant, t \in Type :
          rec.name[v][t] = NameOf(v, t, rec.saved[v][t], d.req, d.gpu)
    BY <2>1
  <2>6. TableOK(rec.saved, d.req, d.gpu, ~on_the_fly(d.req, d.size, rec.key.nthreads))
    BY <1>2, <1>4, <1>7, <2>1, <2>2 DEF Otf
  <2> HIDE DEF rec
  <2>7. EntryOK(rec)
    <3>1. /\ d.req \in Requests /\ d.size \in Sizes /\ d.gpu \in BOOLEAN /\ ~QuickInit(d.req)
          /\ rec.key = Key(d.size, rec.key.nthreads, d.req)
      BY <1>1, <1>2, <1>3, <2>1, <2>2
    <3> QED BY <2>5, <2>6, <3>1 DEF EntryOK
  <2> QED BY <2>4, <2>7 DEF rec
<1> QED BY <1>1, <1>2, <1>8, <1>9, <1>10

(* The file only grows. *)
LEMMA EndFile ==
  ASSUME TypeInv, TableInv, NEW p \in Rank, NEW time \in Speeds, NEW d, EndOutcome(p, time, d)
  PROVE  /\ file' \in Seq(Entry)
         /\ Len(file) \in Nat /\ Len(file') >= Len(file)
         /\ \A i \in 1..Len(file) : i \in 1..Len(file') /\ file'[i] = file[i]
         /\ d.req.load_save =>
              /\ Len(file') = Len(file) + 1
              /\ file'[Len(file) + 1] = Record(d, d.table)
         /\ ~d.req.load_save => file' = file
<1>1. file \in Seq(Entry) /\ Record(d, d.table) \in Entry
  BY EndTable DEF TypeInv
<1>2. file' = IF d.req.load_save THEN Append(file, Record(d, d.table)) ELSE file
  BY DEF EndOutcome
<1> HIDE DEF EndOutcome
<1>3. CASE d.req.load_save
  BY <1>1, <1>2, <1>3
<1>4. CASE ~d.req.load_save
  BY <1>1, <1>2, <1>4
<1> QED BY <1>3, <1>4

-----------------------------------------------------------------------------
(* TypeInv and TableInv are inductive.                                     *)

(* No process has a configuration yet. *)
LEMMA InitTable == Init => TypeInv /\ TableInv
<1> SUFFICES ASSUME Init PROVE TypeInv /\ TableInv
  OBVIOUS
<1>1. \A p \in Rank : cfg[p] = NoConfig
  BY DEF Init
<1>2. TypeInv
  BY DEF Init, TypeInv
<1>3. TableInv
  BY <1>1 DEF Init, TableInv, NoConfig, Begun
<1> QED BY <1>2, <1>3

(* Every step keeps the types and the tables sound. *)
LEMMA NextTable == TypeInv /\ TableInv /\ [Next]_vars => TypeInv' /\ TableInv'
<1> SUFFICES ASSUME TypeInv, TableInv, [Next]_vars PROVE TypeInv' /\ TableInv'
  OBVIOUS
<1>1. ASSUME NEW n \in Threads, use_threads(n) PROVE TypeInv' /\ TableInv'
  BY <1>1, AlgoAssumption DEF use_threads, TypeInv, TableInv
<1>2. ASSUME NEW p \in Rank, NEW s \in Sizes, Create(p, s) PROVE TypeInv' /\ TableInv'
  <2> DEFINE d == [phase |-> "created", size |-> s,
                   nthreads |-> Smaller(omp_threads, s.mmax + 1), req |-> NULL,
                   gpu |-> FALSE, table |-> NoFunctions, have |-> NoMatrices,
                   loaded |-> FALSE, again |-> FALSE]
  <2>1. cfg' = [cfg EXCEPT ![p] = d] /\ UNCHANGED <<cuda, omp_threads, file>>
    BY <1>2 DEF Create
  <2>2. s.mmax \in Nat /\ omp_threads \in Nat \ {0}
    BY AlgoAssumption DEF Size, TypeInv
  <2>3. d.nthreads \in Nat \ {0} /\ d.nthreads \in 1..(d.size.mmax + 1)
    BY <2>2 DEF Smaller
  <2>4. NoFunctions \in Table /\ NoMatrices \in [Matrix -> 0..2]
    BY DEF NoFunctions, NoMatrices, Table
  <2>5. d \in Config
    BY <2>3, <2>4 DEF Config, Table
  <2>6. ~Begun(d)
    BY DEF Begun
  <2> HIDE DEF d
  <2> QED BY <2>1, <2>3, <2>5, <2>6, OneConfig
<1>3. ASSUME NEW p \in Rank, NEW r \in Requests, BeginSetGrid(p, r) PROVE TypeInv' /\ TableInv'
  <2>1. PICK d : BeginOutcome(p, r, d)
    BY <1>3, BeginStep
  <2>2. cfg' = [cfg EXCEPT ![p] = d] /\ UNCHANGED <<cuda, omp_threads, file>>
    BY <1>3, <2>1 DEF BeginOutcome, BeginSetGrid
  <2>3. d \in Config /\ ConfigInv(d) /\ d.nthreads \in 1..(d.size.mmax + 1)
    BY <2>1, BeginTable
  <2> QED BY <2>2, <2>3, OneConfig
<1>4. ASSUME NEW p \in Rank, NEW time \in Speeds, EndSetGrid(p, time)
      PROVE  TypeInv' /\ TableInv'
  <2>1. PICK d : EndOutcome(p, time, d)
    BY <1>4, EndStep
  <2>2. cfg' = [cfg EXCEPT ![p] = d] /\ UNCHANGED <<cuda, omp_threads>>
    BY <1>4, <2>1 DEF EndOutcome, EndSetGrid
  <2>3. d \in Config /\ ConfigInv(d) /\ d.nthreads \in 1..(d.size.mmax + 1)
    BY <2>1, EndTable
  <2>4. /\ file' \in Seq(Entry)
        /\ \A i \in 1..Len(file') : EntryOK(file'[i])
    <3>1. /\ file' \in Seq(Entry) /\ Len(file) \in Nat
          /\ \A i \in 1..Len(file) : file'[i] = file[i]
          /\ d.req.load_save => /\ Len(file') = Len(file) + 1
                                /\ file'[Len(file) + 1] = Record(d, d.table)
          /\ ~d.req.load_save => file' = file
      BY <2>1, EndFile
    <3>2. EntryOK(Record(d, d.table))
      BY <2>1, EndTable
    <3>3. \A i \in 1..Len(file) : EntryOK(file[i])
      BY DEF TableInv
    <3> QED BY <3>1, <3>2, <3>3
  <2>5. \A q \in Rank : cfg'[q] = IF q = p THEN d ELSE cfg[q]
    BY <2>2 DEF TypeInv
  <2>6. TypeInv'
    BY <2>2, <2>3, <2>4 DEF TypeInv
  <2>7. TableInv'
    BY <2>3, <2>4, <2>5 DEF TableInv
  <2> QED BY <2>6, <2>7
<1>5. CASE NewJob
  <2>1. \A p \in Rank : cfg'[p] = NoConfig
    BY <1>5 DEF NewJob
  <2>2. TypeInv'
    BY <1>5 DEF NewJob, TypeInv
  <2>3. TableInv'
    BY <1>5, <2>1 DEF NewJob, TableInv, NoConfig, Begun
  <2> QED BY <2>2, <2>3
<1>6. CASE UNCHANGED vars
  BY <1>6 DEF vars, TypeInv, TableInv
<1> QED BY <1>1, <1>2, <1>3, <1>4, <1>5, <1>6 DEF Next

(* The two as an invariant. *)
LEMMA TableInvariant == Spec => [](TypeInv /\ TableInv)
BY InitTable, NextTable, PTL DEF Spec

-----------------------------------------------------------------------------
(* The safety properties.                                                  *)

(* The state of a job and the file are what the types say: in particular   *)
(* every function that is saved has a name.                                *)
THEOREM TypeCorrect == Spec => []TypeOK
<1>1. TypeInv => TypeOK
  <2> SUFFICES ASSUME TypeInv PROVE TypeOK
    OBVIOUS
  <2>1. \A p \in Rank : cfg[p] = NoConfig \/ cfg[p] \in Config
    BY DEF TypeInv
  <2>2. ASSUME NEW i \in 1..Len(file)
        PROVE  file[i].name \in [Variant -> [Type -> Alg \cup {"none"}]]
    <3>1. file[i] \in Entry
      BY DEF TypeInv
    <3> QED BY <3>1 DEF Entry
  <2> QED BY <2>1, <2>2 DEF TypeInv, TypeOK
<1> QED BY <1>1, TableInvariant, PTL

(* What a quick initialisation would load may need matrices that it has    *)
(* decided not to allocate: QuickLoadedRuns is then false.  No request for *)
(* which a record of sht_gauss may be loaded is computed on the fly.       *)
NoneFooled ==
  \A r \in Requests, s \in Sizes :
    r.kind = "quick_init" /\ r.load_save =>
      \A n \in 1..(s.mmax + 1) : ~on_the_fly(r, s, SetThreads(n, s, r))

(* Functions that read the matrices are chosen only if they are there.     *)
LEMMA TableRuns ==
  ASSUME NEW c \in Config, ConfigInv(c), c.phase = "ready",
         QuickLoaded(c) => ~Otf(c),
         NEW v \in Variant, NEW t \in Promised(c.req)
  PROVE  Runs(c, v, t)
<1> SUFFICES ASSUME c.table[v][t] = "mem", NEW x \in Matrix
             PROVE  c.have[x] >= MemNeeds(t)[x]
  BY DEF Runs
<1>1. c.req \in Requests /\ t \in Type /\ (~c.req.vector => t \in Scalar)
  BY DEF ConfigInv, Promised, Type
<1>2. ~Otf(c)
  <2>1. "mem" # NULL
    BY AlgElements, AlgoAssumption
  <2>2. PICK a \in Alg : "mem" = Fun(v, a) /\ (a = "mem" => ~Otf(c) \/ QuickLoaded(c))
    BY <1>1, <2>1 DEF ConfigInv, TableOK
  <2> QED BY <2>2, FunAlg
<1>3. Matrices(c.req, Otf(c)) =
        [y \in Matrix |-> IF c.req.vector \/ y \in {"ylm", "zlm"} THEN 2 ELSE 0]
  BY <1>2 DEF Matrices
<1> DEFINE M == [y \in Matrix |-> IF c.req.vector \/ y \in {"ylm", "zlm"} THEN 2 ELSE 0]
<1>4. x \in {"ylm", "zlm", "dylm", "dzlm"}
  BY DEF Matrix
<1>5. \A y \in {"ylm", "zlm", "dylm", "dzlm"} :
        M[y] = IF c.req.vector \/ y \in {"ylm", "zlm"} THEN 2 ELSE 0
  BY DEF Matrix
<1>6. MemNeeds(t)[x] =
        IF x = "ylm" THEN IF t = "syn" THEN 2 ELSE IF t = "v3s" THEN 1 ELSE 0
        ELSE IF x = "zlm" THEN IF t = "ana" THEN 2 ELSE IF t = "v3a" THEN 1 ELSE 0
        ELSE IF x = "dylm" THEN IF t \in {"vsy", "gsp", "gto", "v3s"} THEN 2 ELSE 0
        ELSE IF t \in {"van", "v3a"} THEN 2 ELSE 0
  BY <1>4 DEF MemNeeds
<1>7. CASE QuickInit(c.req)
  <2>1. c.have = M
    BY <1>3, <1>7 DEF ConfigInv
  <2> HIDE DEF M
  <2> QED BY <1>1, <1>4, <1>5, <1>6, <2>1 DEF Type, Scalar
<1>8. CASE ~QuickInit(c.req)
  <2>1. c.have = free_unused_matrices(c.table, M, c.size.mmax)
    BY <1>2, <1>3, <1>8 DEF ConfigInv
  <2> HIDE DEF M
  <2>2. CASE x = "ylm"
    BY <1>1, <1>5, <1>6, <2>1, <2>2 DEF free_unused_matrices, Smaller, Type, Scalar
  <2>3. CASE x = "zlm"
    BY <1>1, <1>5, <1>6, <2>1, <2>3 DEF free_unused_matrices, Smaller, Type, Scalar
  <2>4. CASE x = "dylm"
    BY <1>1, <1>5, <1>6, <2>1, <2>4 DEF free_unused_matrices, Type, Scalar
  <2>5. CASE x = "dzlm"
    BY <1>1, <1>5, <1>6, <2>1, <2>5 DEF free_unused_matrices, Type, Scalar
  <2> QED BY <1>4, <2>2, <2>3, <2>4, <2>5
<1> QED BY <1>7, <1>8

(* Every function in use finds its matrices, unless a quick initialisation *)
(* has been fooled.                                                        *)
THEOREM MatricesThere == ASSUME NoneFooled PROVE Spec => []MatricesPresent
<1>1. TypeInv /\ TableInv => MatricesPresent
  <2> SUFFICES ASSUME TypeInv, TableInv, NEW p \in Ready,
                      NEW v \in Variant, NEW t \in Promised(cfg[p].req)
               PROVE  Runs(cfg[p], v, t)
    BY DEF MatricesPresent
  <2>1. p \in Rank /\ cfg[p].phase = "ready"
    BY DEF Ready
  <2>2. /\ cfg[p] \in Config /\ cfg[p].size \in Sizes /\ ConfigInv(cfg[p])
        /\ cfg[p].nthreads \in 1..(cfg[p].size.mmax + 1)
    BY <2>1, ConfigType DEF TableInv, Begun
  <2>3. QuickLoaded(cfg[p]) => ~Otf(cfg[p])
    <3> SUFFICES ASSUME QuickLoaded(cfg[p]) PROVE ~Otf(cfg[p])
      OBVIOUS
    <3>1. /\ cfg[p].req \in Requests /\ cfg[p].req.kind = "quick_init"
          /\ cfg[p].req.load_save
          /\ cfg[p].nthreads = SetThreads(cfg[p].nthreads, cfg[p].size, cfg[p].req)
      BY <2>2 DEF ConfigInv, QuickLoaded
    <3>2. ~on_the_fly(cfg[p].req, cfg[p].size,
                      SetThreads(cfg[p].nthreads, cfg[p].size, cfg[p].req))
      BY <2>2, <3>1 DEF NoneFooled
    <3> QED BY <3>1, <3>2 DEF Otf
  <2> QED BY <2>1, <2>2, <2>3, TableRuns
<1> QED BY <1>1, TableInvariant, PTL

(* After timings, no matrix is kept that no function in use reads, nor     *)
(* more of it than is read.                                                *)
THEOREM NothingWasted == Spec => []NoWaste
<1>1. TypeInv /\ TableInv => NoWaste
  <2> SUFFICES ASSUME TypeInv, TableInv, NEW p \in Ready,
                      cfg[p].req.vector, ~QuickInit(cfg[p].req),
                      NEW x \in Matrix, cfg[p].have[x] > 0
               PROVE  \E v \in Variant, t \in Type :
                        /\ cfg[p].table[v][t] = "mem"
                        /\ MemNeeds(t)[x] > 0
                        /\ cfg[p].size.mmax > 0 => MemNeeds(t)[x] = cfg[p].have[x]
    BY DEF NoWaste
  <2> DEFINE c == cfg[p]
             M == Matrices(c.req, Otf(c))
             uses(t) == \E v \in Variant : c.table[v][t] = "mem"
  <2>1. p \in Rank /\ c.phase = "ready"
    BY DEF Ready
  <2>2. ConfigInv(c) /\ c.size.mmax \in Nat
    BY <2>1, ConfigType DEF TableInv, Begun
  <2>3. ~Otf(c)
    <3> SUFFICES ASSUME Otf(c) PROVE FALSE
      OBVIOUS
    <3>1. c.have = M
      BY <2>2 DEF ConfigInv
    <3>2. c.have[x] = 0
      BY <3>1 DEF Matrices
    <3> QED BY <3>2
  <2>4. c.have = free_unused_matrices(c.table, M, c.size.mmax)
    BY <2>1, <2>2, <2>3 DEF ConfigInv
  <2>5. M["ylm"] = 2 /\ M["zlm"] = 2 /\ M["dylm"] = 2 /\ M["dzlm"] = 2
    BY <2>3 DEF Matrices, Matrix
  <2> HIDE DEF M
  <2>6. \A t \in Type : uses(t) => \E v \in Variant : c.table[v][t] = "mem"
    OBVIOUS
  <2>7. CASE x = "ylm"
    <3>1. \/ uses("syn") /\ c.have[x] = 2
          \/ uses("v3s") /\ (c.size.mmax > 0 => c.have[x] = 1)
      BY <2>4, <2>5, <2>7 DEF free_unused_matrices, Smaller
    <3>2. MemNeeds("syn")[x] = 2 /\ MemNeeds("v3s")[x] = 1
      BY <2>7 DEF MemNeeds
    <3>3. "syn" \in Type /\ "v3s" \in Type
      BY DEF Type, Scalar
    <3> QED BY <3>1, <3>2, <3>3
  <2>8. CASE x = "zlm"
    <3>1. \/ uses("ana") /\ c.have[x] = 2
          \/ uses("v3a") /\ (c.size.mmax > 0 => c.have[x] = 1)
      BY <2>4, <2>5, <2>8 DEF free_unused_matrices, Smaller
    <3>2. MemNeeds("ana")[x] = 2 /\ MemNeeds("v3a")[x] = 1
      BY <2>8 DEF MemNeeds
    <3>3. "ana" \in Type /\ "v3a" \in Type
      BY DEF Type, Scalar
    <3> QED BY <3>1, <3>2, <3>3
  <2>9. CASE x = "dylm"
    <3>1. PICK t \in {"v3s", "vsy", "gsp", "gto"} : uses(t) /\ c.have[x] = 2
      BY <2>4, <2>5, <2>9 DEF free_unused_matrices
    <3>2. MemNeeds(t)[x] = 2 /\ t \in Type
      BY <2>9 DEF MemNeeds, Type
    <3> QED BY <3>1, <3>2
  <2>10. CASE x = "dzlm"
    <3>1. PICK t \in {"v3a", "van"} : uses(t) /\ c.have[x] = 2
      BY <2>4, <2>5, <2>10 DEF free_unused_matrices
    <3>2. MemNeeds(t)[x] = 2 /\ t \in Type
      BY <2>10 DEF MemNeeds, Type
    <3> QED BY <3>1, <3>2
  <2> QED BY <2>7, <2>8, <2>9, <2>10 DEF Matrix
<1> QED BY <1>1, TableInvariant, PTL

(* What has been loaded.                                                   *)
LoadedInv ==
  \A p \in Rank : cfg[p].phase = "ready" /\ cfg[p].loaded => AsSaved(cfg[p], file)

(* Appending to the file takes nothing away from what has been read. *)
LEMMA AsSavedGrows ==
  ASSUME NEW c, NEW f, NEW g, AsSaved(c, f),
         \A i \in 1..Len(f) : i \in 1..Len(g) /\ g[i] = f[i]
  PROVE  AsSaved(c, g)
BY DEF AsSaved

(* Every step keeps LoadedInv. *)
LEMMA NextLoaded ==
  TypeInv /\ TableInv /\ LoadedInv /\ [Next]_vars => LoadedInv'
<1> SUFFICES ASSUME TypeInv, TableInv, LoadedInv, [Next]_vars,
                    NEW q \in Rank, cfg'[q].phase = "ready", cfg'[q].loaded
             PROVE  AsSaved(cfg'[q], file')
  BY DEF LoadedInv
<1>1. ASSUME NEW n \in Threads, use_threads(n) PROVE AsSaved(cfg'[q], file')
  BY <1>1 DEF use_threads, LoadedInv
<1>2. ASSUME NEW p \in Rank, NEW s \in Sizes, Create(p, s) PROVE AsSaved(cfg'[q], file')
  <2>1. cfg'[q].phase = "ready" => cfg'[q] = cfg[q]
    BY <1>2 DEF Create, TypeInv
  <2> QED BY <1>2, <2>1 DEF Create, LoadedInv
<1>3. ASSUME NEW p \in Rank, NEW r \in Requests, BeginSetGrid(p, r)
      PROVE  AsSaved(cfg'[q], file')
  <2>1. PICK d : BeginOutcome(p, r, d)
    BY <1>3, BeginStep
  <2>2. file' = file /\ cfg'[q] = IF q = p THEN d ELSE cfg[q]
    BY <1>3, <2>1 DEF BeginOutcome, BeginSetGrid, TypeInv
  <2>3. d.loaded => AsSaved(d, file)
    BY <2>1, BeginTable
  <2> QED BY <2>2, <2>3 DEF LoadedInv
<1>4. ASSUME NEW p \in Rank, NEW time \in Speeds, EndSetGrid(p, time)
      PROVE  AsSaved(cfg'[q], file')
  <2>1. PICK d : EndOutcome(p, time, d)
    BY <1>4, EndStep
  <2>2. cfg'[q] = IF q = p THEN d ELSE cfg[q]
    BY <2>1 DEF EndOutcome, TypeInv
  <2>3. ~d.loaded
    BY <2>1 DEF EndOutcome, TableInv, ConfigInv, Begun
  <2>4. \A i \in 1..Len(file) : i \in 1..Len(file') /\ file'[i] = file[i]
    BY <2>1, EndFile
  <2> QED BY <2>2, <2>3, <2>4, AsSavedGrows DEF LoadedInv
<1>5. CASE NewJob
  BY <1>5 DEF NewJob, NoConfig
<1>6. CASE UNCHANGED vars
  BY <1>6 DEF vars, LoadedInv
<1> QED BY <1>1, <1>2, <1>3, <1>4, <1>5, <1>6 DEF Next

(* A table read from the file is one that was timed for this grid, and     *)
(* each of its functions is the one saved, except for those of a GPU that  *)
(* is missing.                                                             *)
THEOREM ReadAsWritten == Spec => []LoadedAsSaved
<1>1. Init => LoadedInv
  BY DEF Init, LoadedInv, NoConfig
<1>2. LoadedInv => LoadedAsSaved
  BY DEF LoadedInv, LoadedAsSaved, AsSaved, Ready
<1> QED BY <1>1, <1>2, NextLoaded, TableInvariant, PTL DEF Spec

-----------------------------------------------------------------------------
(* The processes of a job.                                                 *)

(* The number of threads only depends on the size and on the request, as   *)
(* long as no other grid was set before.                                   *)
ThreadInv(c, omp) ==
  LET n == Smaller(omp, c.size.mmax + 1)
  IN  /\ c.phase = "created" => c.nthreads = n
      /\ Begun(c) /\ ~c.again => c.nthreads = SetThreads(n, c.size, c.req)

(* The others come after process 0, for the same request. *)
Follows(c, first) ==
  /\ first.phase = "ready" /\ ~first.again /\ ~c.again
  /\ c.req = first.req

BarrierInv ==
  /\ \A p, q \in Rank :
       cfg[p].phase # "none" /\ cfg[q].phase # "none" => cfg[p].size = cfg[q].size
  /\ \A p \in Rank : cfg[p].phase # "none" => ThreadInv(cfg[p], omp_threads)
  /\ \A q \in Rank \ {0} : Begun(cfg[q]) => Follows(cfg[q], cfg[0])

(* The table is what the file says now, or the default if it says nothing; *)
(* only process 0 has something to time.                                   *)
MatchingIn(f, key) == {i \in 1..Len(f) : f[i].key = key}
FoundIn(f, key) == CHOOSE i \in MatchingIn(f, key) : \A j \in MatchingIn(f, key) : i <= j
Settled(c, f) ==
  IF MatchingIn(f, KeyOf(c)) # {}
  THEN c.table = Loaded(f[FoundIn(f, KeyOf(c))], DefaultOf(c), c.req, c.gpu)
  ELSE QuickInit(c.req) /\ c.table = DefaultOf(c)
SettledInv ==
  \A p \in Rank : Begun(cfg[p]) /\ cfg[p].req.load_save =>
    /\ cfg[p].phase = "ready" => Settled(cfg[p], file)
    /\ cfg[p].phase = "timing" => p = 0 /\ MatchingIn(file, KeyOf(cfg[p])) = {}

(* There is a process 0, the one that times and saves. *)
LEMMA ZeroIsRank == 0 \in Rank
BY AlgoAssumption

(* Every step keeps the number of threads and the order of the             *)
(* processes: process 0 is ahead of those it makes wait.                   *)
LEMMA NextBarrier ==
  TypeInv /\ TableInv /\ BarrierInv /\ [Next]_vars => BarrierInv'
<1> SUFFICES ASSUME TypeInv, TableInv, BarrierInv, [Next]_vars PROVE BarrierInv'
  OBVIOUS
<1>1. ASSUME NEW n \in Threads, use_threads(n) PROVE BarrierInv'
  BY <1>1 DEF use_threads, BarrierInv, Begun
<1>2. ASSUME NEW p \in Rank, NEW s \in Sizes, Create(p, s) PROVE BarrierInv'
  <2> DEFINE d == [phase |-> "created", size |-> s,
                   nthreads |-> Smaller(omp_threads, s.mmax + 1), req |-> NULL,
                   gpu |-> FALSE, table |-> NoFunctions, have |-> NoMatrices,
                   loaded |-> FALSE, again |-> FALSE]
  <2>1. /\ cfg[p].phase = "none" /\ cfg' = [cfg EXCEPT ![p] = d] /\ omp_threads' = omp_threads
        /\ \A q \in Rank : cfg[q].phase # "none" => cfg[q].size = s
    BY <1>2 DEF Create
  <2>2. d.phase = "created" /\ d.size = s /\ ThreadInv(d, omp_threads) /\ ~Begun(d)
    BY DEF ThreadInv, Begun
  <2> HIDE DEF d
  <2>3. \A q \in Rank : cfg'[q] = IF q = p THEN d ELSE cfg[q]
    BY <2>1 DEF TypeInv
  <2>4. ASSUME NEW q \in Rank \ {0}, Begun(cfg'[q]) PROVE Follows(cfg'[q], cfg'[0])
    <3>1. q # p /\ cfg'[q] = cfg[q] /\ Follows(cfg[q], cfg[0])
      BY <2>2, <2>3, <2>4 DEF BarrierInv
    <3>2. p # 0
      BY <2>1, <3>1 DEF Follows
    <3> QED BY <2>3, <3>1, <3>2, ZeroIsRank
  <2>5. \A q, o \in Rank : cfg'[q].phase # "none" /\ cfg'[o].phase # "none"
                             => cfg'[q].size = cfg'[o].size
    BY <2>1, <2>2, <2>3 DEF BarrierInv
  <2>6. \A q \in Rank : cfg'[q].phase # "none" => ThreadInv(cfg'[q], omp_threads')
    BY <2>1, <2>2, <2>3 DEF BarrierInv
  <2> QED BY <2>4, <2>5, <2>6 DEF BarrierInv
<1>3. ASSUME NEW p \in Rank, NEW r \in Requests, BeginSetGrid(p, r) PROVE BarrierInv'
  <2>1. MayBegin(p, r)
    BY <1>3, BeginStep
  <2>2. PICK d : BeginOutcome(p, r, d)
    BY <1>3, BeginStep
  <2>3. omp_threads' = omp_threads /\ \A q \in Rank : cfg'[q] = IF q = p THEN d ELSE cfg[q]
    BY <1>3, <2>2 DEF BeginOutcome, BeginSetGrid, TypeInv
  <2>4. /\ cfg[p].phase \in {"created", "ready"} /\ d.phase \in {"timing", "ready"}
        /\ d.size = cfg[p].size /\ d.req = r
        /\ d.nthreads = SetThreads(cfg[p].nthreads, cfg[p].size, r)
        /\ d.again <=> cfg[p].phase = "ready"
    BY <2>2 DEF BeginOutcome
  <2>5. ThreadInv(d, omp_threads)
    BY <2>4 DEF ThreadInv, BarrierInv, Begun
  <2>6. \A q \in Rank : cfg'[q].phase # "none" => ThreadInv(cfg'[q], omp_threads')
    BY <2>3, <2>5 DEF BarrierInv
  <2>7. \A q, o \in Rank : cfg'[q].phase # "none" /\ cfg'[o].phase # "none"
                             => cfg'[q].size = cfg'[o].size
    BY <2>3, <2>4 DEF BarrierInv
  <2>8. ASSUME NEW q \in Rank \ {0}, Begun(cfg'[q]) PROVE Follows(cfg'[q], cfg'[0])
    <3>1. CASE q = p
      BY <2>1, <2>3, <2>4, <2>8, <3>1, ZeroIsRank DEF MayBegin, Follows
    <3>2. CASE q # p
      <4>1. cfg'[q] = cfg[q] /\ Follows(cfg[q], cfg[0]) /\ cfg[q].phase # "none"
        BY <2>3, <2>8, <3>2 DEF BarrierInv, Begun
      <4>2. p # 0
        BY <2>1, <4>1 DEF MayBegin, Follows
      <4> QED BY <2>3, <4>1, <4>2, ZeroIsRank
    <3> QED BY <3>1, <3>2
  <2> QED BY <2>6, <2>7, <2>8 DEF BarrierInv
<1>4. ASSUME NEW p \in Rank, NEW time \in Speeds, EndSetGrid(p, time) PROVE BarrierInv'
  <2>1. PICK d : EndOutcome(p, time, d)
    BY <1>4, EndStep
  <2>2. omp_threads' = omp_threads /\ \A q \in Rank : cfg'[q] = IF q = p THEN d ELSE cfg[q]
    BY <1>4, <2>1 DEF EndOutcome, EndSetGrid, TypeInv
  <2>3. /\ cfg[p].phase = "timing" /\ d.phase = "ready" /\ d.size = cfg[p].size
        /\ d.req = cfg[p].req /\ d.nthreads = cfg[p].nthreads /\ d.again = cfg[p].again
    BY <2>1 DEF EndOutcome
  <2>4. ThreadInv(d, omp_threads)
    BY <2>3 DEF ThreadInv, BarrierInv, Begun
  <2>5. \A q \in Rank : cfg'[q].phase # "none" => ThreadInv(cfg'[q], omp_threads')
    BY <2>2, <2>4 DEF BarrierInv
  <2>6. \A q, o \in Rank : cfg'[q].phase # "none" /\ cfg'[o].phase # "none"
                             => cfg'[q].size = cfg'[o].size
    BY <2>2, <2>3 DEF BarrierInv
  <2>7. ASSUME NEW q \in Rank \ {0}, Begun(cfg'[q]) PROVE Follows(cfg'[q], cfg'[0])
    <3>1. Follows(cfg[q], cfg[0])
      BY <2>2, <2>3, <2>7 DEF BarrierInv, Begun
    <3>2. p # 0
      BY <2>3, <3>1 DEF Follows
    <3> QED BY <2>2, <2>3, <3>1, <3>2, ZeroIsRank DEF Follows
  <2> QED BY <2>5, <2>6, <2>7 DEF BarrierInv
<1>5. CASE NewJob
  BY <1>5 DEF NewJob, NoConfig, BarrierInv, Begun
<1>6. CASE UNCHANGED vars
  BY <1>6 DEF vars, BarrierInv
<1> QED BY <1>1, <1>2, <1>3, <1>4, <1>5, <1>6 DEF Next

(* The names of a table that was just written give the same table back. *)
LEMMA RoundTrip ==
  ASSUME NEW r \in Requests, NEW gpu \in BOOLEAN, NEW mem \in BOOLEAN,
         NEW D \in Table, \A v \in Variant, t \in Type : NoFly(v, r) => D[v][t] = NULL,
         NEW rec, rec.saved \in Table, TableOK(rec.saved, r, gpu, mem),
         \A v \in Variant, t \in Type :
           rec.name[v][t] = NameOf(v, t, rec.saved[v][t], r, gpu)
  PROVE  Loaded(rec, D, r, gpu) = rec.saved
<1> DEFINE L == Loaded(rec, D, r, gpu)
<1>1. ASSUME NEW v \in Variant, NEW t \in Type
      PROVE  L[v][t] = rec.saved[v][t]
  <2> DEFINE n == rec.name[v][t]
             f == rec.saved[v][t]
  <2>1. L[v][t] = IF n \in Alg /\ Has(v, n, t, r, gpu)
                  THEN sht_func(v, n, t, r, gpu) ELSE D[v][t]
    BY DEF Loaded
  <2>2. n = NameOf(v, t, f, r, gpu)
    OBVIOUS
  <2>3. \/ f = NULL /\ NoFly(v, r)
        \/ \E a \in Alg : Has(v, a, t, r, gpu) /\ f = Fun(v, a)
    BY DEF TableOK
  <2>4. NoFly(v, r) => D[v][t] = NULL
    OBVIOUS
  <2> HIDE DEF L, n, f
  <2>5. CASE f = NULL /\ NoFly(v, r)
    <3>1. n \notin Alg
      BY <2>2, <2>5, NoneIsNoName DEF NameOf
    <3> QED BY <2>1, <2>4, <2>5, <3>1 DEF f
  <2>6. CASE \E a \in Alg : Has(v, a, t, r, gpu) /\ f = Fun(v, a)
    <3>1. n \in Alg /\ Has(v, n, t, r, gpu) /\ Fun(v, n) = f
      BY <2>2, <2>6, NameStands
    <3>2. sht_func(v, n, t, r, gpu) = Fun(v, n)
      BY <3>1, Entered
    <3> QED BY <2>1, <3>1, <3>2 DEF f
  <2> QED BY <2>3, <2>5, <2>6
<1>2. L = [v \in Variant |-> [t \in Type |-> L[v][t]]]
  BY DEF Loaded
<1>3. rec.saved = [v \in Variant |-> [t \in Type |-> rec.saved[v][t]]]
  BY DEF Table
<1> HIDE DEF L
<1>4. L = rec.saved
  BY <1>1, <1>2, <1>3
<1> QED BY <1>4 DEF L

(* Two configurations of the same size and request, neither of which has   *)
(* had another grid, look for the same record.                             *)
LEMMA SameKeys ==
  ASSUME NEW omp, NEW c, NEW d, ThreadInv(c, omp), ThreadInv(d, omp),
         Begun(c), Begun(d), ~c.again, ~d.again, c.size = d.size, c.req = d.req
  PROVE  KeyOf(c) = KeyOf(d) /\ DefaultOf(c) = DefaultOf(d)
<1>1. c.nthreads = d.nthreads
  BY DEF ThreadInv
<1> QED BY <1>1 DEF KeyOf, DefaultOf, Otf

(* Every step keeps SettledInv: a process that follows finds the record    *)
(* which process 0 had found or has written.                               *)
LEMMA NextSettled ==
  TypeInv /\ TableInv /\ BarrierInv /\ BarrierInv' /\ SettledInv /\ [Next]_vars => SettledInv'
<1> SUFFICES ASSUME TypeInv, TableInv, BarrierInv, BarrierInv', SettledInv, [Next]_vars
             PROVE  SettledInv'
  OBVIOUS
<1>1. ASSUME file' = file, \A q \in Rank : Begun(cfg'[q]) => cfg'[q] = cfg[q]
      PROVE  SettledInv'
  BY <1>1 DEF SettledInv
<1>2. ASSUME NEW n \in Threads, use_threads(n) PROVE SettledInv'
  BY <1>1, <1>2 DEF use_threads
<1>3. ASSUME NEW p \in Rank, NEW s \in Sizes, Create(p, s) PROVE SettledInv'
  <2>1. \A q \in Rank : Begun(cfg'[q]) => cfg'[q] = cfg[q]
    BY <1>3 DEF Create, TypeInv, Begun
  <2> QED BY <1>1, <1>3, <2>1 DEF Create
<1>4. ASSUME NEW p \in Rank, NEW r \in Requests, BeginSetGrid(p, r) PROVE SettledInv'
  <2>1. MayBegin(p, r)
    BY <1>4, BeginStep
  <2>2. PICK d : BeginOutcome(p, r, d)
    BY <1>4, BeginStep
  <2>3. /\ file' = file /\ omp_threads' = omp_threads
        /\ \A q \in Rank : cfg'[q] = IF q = p THEN d ELSE cfg[q]
    BY <1>4, <2>2 DEF BeginOutcome, BeginSetGrid, TypeInv
  <2>4. /\ d.req = r /\ d.size = cfg[p].size /\ cfg[p].phase \in {"created", "ready"}
        /\ d.phase = IF d.loaded \/ QuickInit(r) THEN "ready" ELSE "timing"
        /\ d.loaded <=> r.load_save /\ MatchingIn(file, KeyOf(d)) # {}
        /\ d.again <=> cfg[p].phase = "ready"
        /\ d.table = IF d.loaded THEN Loaded(file[FoundIn(file, KeyOf(d))], DefaultOf(d), r, d.gpu)
                     ELSE DefaultOf(d)
    BY <2>2 DEF BeginOutcome, Matching, MatchingIn, Found, FoundIn
  <2>5. ASSUME r.load_save, d.phase = "ready" PROVE Settled(d, file)
    BY <2>4, <2>5 DEF Settled
  <2>6. ASSUME r.load_save, d.phase = "timing" PROVE p = 0 /\ MatchingIn(file, KeyOf(d)) = {}
    <3>1. MatchingIn(file, KeyOf(d)) = {} /\ ~QuickInit(r)
      BY <2>4, <2>6
    <3> SUFFICES ASSUME p # 0 PROVE FALSE
      BY <3>1
    <3>2. /\ cfg[p].phase = "created" /\ cfg[0].phase = "ready" /\ ~cfg[0].again
          /\ r = cfg[0].req
      BY <2>1, <2>4 DEF MayBegin
    <3>3. Settled(cfg[0], file)
      BY <2>6, <3>2, ZeroIsRank DEF SettledInv, Begun
    <3>4. /\ ThreadInv(cfg[0], omp_threads) /\ ThreadInv(d, omp_threads)
          /\ cfg[0].size = cfg[p].size
      BY <2>3, <2>6, <3>2, ZeroIsRank DEF BarrierInv
    <3>5. KeyOf(d) = KeyOf(cfg[0])
      BY <2>4, <2>6, <3>2, <3>4, SameKeys DEF Begun
    <3> QED BY <3>1, <3>2, <3>3, <3>5 DEF Settled
  <2> SUFFICES ASSUME NEW q \in Rank, Begun(cfg'[q]), cfg'[q].req.load_save
               PROVE  /\ cfg'[q].phase = "ready" => Settled(cfg'[q], file)
                      /\ cfg'[q].phase = "timing" =>
                           q = 0 /\ MatchingIn(file, KeyOf(cfg'[q])) = {}
    BY <2>3 DEF SettledInv
  <2>7. CASE q = p
    BY <2>3, <2>4, <2>5, <2>6, <2>7
  <2>8. CASE q # p
    BY <2>3, <2>8 DEF SettledInv
  <2> QED BY <2>7, <2>8

<1>5. ASSUME NEW p \in Rank, NEW time \in Speeds, EndSetGrid(p, time) PROVE SettledInv'
  <2>1. PICK d : EndOutcome(p, time, d)
    BY <1>5, EndStep
  <2>2. \A q \in Rank : cfg'[q] = IF q = p THEN d ELSE cfg[q]
    BY <2>1 DEF EndOutcome, TypeInv
  <2>3. /\ cfg[p].phase = "timing" /\ d.phase = "ready" /\ d.size = cfg[p].size
        /\ d.req = cfg[p].req /\ d.nthreads = cfg[p].nthreads
        /\ KeyOf(d) = KeyOf(cfg[p])
    BY <2>1 DEF EndOutcome, KeyOf
  <2>4. CASE ~d.req.load_save
    <3>1. file' = file
      BY <2>1, <2>4, EndFile
    <3> QED BY <2>2, <2>3, <2>4, <3>1 DEF SettledInv
  <2>5. CASE d.req.load_save
    <3>1. p = 0 /\ MatchingIn(file, KeyOf(d)) = {}
      BY <2>3, <2>5 DEF SettledInv, Begun
    <3>2. \A q \in Rank \ {0} : ~Begun(cfg[q])
      BY <2>3, <3>1 DEF BarrierInv, Follows
    <3> DEFINE rec == Record(d, d.table)
               k == Len(file) + 1
    <3>3. /\ Len(file) \in Nat /\ Len(file') = k /\ file'[k] = rec
          /\ \A i \in 1..Len(file) : file'[i] = file[i]
      BY <2>1, <2>5, EndFile
    <3>4. rec.key = KeyOf(d) /\ rec.saved = d.table
      BY DEF Record, KeyOf
    <3>5. \A v \in Variant, t \in Type :
            rec.name[v][t] = NameOf(v, t, rec.saved[v][t], d.req, d.gpu)
      BY DEF Record
    <3> HIDE DEF rec
    <3>6. MatchingIn(file', KeyOf(d)) = {k}
      <4>1. \A i \in 1..Len(file) : file[i].key # KeyOf(d)
        BY <3>1 DEF MatchingIn
      <4>2. \A i \in 1..k : file'[i].key = KeyOf(d) <=> i = k
        BY <3>3, <3>4, <4>1
      <4> QED BY <3>3, <4>2 DEF MatchingIn
    <3>7. FoundIn(file', KeyOf(d)) = k
      BY <3>3, <3>6 DEF FoundIn
    <3>8. /\ d \in Config /\ ConfigInv(d) /\ d.req \in Requests /\ d.table \in Table
          /\ d.gpu \in BOOLEAN /\ d.nthreads \in Nat
          /\ Otf(d) => d.req.nlat >= 4 * VSIZE2
      BY <2>1, EndTable DEF ConfigInv, Config, Table
    <3>9. PICK otf \in BOOLEAN, mem \in BOOLEAN : otf = Otf(d) /\ mem = (~Otf(d) \/ QuickLoaded(d))
      BY OtfType DEF Otf
    <3>10. /\ DefaultOf(d) \in Table
           /\ \A v \in Variant, t \in Type : NoFly(v, d.req) => DefaultOf(d)[v][t] = NULL
      <4>1. DefaultOf(d) = Default(d.req, otf, d.nthreads)
        BY <3>9 DEF DefaultOf
      <4> QED BY <3>8, <3>9, <4>1, DefaultTable
    <3>11. TableOK(rec.saved, d.req, d.gpu, mem) /\ rec.saved \in Table
      BY <3>4, <3>8, <3>9 DEF ConfigInv
    <3>12. Loaded(rec, DefaultOf(d), d.req, d.gpu) = d.table
      <4> DEFINE D == DefaultOf(d)
                 r == d.req
      <4>1. PICK gpu \in BOOLEAN : gpu = d.gpu
        BY <3>8
      <4>2. /\ r \in Requests /\ D \in Table
            /\ \A v \in Variant, t \in Type : NoFly(v, r) => D[v][t] = NULL
            /\ rec.saved \in Table /\ TableOK(rec.saved, r, gpu, mem)
            /\ \A v \in Variant, t \in Type :
                 rec.name[v][t] = NameOf(v, t, rec.saved[v][t], r, gpu)
        BY <3>5, <3>8, <3>10, <3>11, <4>1
      <4> HIDE DEF D, r
      <4>3. Loaded(rec, D, r, gpu) = rec.saved
        BY <4>2, RoundTrip
      <4> QED BY <3>4, <4>1, <4>3 DEF D, r
    <3>13. Settled(d, file')
      BY <3>3, <3>6, <3>7, <3>12 DEF Settled
    <3> QED BY <2>2, <2>3, <3>1, <3>2, <3>13 DEF SettledInv
  <2> QED BY <2>4, <2>5
<1>6. CASE NewJob
  BY <1>6 DEF NewJob, NoConfig, SettledInv, Begun
<1>7. CASE UNCHANGED vars
  BY <1>7 DEF vars, SettledInv
<1> QED BY <1>2, <1>3, <1>4, <1>5, <1>6, <1>7 DEF Next

(* With the barrier, all processes of a job that load and save their       *)
(* configuration and that all have a GPU, or none, use the same functions. *)
THEOREM SameForAll == Spec => []SameConfig
<1> DEFINE IInv == BarrierInv /\ SettledInv
<1>1. Init => IInv
  BY DEF Init, BarrierInv, SettledInv, NoConfig, Begun
<1>2. TypeInv /\ TableInv /\ IInv /\ [Next]_vars => IInv'
  BY NextBarrier, NextSettled
<1>3. TypeInv /\ IInv => SameConfig
  <2> SUFFICES ASSUME TypeInv, IInv, NEW p \in Ready, NEW q \in Ready,
                      cfg[p].req.load_save, cfg[p].req = cfg[q].req, cfg[p].gpu = cfg[q].gpu
               PROVE  cfg[p].table = cfg[q].table
    BY DEF SameConfig
  <2>1. /\ p \in Rank /\ q \in Rank /\ cfg[p].phase = "ready" /\ cfg[q].phase = "ready"
        /\ Begun(cfg[p]) /\ Begun(cfg[q])
    BY DEF Ready, Begun
  <2>2. /\ Settled(cfg[p], file) /\ Settled(cfg[q], file)
        /\ ThreadInv(cfg[p], omp_threads) /\ ThreadInv(cfg[q], omp_threads)
        /\ cfg[p].size = cfg[q].size
    BY <2>1 DEF SettledInv, BarrierInv
  <2>3. CASE p = q
    BY <2>3
  <2>4. CASE p # q
    <3>1. ~cfg[p].again /\ ~cfg[q].again
      BY <2>1, <2>4 DEF BarrierInv, Follows
    <3>2. KeyOf(cfg[p]) = KeyOf(cfg[q]) /\ DefaultOf(cfg[p]) = DefaultOf(cfg[q])
      BY <2>1, <2>2, <3>1, SameKeys
    <3> QED BY <2>2, <3>2 DEF Settled
  <2> QED BY <2>3, <2>4
<1> QED BY <1>1, <1>2, <1>3, TableInvariant, PTL DEF Spec
=============================================================================
