------------------------ MODULE ShtRegistry_proofs ------------------------
(***************************************************************************)
(* Proofs about the registry, for every set of configurations, slots,      *)
(* sizes and grids: IInv is an inductive invariant, the safety properties  *)
(* follow from it, and with it every step of the registry is a step of the *)
(* abstract pool of tables.                                                *)
(***************************************************************************)
EXTENDS ShtRegistry, FiniteSetTheorems, TLAPS

-----------------------------------------------------------------------------
(* The chain.                                                              *)

(* Live is a set of addresses of structs. *)
LEMMA LiveType == ASSUME TypeOK PROVE Live \subseteq Cfg
BY DEF Live, TypeOK

(* Pushing a new configuration in front of the chain. *)
LEMMA ChainPush ==
  ASSUME TypeOK, NoDuplicates, NEW c \in Cfg \ Live, list' = <<c>> \o list
  PROVE  /\ list' \in Seq(Cfg)
         /\ Live' = Live \cup {c}
         /\ NoDuplicates'
<1>1. list \in Seq(Cfg) /\ <<c>> \in Seq(Cfg)
  BY DEF TypeOK
<1>2. /\ list' \in Seq(Cfg)
      /\ Len(list') = Len(list) + 1
      /\ list'[1] = c
      /\ \A i \in 1..Len(list) : list'[i + 1] = list[i]
  BY <1>1
<1>3. \A i \in 2..Len(list') : i - 1 \in 1..Len(list) /\ list'[i] = list[i - 1]
  BY <1>1, <1>2
<1>4. Live' = Live \cup {c}
  <2>1. ASSUME NEW i \in 1..Len(list') PROVE list'[i] \in Live \cup {c}
    BY <1>1, <1>2, <1>3 DEF Live
  <2>2. ASSUME NEW i \in 1..Len(list) PROVE list[i] \in Live'
    BY <1>1, <1>2 DEF Live
  <2>3. c \in Live'
    BY <1>1, <1>2 DEF Live
  <2> QED BY <2>1, <2>2, <2>3 DEF Live
<1>5. NoDuplicates'
  <2> SUFFICES ASSUME NEW i \in 1..Len(list'), NEW j \in 1..Len(list'),
                      list'[i] = list'[j]
               PROVE  i = j
    BY DEF NoDuplicates
  <2>1. \A k \in 2..Len(list') : list'[k] \in Live
    BY <1>1, <1>3 DEF Live
  <2>2. CASE i = 1 \/ j = 1
    BY <1>1, <1>2, <2>1, <2>2
  <2>3. CASE i # 1 /\ j # 1
    BY <1>1, <1>2, <1>3, <2>3 DEF NoDuplicates
  <2> QED BY <2>2, <2>3
<1> QED BY <1>2, <1>4, <1>5

(* Forgetting a configuration of the chain. *)
LEMMA ChainDrop ==
  ASSUME TypeOK, NoDuplicates, NEW c \in Live, list' = Without(c)
  PROVE  /\ list' \in Seq(Cfg)
         /\ Live' = Live \ {c}
         /\ NoDuplicates'
<1> DEFINE p == Position(c)
<1>1. list \in Seq(Cfg) /\ Len(list) \in Nat
  BY DEF TypeOK
<1>2. p \in 1..Len(list) /\ list[p] = c
  BY DEF Live, Position
<1> HIDE DEF p
<1>3. list' = [i \in 1..(Len(list) - 1) |->
                 IF i < p THEN list[i] ELSE list[i + 1]]
  BY DEF Without, p
<1>4. list' \in Seq(Cfg) /\ Len(list') = Len(list) - 1
  <2>1. \A i \in 1..(Len(list) - 1) :
          (IF i < p THEN list[i] ELSE list[i + 1]) \in Cfg
    BY <1>1, <1>2
  <2>2. Len(list) - 1 \in Nat
    BY <1>1, <1>2
  <2> QED BY <1>3, <2>1, <2>2
<1>5. \A i \in 1..Len(list') :
        list'[i] = IF i < p THEN list[i] ELSE list[i + 1]
  BY <1>3, <1>4
<1>6. \A i, j \in 1..Len(list) : list[i] = list[j] => i = j
  BY DEF NoDuplicates
<1>7. Live' = Live \ {c}
  <2>1. ASSUME NEW i \in 1..Len(list') PROVE list'[i] \in Live \ {c}
    <3>1. CASE i < p
      BY <1>1, <1>2, <1>4, <1>5, <1>6, <3>1 DEF Live
    <3>2. CASE ~(i < p)
      BY <1>1, <1>2, <1>4, <1>5, <1>6, <3>2 DEF Live
    <3> QED BY <3>1, <3>2
  <2>2. ASSUME NEW i \in 1..Len(list), list[i] # c PROVE list[i] \in Live'
    <3>1. CASE i < p
      <4>1. i \in 1..Len(list') /\ list'[i] = list[i]
        BY <1>1, <1>2, <1>4, <1>5, <3>1
      <4> QED BY <4>1 DEF Live
    <3>2. CASE ~(i < p)
      <4>1. i - 1 \in 1..Len(list') /\ list'[i - 1] = list[i]
        BY <1>1, <1>2, <1>4, <1>5, <2>2, <3>2
      <4> QED BY <4>1 DEF Live
    <3> QED BY <3>1, <3>2
  <2> QED BY <2>1, <2>2 DEF Live
<1>8. NoDuplicates'
  <2> SUFFICES ASSUME NEW i \in 1..Len(list'), NEW j \in 1..Len(list'),
                      list'[i] = list'[j]
               PROVE  i = j
    BY DEF NoDuplicates
  <2>1. i \in Nat /\ j \in Nat /\ i + 1 \in 1..Len(list)
        /\ j + 1 \in 1..Len(list) /\ i \in 1..Len(list) /\ j \in 1..Len(list)
    BY <1>1, <1>2, <1>4
  <2>2. CASE i < p /\ j < p
    BY <1>5, <1>6, <2>1, <2>2
  <2>3. CASE i < p /\ ~(j < p)
    BY <1>2, <1>5, <1>6, <2>1, <2>3
  <2>4. CASE ~(i < p) /\ j < p
    BY <1>2, <1>5, <1>6, <2>1, <2>4
  <2>5. CASE ~(i < p) /\ ~(j < p)
    BY <1>5, <1>6, <2>1, <2>5
  <2> QED BY <2>2, <2>3, <2>4, <2>5
<1> QED BY <1>4, <1>7, <1>8

(* One more in front of a sequence. *)
LEMMA Pushed ==
  ASSUME NEW S, NEW x \in S, NEW s \in Seq(S)
  PROVE  /\ <<x>> \o s \in Seq(S)
         /\ Len(<<x>> \o s) = Len(s) + 1
         /\ (<<x>> \o s)[1] = x
         /\ \A i \in 1..Len(s) : (<<x>> \o s)[i + 1] = s[i]
<1>1. <<x>> \in Seq(S) /\ Len(<<x>>) = 1 /\ <<x>>[1] = x
  OBVIOUS
<1> QED BY <1>1

(* Moving one to the front. *)
LEMMA ChainFront ==
  ASSUME TypeOK, NoDuplicates, NEW c \in Live, list' = <<c>> \o Without(c)
  PROVE  /\ list' \in Seq(Cfg)
         /\ Live' = Live
         /\ NoDuplicates'
<1> DEFINE p == Position(c)
<1>0. PICK w : w = Without(c)
  OBVIOUS
<1>1. list \in Seq(Cfg) /\ Len(list) \in Nat /\ c \in Cfg
  BY LiveType DEF TypeOK
<1>2. p \in 1..Len(list) /\ list[p] = c
  BY DEF Live, Position
<1>3. w = [i \in 1..(Len(list) - 1) |-> IF i < p THEN list[i] ELSE list[i + 1]]
  BY <1>0 DEF Without
<1> HIDE DEF p
<1>4. w \in Seq(Cfg) /\ Len(w) = Len(list) - 1
  <2>1. \A i \in 1..(Len(list) - 1) : (IF i < p THEN list[i] ELSE list[i + 1]) \in Cfg
    BY <1>1, <1>2
  <2>2. Len(list) - 1 \in Nat
    BY <1>1, <1>2
  <2> QED BY <1>3, <2>1, <2>2
<1>5. /\ list' \in Seq(Cfg)
      /\ Len(list') = Len(list)
      /\ list'[1] = c
      /\ \A i \in 2..Len(list) : list'[i] = w[i - 1]
  <2>1. list' = <<c>> \o w
    BY <1>0
  <2>2. /\ list' \in Seq(Cfg)
        /\ Len(list') = Len(w) + 1
        /\ list'[1] = c
        /\ \A i \in 1..Len(w) : list'[i + 1] = w[i]
    <3>1. w \in Seq(Cfg) /\ c \in Cfg
      BY <1>1, <1>4
    <3>2. /\ <<c>> \o w \in Seq(Cfg)
          /\ Len(<<c>> \o w) = Len(w) + 1
          /\ (<<c>> \o w)[1] = c
          /\ \A i \in 1..Len(w) : (<<c>> \o w)[i + 1] = w[i]
      BY ONLY <3>1, Pushed
    <3> QED BY <2>1, <3>2, Zenon
  <2>3. \A i \in 2..Len(list) : i - 1 \in 1..Len(w) /\ list'[i] = w[i - 1]
    BY <1>1, <1>4, <2>2
  <2> QED BY <1>1, <1>4, <2>2, <2>3
(* What was before c moves back by one. *)
<1>6. \A i \in 2..Len(list) : list'[i] = IF i <= p THEN list[i - 1] ELSE list[i]
  BY <1>1, <1>2, <1>3, <1>4, <1>5
<1>7. Live' = Live
  <2>1. ASSUME NEW i \in 1..Len(list') PROVE list'[i] \in Live
    <3>1. CASE i = 1
      BY <1>5, <3>1
    <3>2. CASE i # 1 /\ i <= p
      <4>1. i - 1 \in 1..Len(list) /\ list'[i] = list[i - 1]
        BY <1>1, <1>2, <1>5, <1>6, <3>2
      <4> QED BY <4>1 DEF Live
    <3>3. CASE i # 1 /\ ~(i <= p)
      <4>1. i \in 1..Len(list) /\ list'[i] = list[i]
        BY <1>1, <1>2, <1>5, <1>6, <3>3
      <4> QED BY <4>1 DEF Live
    <3> QED BY <3>1, <3>2, <3>3
  <2>2. ASSUME NEW i \in 1..Len(list) PROVE list[i] \in Live'
    <3>1. CASE i < p
      <4>1. i + 1 \in 1..Len(list') /\ list'[i + 1] = list[i]
        BY <1>1, <1>2, <1>5, <1>6, <3>1
      <4> QED BY <4>1 DEF Live
    <3>2. CASE i = p
      <4>1. 1 \in 1..Len(list') /\ list'[1] = list[i]
        BY <1>1, <1>2, <1>5, <3>2
      <4> QED BY <4>1 DEF Live
    <3>3. CASE i > p
      <4>1. i \in 1..Len(list') /\ list'[i] = list[i]
        BY <1>1, <1>2, <1>5, <1>6, <3>3
      <4> QED BY <4>1 DEF Live
    <3> QED BY <1>2, <3>1, <3>2, <3>3
  <2> QED BY <2>1, <2>2 DEF Live
<1>8. NoDuplicates'
  <2> DEFINE From(i) == IF i = 1 THEN p ELSE IF i <= p THEN i - 1 ELSE i
  <2>1. \A i \in 1..Len(list') : From(i) \in 1..Len(list) /\ list'[i] = list[From(i)]
    BY <1>1, <1>2, <1>5, <1>6
  <2>2. \A i, j \in 1..Len(list') : From(i) = From(j) => i = j
    BY <1>1, <1>2, <1>5
  <2> HIDE DEF From
  <2> QED BY <2>1, <2>2 DEF NoDuplicates
<1> QED BY <1>5, <1>7, <1>8

-----------------------------------------------------------------------------
(* Reference counts.                                                       *)

(* A count of one means that no other configuration has the pointer, and   *)
(* any other count of a pointer that another one has.                      *)
LEMMA RefCountOne ==
  ASSUME TypeOK, NEW c \in Live, NEW t \in Table
  PROVE  RefCount(c, t) = 1 <=>
           /\ ptr[c][t] # NULL
           /\ \A d \in Live : ptr[d][t] = ptr[c][t] => d = c
<1> DEFINE H == Holders(t, ptr[c][t])
<1>1. IsFiniteSet(H)
  BY LiveType, RegistryAssumption, FS_Subset DEF Holders
<1>2. c \in H
  BY DEF Holders
<1>3. Cardinality(H) = 1 <=> \A d \in H : d = c
  <2>1. Cardinality(H) = 1 <=> \E x : H = {x}
    BY <1>1, FS_Singleton
  <2>2. (\E x : H = {x}) <=> \A d \in H : d = c
    BY <1>2
  <2> QED BY <2>1, <2>2
<1>4. (\A d \in H : d = c) <=> \A d \in Live : ptr[d][t] = ptr[c][t] => d = c
  BY DEF Holders
<1> QED BY <1>3, <1>4 DEF RefCount

(* What a call frees on behalf of c is used by no other configuration: it  *)
(* is not the block any counted member of another one points to.           *)
LEMMA FreedUnused ==
  ASSUME TypeOK, WellPlaced,
         NEW c \in Live, NEW d \in Live \ {c},
         NEW T \in SUBSET Counted,
         "blm" \in T => ptr[c]["blm"] # ptr[c]["alm"],
         NEW t \in Counted, ptr[d][t] # NULL
  PROVE  ptr[d][t] \notin LastRef(c, T)
<1> SUFFICES ASSUME NEW u \in T, RefCount(c, u) = 1, ptr[d][t] = ptr[c][u]
             PROVE  FALSE
  BY DEF LastRef
<1>1. t \in Table /\ u \in Table
  BY DEF Table
<1>2. /\ ptr[d][t][1] = t \/ (t = "blm" /\ ptr[d]["blm"] = ptr[d]["alm"])
      /\ ptr[c][u][1] = u \/ (u = "blm" /\ ptr[c]["blm"] = ptr[c]["alm"])
  BY <1>1 DEF WellPlaced
<1>3. ptr[d][u] # ptr[c][u]
  BY <1>1, RefCountOne
<1>4. ptr[c][u][1] = u
  BY <1>2
<1>5. t = "blm" /\ ptr[d]["blm"] = ptr[d]["alm"]
  BY <1>2, <1>3, <1>4
<1>6. "alm" \in Table /\ ptr[d]["alm"] # NULL
  BY <1>5 DEF Table, Counted, Spectral, Recurrence
<1>7. ptr[d]["alm"][1] = "alm"
  BY <1>6 DEF WellPlaced
<1> QED BY <1>3, <1>4, <1>5, <1>7

(* Nor is it the block of a member of c itself that the call does not      *)
(* release.                                                                *)
LEMMA FreedElsewhere ==
  ASSUME TypeOK, WellPlaced,
         NEW c \in Live, NEW T \in SUBSET Gridded,
         NEW t \in Table \ T, ptr[c][t] # NULL
  PROVE  ptr[c][t] \notin LastRef(c, T)
<1> SUFFICES ASSUME NEW u \in T, RefCount(c, u) = 1, ptr[c][t] = ptr[c][u]
             PROVE  FALSE
  BY DEF LastRef
<1>1. u \in Table /\ u \notin Recurrence
  BY DEF Table, Counted, Gridded, Matrices, Recurrence
<1>2. ptr[c][u][1] = u
  BY <1>1 DEF WellPlaced, Recurrence
<1>3. t = "blm" /\ ptr[c]["blm"] = ptr[c]["alm"]
  BY <1>2 DEF WellPlaced
<1>4. ptr[c]["alm"][1] = "alm"
  BY <1>3 DEF WellPlaced, Table, Counted, Spectral, Recurrence
<1> QED BY <1>1, <1>2, <1>3, <1>4 DEF Recurrence

(* A block of a counted member that c does not free stays in use: if c     *)
(* points to it, another configuration does too, in the same member.       *)
LEMMA UnfreedShared ==
  ASSUME TypeOK, NEW c \in Live, NEW T \in SUBSET Counted, NEW t \in T,
         ptr[c][t] # NULL, ptr[c][t] \notin LastRef(c, T)
  PROVE  \E d \in Live \ {c} : ptr[d][t] = ptr[c][t]
<1>1. t \in Table
  BY DEF Table
<1>2. RefCount(c, t) # 1
  BY DEF LastRef
<1> QED BY <1>1, <1>2, RefCountOne

(* malloc returns a free slot of the member it is called for. *)
LEMMA MallocFree ==
  ASSUME NEW t \in Table, NEW freed, FreeSlots(t, freed) # {}
  PROVE  /\ Malloc(t, freed) \in Addr
         /\ Malloc(t, freed)[1] = t
         /\ heap[Malloc(t, freed)] = Free \/ Malloc(t, freed) \in freed
<1> DEFINE s == CHOOSE s \in Slot : s \in FreeSlots(t, freed)
<1>1. \E x \in Slot : x \in FreeSlots(t, freed)
  BY DEF FreeSlots
<1>2. s \in Slot /\ s \in FreeSlots(t, freed)
  BY <1>1
<1>3. heap[<<t, s>>] = Free \/ <<t, s>> \in freed
  BY <1>2 DEF FreeSlots
<1>4. Malloc(t, freed) = <<t, s>>
  BY DEF Malloc
<1> HIDE DEF s
<1> QED BY <1>2, <1>3, <1>4 DEF Addr

-----------------------------------------------------------------------------
(* The invariant and each call.                                            *)

(* With an empty chain and an empty heap there is nothing to break.        *)
LEMMA InitInv == Init => IInv
<1> SUFFICES ASSUME Init PROVE IInv
  OBVIOUS
<1>1. list = <<>> /\ Len(list) = 0
  BY DEF Init
<1>2. Live = {}
  BY <1>1 DEF Live
<1>3. NoHeader \in Content
  BY DEF NoHeader, Content, Norms
<1>4. TypeOK
  <2>1. list \in Seq(Cfg)
    BY <1>1
  <2>2. ptr \in [Cfg -> [Table -> Addr \cup {NULL}]]
    BY DEF Init, NoTables
  <2>3. hdr \in [Cfg -> Content] /\ heap \in [Addr -> Content \cup {Free}]
    BY <1>3 DEF Init
  <2> QED BY <2>1, <2>2, <2>3 DEF Init, TypeOK
<1>5. NoDuplicates
  BY <1>1 DEF NoDuplicates
<1>6. WellPlaced /\ NoDangling /\ TablesSuit /\ GridTablesSuit
      /\ RecurrencePaired
  BY <1>2 DEF WellPlaced, NoDangling, TablesSuit, GridTablesSuit,
              RecurrencePaired
<1>7. NoLeak
  BY DEF Init, NoLeak
<1> QED BY <1>4, <1>5, <1>6, <1>7 DEF IInv

(* shtns_destroy. *)
LEMMA DestroyInv ==
  ASSUME IInv, NEW c \in Cfg, Destroy(c)
  PROVE  IInv'
<1> USE DEF IInv
<1>1. c \in Live /\ c \in Cfg
  BY DEF Destroy
<1>2. list' \in Seq(Cfg) /\ Live' = Live \ {c} /\ NoDuplicates'
  BY <1>1, ChainDrop DEF Destroy
<1>3. \A d \in Live' : d \in Live /\ d \in Cfg /\ d # c /\ ptr'[d] = ptr[d]
                       /\ hdr'[d] = hdr[d]
  BY <1>2, LiveType DEF Destroy, TypeOK
<1> DEFINE T == IF ptr[c]["blm"] = ptr[c]["alm"] THEN Counted \ {"blm"}
                ELSE Counted
<1>4. Released(c) = LastRef(c, T) /\ T \in SUBSET Counted
      /\ ("blm" \in T => ptr[c]["blm"] # ptr[c]["alm"])
  BY DEF Released
<1>5. \A a \in Addr : heap'[a] = IF a \in Released(c) \cup Plan(c)
                                 THEN Free ELSE heap[a]
  BY DEF Destroy, Heap
<1>6. TypeOK'
  <2>1. NoHeader \in Content
    BY DEF NoHeader, Content, Norms
  <2>2. heap' \in [Addr -> Content \cup {Free}]
    BY DEF TypeOK, Destroy, Heap
  <2>3. hdr' \in [Cfg -> Content]
    BY <2>1 DEF TypeOK, Destroy
  <2>4. ptr' \in [Cfg -> [Table -> Addr \cup {NULL}]]
    BY DEF TypeOK, Destroy, NoTables
  <2>5. index' \in SUBSET Cfg /\ mode' \in {"idle", "reset"}
        /\ fault' \in BOOLEAN
    BY DEF TypeOK, Destroy
  <2> QED BY <1>2, <2>2, <2>3, <2>4, <2>5 DEF TypeOK
<1>7. WellPlaced'
  BY <1>3 DEF WellPlaced
<1>8. \A d \in Live', t \in Counted : ptr[d][t] # NULL =>
        ptr[d][t] \in Addr /\ heap'[ptr[d][t]] = heap[ptr[d][t]]
  <2> SUFFICES ASSUME NEW d \in Live', NEW t \in Counted, ptr[d][t] # NULL
               PROVE  ptr[d][t] \in Addr /\ heap'[ptr[d][t]] = heap[ptr[d][t]]
    OBVIOUS
  <2>1. ptr[d][t] \in Addr
    BY <1>3 DEF TypeOK, Table
  <2>2. ptr[d][t] \notin Released(c)
    <3> HIDE DEF T
    <3> QED BY <1>1, <1>3, <1>4, FreedUnused
  <2>3. ptr[d][t] \notin Plan(c)
    <3>1. ptr[d][t][1] \in Counted
      BY <1>3 DEF WellPlaced, Table, Counted, Spectral, Recurrence
    <3>2. ptr[c]["fft_rot"] # NULL => ptr[c]["fft_rot"][1] = "fft_rot"
      BY <1>1 DEF WellPlaced, Table, Uncounted
    <3> QED BY <3>1, <3>2 DEF Plan, Counted, Spectral, Recurrence, Gridded,
                                Matrices
  <2> QED BY <1>5, <2>1, <2>2, <2>3
<1>9. NoDangling'
  BY <1>3, <1>8 DEF NoDangling
<1>10. NoLeak'
  <2> SUFFICES ASSUME NEW a \in Addr, a[1] \in Counted, heap'[a] # Free
               PROVE  \E d \in Live' : ptr'[d][a[1]] = a
    BY DEF NoLeak
  <2>1. heap[a] # Free /\ a \notin Released(c) /\ a # NULL
    BY <1>5, AddressAssumption
  <2>2. PICK d \in Live : ptr[d][a[1]] = a
    BY <2>1 DEF NoLeak
  <2>3. CASE d # c
    BY <1>2, <1>3, <2>2, <2>3
  <2>4. CASE d = c
    <3>1. a[1] \in T
      <4>1. CASE a[1] = "blm" /\ ptr[c]["blm"] = ptr[c]["alm"]
        <5>1. ptr[c]["alm"][1] = "alm"
          BY <1>1, <2>1, <2>2, <2>4, <4>1
             DEF WellPlaced, Table, Counted, Spectral, Recurrence
        <5> QED BY <2>2, <2>4, <4>1, <5>1
      <4> QED BY <4>1
    <3> HIDE DEF T
    <3>2. PICK e \in Live \ {c} : ptr[e][a[1]] = a
      BY <1>1, <1>4, <2>1, <2>2, <2>4, <3>1, UnfreedShared
    <3> QED BY <1>2, <1>3, <3>2
  <2> QED BY <2>3, <2>4
<1>11. TablesSuit' /\ GridTablesSuit'
  <2>1. Spectral \subseteq Counted /\ Gridded \subseteq Counted
    BY DEF Counted
  <2>2. TablesSuit'
    BY <1>3, <1>8, <2>1 DEF TablesSuit
  <2>3. GridTablesSuit'
    BY <1>3, <1>8, <2>1 DEF GridTablesSuit
  <2> QED BY <2>2, <2>3
<1>12. RecurrencePaired'
  BY <1>3 DEF RecurrencePaired
<1> QED BY <1>2, <1>6, <1>7, <1>9, <1>10, <1>11, <1>12

(* Calls that leave the headers, the pointers and the heap, and reorder    *)
(* the chain at most.                                                      *)
LEMMA NoChangeInv ==
  ASSUME IInv, UNCHANGED <<hdr, ptr, heap>>,
         list' \in Seq(Cfg), Live' = Live, NoDuplicates',
         index' \in SUBSET Cfg, mode' \in {"idle", "reset"}, fault' \in BOOLEAN
  PROVE  IInv'
<1>1. TypeOK' /\ WellPlaced'
  BY DEF IInv, TypeOK, WellPlaced
<1>2. NoDangling' /\ NoLeak' /\ TablesSuit' /\ GridTablesSuit'
      /\ RecurrencePaired'
  BY DEF IInv, NoDangling, NoLeak, TablesSuit, GridTablesSuit,
         RecurrencePaired
<1> QED BY <1>1, <1>2 DEF IInv

(* And those that leave the chain, too. *)
LEMMA SameChain ==
  ASSUME IInv, list' = list
  PROVE  list' \in Seq(Cfg) /\ Live' = Live /\ NoDuplicates'
BY DEF IInv, TypeOK, Live, NoDuplicates

(* shtns_unset_grid. *)
LEMMA UnsetGridInv ==
  ASSUME IInv, NEW c \in Cfg, UnsetGrid(c)
  PROVE  IInv'
<1> USE DEF IInv
<1> DEFINE F == LastRef(c, Gridded)
<1>1. c \in Live /\ Live' = Live /\ Live \subseteq Cfg
  BY LiveType DEF UnsetGrid, Live
<1>2. \A d \in Live : d # c => ptr'[d] = ptr[d] /\ hdr'[d] = hdr[d]
  BY <1>1 DEF UnsetGrid, TypeOK
<1>3. /\ hdr'[c] = [hdr[c] EXCEPT !.nlat = 0]
      /\ \A t \in Table : ptr'[c][t] = UnsetTables(c)[t]
  BY <1>1 DEF UnsetGrid, TypeOK
<1>4. \A t \in Table :
        /\ ptr'[c][t] = ptr[c][t] \/ ptr'[c][t] = NULL
        /\ t \notin Gridded => ptr'[c][t] = ptr[c][t]
        /\ ptr'[c][t] # NULL /\ t \in Gridded => RefCount(c, t) # 1
  BY <1>3 DEF UnsetTables, Gridded, Matrices
<1>5. \A a \in Addr : heap'[a] = IF a \in F THEN Free ELSE heap[a]
  BY DEF UnsetGrid, Heap
<1>6. TypeOK'
  <2>1. heap' \in [Addr -> Content \cup {Free}]
    BY DEF TypeOK, UnsetGrid, Heap
  <2>2. hdr' \in [Cfg -> Content]
    BY DEF TypeOK, UnsetGrid, Content
  <2>3. ptr' \in [Cfg -> [Table -> Addr \cup {NULL}]]
    BY DEF TypeOK, UnsetGrid, UnsetTables
  <2> QED BY <2>1, <2>2, <2>3 DEF TypeOK, UnsetGrid
<1>7. NoDuplicates'
  BY DEF UnsetGrid, NoDuplicates
<1>8. WellPlaced'
  <2> SUFFICES ASSUME NEW d \in Live
               PROVE  /\ \A t \in Table : ptr'[d][t] # NULL =>
                           \/ ptr'[d][t][1] = t
                           \/ t = "blm" /\ ptr'[d]["blm"] = ptr'[d]["alm"]
                      /\ \A t \in Recurrence \cup {"li", "l_2"} :
                           ptr'[d][t] # NULL
    BY <1>1 DEF WellPlaced
  <2>1. CASE d # c
    BY <1>2, <2>1 DEF WellPlaced
  <2>2. CASE d = c
    <3>1. \A t \in Recurrence \cup {"li", "l_2"} :
            t \in Table /\ ptr'[c][t] = ptr[c][t]
      BY <1>4 DEF Table, Counted, Spectral, Recurrence, Gridded, Matrices
    <3>2. ptr'[c]["blm"] = ptr[c]["blm"] /\ ptr'[c]["alm"] = ptr[c]["alm"]
      BY <3>1 DEF Recurrence
    <3> QED BY <1>1, <1>4, <2>2, <3>1, <3>2 DEF WellPlaced
  <2> QED BY <2>1, <2>2
<1>9. Gridded \subseteq Counted /\ Spectral \subseteq Counted
      /\ Counted \subseteq Table /\ "blm" \notin Gridded
  BY DEF Counted, Table, Gridded, Matrices
<1>10. \A d \in Live, t \in Counted : ptr'[d][t] # NULL =>
         /\ ptr'[d][t] = ptr[d][t]
         /\ ptr[d][t] \in Addr
         /\ heap'[ptr[d][t]] = heap[ptr[d][t]]
  <2> SUFFICES ASSUME NEW d \in Live, NEW t \in Counted, ptr'[d][t] # NULL
               PROVE  /\ ptr'[d][t] = ptr[d][t]
                      /\ ptr[d][t] \in Addr
                      /\ ptr[d][t] \notin F
    BY <1>5
  <2>1. ptr'[d][t] = ptr[d][t] /\ ptr[d][t] \in Addr
    BY <1>1, <1>2, <1>4, <1>9 DEF TypeOK
  <2>2. CASE d # c
    BY <1>1, <1>9, <2>1, <2>2, FreedUnused
  <2>3. CASE d = c /\ t \notin Gridded
    BY <1>1, <1>9, <2>1, <2>3, FreedElsewhere
  <2>4. CASE d = c /\ t \in Gridded
    <3>1. RefCount(c, t) # 1
      BY <1>4, <1>9, <2>4
    <3>2. PICK e \in Live : e # c /\ ptr[e][t] = ptr[c][t]
      BY <1>1, <1>9, <2>1, <2>4, <3>1, RefCountOne
    <3> QED BY <1>1, <1>9, <2>1, <2>4, <3>2, FreedUnused
  <2> QED BY <2>1, <2>2, <2>3, <2>4
<1>11. NoDangling'
  BY <1>1, <1>10 DEF NoDangling
<1>12. NoLeak'
  <2> SUFFICES ASSUME NEW a \in Addr, a[1] \in Counted, heap'[a] # Free
               PROVE  \E d \in Live : ptr'[d][a[1]] = a
    BY <1>1 DEF NoLeak
  <2>1. heap[a] # Free /\ a \notin F /\ a # NULL
    BY <1>5, AddressAssumption
  <2>2. PICK d \in Live : ptr[d][a[1]] = a
    BY <2>1 DEF NoLeak
  <2>3. CASE d # c
    BY <1>2, <2>2, <2>3
  <2>4. CASE d = c /\ a[1] \notin Gridded
    BY <1>4, <1>9, <2>2, <2>4
  <2>5. CASE d = c /\ a[1] \in Gridded
    <3>1. PICK e \in Live \ {c} : ptr[e][a[1]] = a
      BY <1>1, <1>9, <2>1, <2>2, <2>5, UnfreedShared
    <3> QED BY <1>2, <3>1
  <2> QED BY <2>3, <2>4, <2>5
<1>13. TablesSuit'
  <2> SUFFICES ASSUME NEW d \in Live, NEW t \in Spectral, ptr'[d][t] # NULL
               PROVE  Suits(t, heap'[ptr'[d][t]], hdr'[d])
    BY <1>1 DEF TablesSuit
  <2>1. Suits(t, heap[ptr[d][t]], hdr[d])
    BY <1>9, <1>10 DEF TablesSuit
  <2>2. hdr'[d].lmax = hdr[d].lmax /\ hdr'[d].mmax = hdr[d].mmax
        /\ hdr'[d].mres = hdr[d].mres /\ hdr'[d].norm = hdr[d].norm
    <3>1. CASE d # c
      BY <1>2, <3>1
    <3>2. CASE d = c
      <4>1. hdr[c] \in Content
        BY DEF TypeOK
      <4> QED BY <1>3, <3>2, <4>1 DEF Content
    <3> QED BY <3>1, <3>2
  <2>3. heap'[ptr'[d][t]] = heap[ptr[d][t]]
    BY <1>9, <1>10
  <2> QED BY <2>1, <2>2, <2>3 DEF Suits, SameIndex
<1>14. GridTablesSuit'
  <2> SUFFICES ASSUME NEW d \in Live, NEW t \in Gridded, hdr'[d].nlat > 0,
                      ptr'[d][t] # NULL
               PROVE  /\ SameIndex(heap'[ptr'[d][t]], hdr'[d])
                      /\ heap'[ptr'[d][t]].norm = hdr'[d].norm
                      /\ heap'[ptr'[d][t]].nlat = hdr'[d].nlat
    BY <1>1 DEF GridTablesSuit
  <2>1. d # c
    BY <1>1, <1>3 DEF TypeOK, Content
  <2>2. heap'[ptr'[d][t]] = heap[ptr[d][t]] /\ ptr[d][t] # NULL
    BY <1>9, <1>10
  <2> QED BY <1>2, <2>1, <2>2 DEF GridTablesSuit
<1>15. RecurrencePaired'
  <2>1. \A d \in Live : ptr'[d]["alm"] = ptr[d]["alm"]
                        /\ ptr'[d]["blm"] = ptr[d]["blm"]
    BY <1>2, <1>4 DEF Table, Counted, Spectral, Recurrence, Gridded, Matrices
  <2> QED BY <1>1, <2>1 DEF RecurrencePaired
<1> QED BY <1>6, <1>7, <1>8, <1>11, <1>12, <1>13, <1>14, <1>15

(* shtns_set_grid_auto. *)
LEMMA SetGridInv ==
  ASSUME IInv, NEW c \in Cfg, NEW g \in Grids, NEW kept \in SUBSET Matrices,
         SetGrid(c, g, kept)
  PROVE  IInv'
<1> USE DEF IInv
<1> DEFINE F == LastRef(c, Gridded)
           need == GridNeeds(g, kept)
           new == {Malloc(t, F) : t \in need}
           content == ContentOf(hdr[c], g.nlat)
<1>1. c \in Live /\ Live' = Live /\ Live \subseteq Cfg
  BY LiveType DEF SetGrid, Live
<1>2. \A d \in Live : d # c => ptr'[d] = ptr[d] /\ hdr'[d] = hdr[d]
  BY <1>1 DEF SetGrid, TypeOK
<1>3. Gridded \subseteq Counted /\ Spectral \subseteq Counted
      /\ Counted \subseteq Table /\ "blm" \notin Gridded
      /\ Spectral \cap Gridded = {} /\ Counted = Spectral \cup Gridded
  BY DEF Counted, Table, Spectral, Recurrence, Gridded, Matrices
<1>4. need \subseteq Gridded \cup {"mx", "fftc"} /\ need \cap Spectral = {}
      /\ need \subseteq Table
  BY DEF GridNeeds, Gridded, Matrices, Spectral, Recurrence, Table, Counted,
         Uncounted
<1>5. /\ hdr'[c] = [hdr[c] EXCEPT !.nlat = g.nlat]
      /\ \A t \in Table : ptr'[c][t] = GridTables(c, need, F)[t]
  BY <1>1 DEF SetGrid, TypeOK
<1>6. \A t \in need : /\ Malloc(t, F) \in Addr
                      /\ Malloc(t, F)[1] = t
                      /\ heap[Malloc(t, F)] = Free \/ Malloc(t, F) \in F
  BY <1>4, MallocFree DEF SetGrid
<1>7. \A t \in Table :
        ptr'[c][t] = IF t \in need THEN Malloc(t, F)
                     ELSE IF t \in Gridded THEN NULL ELSE ptr[c][t]
  <2> HIDE DEF need, F
  <2> QED BY <1>5 DEF GridTables
<1>8. \A a \in Addr : heap'[a] = IF a \in new THEN content
                                 ELSE IF a \in F THEN Free ELSE heap[a]
  BY DEF SetGrid, Heap
<1>9. hdr[c] \in Content /\ content \in Content
      /\ g.nlat \in Nat /\ g.nlat > 0
  BY RegistryAssumption DEF TypeOK, ContentOf, Content, GridType
<1>10. TypeOK'
  <2>1. heap' \in [Addr -> Content \cup {Free}]
    <3> HIDE DEF content, new, F
    <3>1. heap' = Heap(F, new, content)
      BY DEF SetGrid, F, new, content, need
    <3> QED BY <1>9, <3>1 DEF TypeOK, Heap
  <2>2. hdr' \in [Cfg -> Content]
    BY <1>9 DEF TypeOK, SetGrid, Content
  <2>3. ptr' \in [Cfg -> [Table -> Addr \cup {NULL}]]
    <3> HIDE DEF need, F
    <3>1. GridTables(c, need, F) \in [Table -> Addr \cup {NULL}]
      BY <1>6 DEF GridTables, TypeOK
    <3>2. ptr' = [ptr EXCEPT ![c] = GridTables(c, need, F)]
      BY DEF SetGrid, need, F
    <3> QED BY <3>1, <3>2 DEF TypeOK
  <2> QED BY <2>1, <2>2, <2>3 DEF TypeOK, SetGrid
<1> HIDE DEF F, need, content
<1>11. NoDuplicates'
  BY DEF SetGrid, NoDuplicates
<1>12. WellPlaced'
  <2> SUFFICES ASSUME NEW d \in Live
               PROVE  /\ \A t \in Table : ptr'[d][t] # NULL =>
                           \/ ptr'[d][t][1] = t
                           \/ t = "blm" /\ ptr'[d]["blm"] = ptr'[d]["alm"]
                      /\ \A t \in Recurrence \cup {"li", "l_2"} :
                           ptr'[d][t] # NULL
    BY <1>1 DEF WellPlaced
  <2>1. CASE d # c
    BY <1>2, <2>1 DEF WellPlaced
  <2>2. CASE d = c
    <3>1. \A t \in Recurrence \cup {"li", "l_2"} :
            t \in Table /\ ptr'[c][t] = ptr[c][t]
      BY <1>3, <1>4, <1>7 DEF Spectral
    <3>2. ptr'[c]["blm"] = ptr[c]["blm"] /\ ptr'[c]["alm"] = ptr[c]["alm"]
      BY <3>1 DEF Recurrence
    <3> QED BY <1>1, <1>6, <1>7, <2>2, <3>1, <3>2 DEF WellPlaced
  <2> QED BY <2>1, <2>2
<1>13. \A d \in Live, t \in Counted :
         (d # c \/ t \notin Gridded) /\ ptr'[d][t] # NULL =>
           /\ ptr'[d][t] = ptr[d][t]
           /\ ptr[d][t] \in Addr
           /\ heap'[ptr[d][t]] = heap[ptr[d][t]]
  <2> SUFFICES ASSUME NEW d \in Live, NEW t \in Counted,
                      d # c \/ t \notin Gridded, ptr'[d][t] # NULL
               PROVE  /\ ptr'[d][t] = ptr[d][t]
                      /\ ptr[d][t] \in Addr
                      /\ heap'[ptr[d][t]] = heap[ptr[d][t]]
    OBVIOUS
  <2>1. ptr'[d][t] = ptr[d][t] /\ ptr[d][t] \in Addr
    <3>1. CASE d # c
      BY <1>1, <1>2, <1>3, <3>1 DEF TypeOK
    <3>2. CASE d = c /\ t \notin Gridded
      BY <1>1, <1>3, <1>4, <1>7, <3>2 DEF TypeOK
    <3> QED BY <3>1, <3>2
  <2>2. ptr[d][t] \notin F
    <3>1. CASE d # c
      BY <1>1, <1>3, <2>1, <3>1, FreedUnused DEF F
    <3>2. CASE d = c /\ t \notin Gridded
      BY <1>1, <1>3, <2>1, <3>2, FreedElsewhere DEF F
    <3> QED BY <3>1, <3>2
  <2>3. heap[ptr[d][t]] # Free
    BY <2>1 DEF NoDangling
  <2>4. ptr[d][t] \notin new
    BY <1>6, <2>2, <2>3
  <2> QED BY <1>8, <2>1, <2>2, <2>4
<1>14. \A t \in Gridded : ptr'[c][t] # NULL =>
         ptr'[c][t] \in Addr /\ heap'[ptr'[c][t]] = content
  <2> SUFFICES ASSUME NEW t \in Gridded, ptr'[c][t] # NULL
               PROVE  ptr'[c][t] \in Addr /\ heap'[ptr'[c][t]] = content
    OBVIOUS
  <2>1. t \in need /\ ptr'[c][t] = Malloc(t, F)
    BY <1>3, <1>7
  <2> QED BY <1>6, <1>8, <2>1
<1>15. NoDangling'
  <2> SUFFICES ASSUME NEW d \in Live, NEW t \in Counted, ptr'[d][t] # NULL
               PROVE  heap'[ptr'[d][t]] # Free
    BY <1>1 DEF NoDangling
  <2>1. CASE d # c \/ t \notin Gridded
    BY <1>13, <2>1 DEF NoDangling
  <2>2. CASE d = c /\ t \in Gridded
    BY <1>9, <1>14, <2>2, AddressAssumption
  <2> QED BY <2>1, <2>2
<1>16. NoLeak'
  <2> SUFFICES ASSUME NEW a \in Addr, a[1] \in Counted, heap'[a] # Free
               PROVE  \E d \in Live : ptr'[d][a[1]] = a
    BY <1>1 DEF NoLeak
  <2>1. CASE a \in new
    <3>1. PICK t \in need : a = Malloc(t, F)
      BY <2>1
    <3>2. t \in Table /\ a[1] = t
      BY <1>4, <1>6, <3>1
    <3> QED BY <1>1, <1>7, <3>1, <3>2
  <2>2. CASE a \notin new
    <3>1. heap[a] # Free /\ a \notin F /\ a # NULL
      BY <1>8, <2>2, AddressAssumption
    <3>2. PICK d \in Live : ptr[d][a[1]] = a
      BY <3>1 DEF NoLeak
    <3>3. CASE d # c
      BY <1>2, <3>2, <3>3
    <3>4. CASE d = c /\ a[1] \notin Gridded
      BY <1>3, <1>4, <1>7, <3>2, <3>4
    <3>5. CASE d = c /\ a[1] \in Gridded
      <4>1. PICK e \in Live \ {c} : ptr[e][a[1]] = a
        BY <1>1, <1>3, <3>1, <3>2, <3>5, UnfreedShared DEF F
      <4> QED BY <1>2, <4>1
    <3> QED BY <3>3, <3>4, <3>5
  <2> QED BY <2>1, <2>2
<1>17. \A d \in Live : /\ hdr'[d].lmax = hdr[d].lmax
                       /\ hdr'[d].mmax = hdr[d].mmax
                       /\ hdr'[d].mres = hdr[d].mres
                       /\ hdr'[d].norm = hdr[d].norm
  <2> SUFFICES ASSUME NEW d \in Live
               PROVE  /\ hdr'[d].lmax = hdr[d].lmax
                      /\ hdr'[d].mmax = hdr[d].mmax
                      /\ hdr'[d].mres = hdr[d].mres
                      /\ hdr'[d].norm = hdr[d].norm
    OBVIOUS
  <2>1. CASE d # c
    BY <1>2, <2>1
  <2>2. CASE d = c
    BY <1>5, <1>9, <2>2 DEF Content
  <2> QED BY <2>1, <2>2
<1>18. TablesSuit'
  <2> SUFFICES ASSUME NEW d \in Live, NEW t \in Spectral, ptr'[d][t] # NULL
               PROVE  Suits(t, heap'[ptr'[d][t]], hdr'[d])
    BY <1>1 DEF TablesSuit
  <2>1. heap'[ptr'[d][t]] = heap[ptr[d][t]] /\ ptr[d][t] # NULL
    BY <1>3, <1>13
  <2>2. Suits(t, heap[ptr[d][t]], hdr[d])
    BY <2>1 DEF TablesSuit
  <2> QED BY <1>17, <2>1, <2>2 DEF Suits, SameIndex
<1>19. GridTablesSuit'
  <2> SUFFICES ASSUME NEW d \in Live, NEW t \in Gridded, hdr'[d].nlat > 0,
                      ptr'[d][t] # NULL
               PROVE  /\ SameIndex(heap'[ptr'[d][t]], hdr'[d])
                      /\ heap'[ptr'[d][t]].norm = hdr'[d].norm
                      /\ heap'[ptr'[d][t]].nlat = hdr'[d].nlat
    BY <1>1 DEF GridTablesSuit
  <2>1. CASE d # c
    <3>1. heap'[ptr'[d][t]] = heap[ptr[d][t]] /\ ptr[d][t] # NULL
      BY <1>3, <1>13, <2>1
    <3> QED BY <1>2, <2>1, <3>1 DEF GridTablesSuit
  <2>2. CASE d = c
    <3>1. heap'[ptr'[d][t]] = content
      BY <1>14, <2>2
    <3>2. hdr'[c].nlat = g.nlat
      BY <1>5, <1>9 DEF Content
    <3>3. content.lmax = hdr[c].lmax /\ content.mmax = hdr[c].mmax
          /\ content.mres = hdr[c].mres /\ content.norm = hdr[c].norm
          /\ content.nlat = g.nlat
      BY DEF content, ContentOf
    <3>4. hdr[c].mmax \in Nat
      BY <1>9 DEF Content
    <3> QED BY <1>17, <2>2, <3>1, <3>2, <3>3, <3>4 DEF SameIndex
  <2> QED BY <2>1, <2>2
<1>20. RecurrencePaired'
  <2>1. \A d \in Live : ptr'[d]["alm"] = ptr[d]["alm"]
                        /\ ptr'[d]["blm"] = ptr[d]["blm"]
    <3>1. {"alm", "blm"} \subseteq Spectral
      BY DEF Spectral, Recurrence
    <3> QED BY <1>2, <1>3, <1>4, <1>7, <3>1
  <2> QED BY <1>1, <2>1 DEF RecurrencePaired
<1> QED BY <1>10, <1>11, <1>12, <1>15, <1>16, <1>18, <1>19, <1>20

(* The scan of shtns_create: a configuration of the chain that suits, or   *)
(* NULL exactly when there is none.                                        *)
LEMMA DonorLive ==
  ASSUME TypeOK, NEW D \in SUBSET Live, NEW d \in Donor(D)
  PROVE  d # NULL => d \in D /\ d \in Cfg
BY LiveType, RegistryAssumption DEF Donor, LastOf

(* shtns_create. *)
LEMMA CreateInv ==
  ASSUME IInv, NEW c \in Cfg, NEW s \in Sizes, Create(c, s)
  PROVE  IInv'
<1> USE DEF IInv
<1>1. PICK di \in Donor(IndexDonors(s)), dr \in Donor(RecurrenceDonors(s)),
           dl \in Donor(DegreeDonors(s)) :
        /\ c \in Cfg \ Live
        /\ \A t \in ToAllocate(s, di, dr, dl) : FreeSlots(t, {}) # {}
        /\ heap' = Heap({}, {Malloc(t, {}) : t \in ToAllocate(s, di, dr, dl)},
                        ContentOf(s, 0))
        /\ ptr' = [ptr EXCEPT ![c] = CreatedTables(s, di, dr, dl)]
        /\ hdr' = [hdr EXCEPT ![c] = ContentOf(s, 0)]
        /\ index' = IF di = NULL \/ di \in index THEN index \cup {c}
                    ELSE index
        /\ list' = <<c>> \o list
        /\ UNCHANGED <<mode, fault>>
  BY DEF Create
<1> DEFINE need == ToAllocate(s, di, dr, dl)
           new == {Malloc(t, {}) : t \in need}
           content == ContentOf(s, 0)
           made == CreatedTables(s, di, dr, dl)
<1>2. list' \in Seq(Cfg) /\ Live' = Live \cup {c} /\ NoDuplicates'
  BY <1>1, ChainPush
<1>3. \A d \in Live : d \in Cfg /\ d # c /\ ptr'[d] = ptr[d] /\ hdr'[d] = hdr[d]
  BY <1>1, LiveType DEF TypeOK
<1>4. /\ di # NULL => di \in IndexDonors(s) /\ di \in Live
      /\ dr # NULL => dr \in RecurrenceDonors(s) /\ dr \in IndexDonors(s)
                      /\ dr \in Live
      /\ dl # NULL => dl \in DegreeDonors(s) /\ dl \in Live
  <2>1. IndexDonors(s) \subseteq Live /\ DegreeDonors(s) \subseteq Live
        /\ RecurrenceDonors(s) \subseteq IndexDonors(s)
    BY DEF IndexDonors, DegreeDonors, RecurrenceDonors
  <2> QED BY <1>1, <2>1, DonorLive
<1>5. need \subseteq Spectral \cup {"fft_rot"} /\ need \subseteq Table
  BY DEF ToAllocate, Spectral, Recurrence, Table, Counted, Uncounted
<1>6. \A t \in need : /\ Malloc(t, {}) \in Addr
                      /\ Malloc(t, {})[1] = t
                      /\ heap[Malloc(t, {})] = Free
  BY <1>1, <1>5, MallocFree
<1>7. s \in SizeType /\ content \in Content
  BY RegistryAssumption DEF ContentOf, Content, SizeType
<1>8. content.lmax = s.lmax /\ content.mmax = s.mmax /\ content.mres = s.mres
      /\ content.norm = s.norm /\ content.nlat = 0
  BY DEF ContentOf
<1>9. \A a \in Addr : heap'[a] = IF a \in new THEN content ELSE heap[a]
  BY <1>1 DEF Heap
<1>10. /\ ptr'[c] = made
       /\ hdr'[c] = content
  BY <1>1 DEF TypeOK
<1>11. /\ made["li"] = IF di = NULL THEN Malloc("li", {}) ELSE ptr[di]["li"]
       /\ made["alm"] = IF dr = NULL THEN Malloc("alm", {})
                                     ELSE ptr[dr]["alm"]
       /\ made["blm"] = IF dr # NULL THEN ptr[dr]["blm"]
                        ELSE IF TwoRecurrences(s.norm) THEN Malloc("blm", {})
                        ELSE Malloc("alm", {})
       /\ made["l_2"] = IF dl = NULL THEN Malloc("l_2", {})
                                     ELSE ptr[dl]["l_2"]
       /\ \A t \in {"ct_rot", "fft_rot"} :
            made[t] = IF Triangular(s) THEN Malloc(t, {}) ELSE NULL
       /\ \A t \in Table \ {"li", "alm", "blm", "l_2", "ct_rot", "fft_rot"} :
            made[t] = NULL
  BY DEF CreatedTables, Table, Counted, Uncounted, Spectral, Recurrence
<1>12. /\ di = NULL => "li" \in need
       /\ dr = NULL => "alm" \in need
       /\ dr = NULL /\ TwoRecurrences(s.norm) => "blm" \in need
       /\ dl = NULL => "l_2" \in need
       /\ Triangular(s) => "ct_rot" \in need /\ "fft_rot" \in need
  BY DEF ToAllocate, Recurrence
<1>13. \A t \in need : made[t] = Malloc(t, {})
  <2>1. \A t \in need : \/ t = "li" /\ di = NULL
                        \/ t = "alm" /\ dr = NULL
                        \/ t = "blm" /\ dr = NULL /\ TwoRecurrences(s.norm)
                        \/ t = "l_2" /\ dl = NULL
                        \/ t \in {"ct_rot", "fft_rot"} /\ Triangular(s)
    BY DEF ToAllocate, Recurrence
  <2> HIDE DEF made, need
  <2> QED BY <1>11, <2>1
<1> HIDE DEF need, made, content
<1>14. \A d \in Live, t \in Counted : ptr[d][t] # NULL =>
         /\ ptr[d][t] \in Addr
         /\ heap[ptr[d][t]] # Free
         /\ heap'[ptr[d][t]] = heap[ptr[d][t]]
         /\ ptr[d][t] \notin new
  <2> SUFFICES ASSUME NEW d \in Live, NEW t \in Counted, ptr[d][t] # NULL
               PROVE  /\ ptr[d][t] \in Addr
                      /\ heap[ptr[d][t]] # Free
                      /\ heap'[ptr[d][t]] = heap[ptr[d][t]]
                      /\ ptr[d][t] \notin new
    OBVIOUS
  <2>1. ptr[d][t] \in Addr
    BY <1>3 DEF TypeOK, Table
  <2>2. heap[ptr[d][t]] # Free
    BY DEF NoDangling
  <2>3. ptr[d][t] \notin new
    BY <1>6, <2>2
  <2> QED BY <1>9, <2>1, <2>2, <2>3
<1>15. \A t \in need : heap'[Malloc(t, {})] = content
  BY <1>6, <1>9
<1>16. "li" \in Table /\ "alm" \in Table /\ "blm" \in Table /\ "l_2" \in Table
       /\ "li" \in Spectral /\ "alm" \in Spectral /\ "blm" \in Spectral
       /\ "l_2" \in Spectral /\ Spectral \subseteq Counted
       /\ Counted \subseteq Table
       /\ Spectral = {"li", "alm", "blm", "l_2", "ct_rot"}
  BY DEF Table, Counted, Spectral, Recurrence
<1>17. \A d \in Live : \A t \in {"li", "alm", "blm", "l_2"} : ptr[d][t] # NULL
  BY DEF WellPlaced, Recurrence
<1>18. TypeOK'
  <2>1. heap' \in [Addr -> Content \cup {Free}]
    <3> HIDE DEF new
    <3>1. heap' = Heap({}, new, content)
      BY <1>1 DEF new, need, content
    <3> QED BY <1>7, <3>1 DEF TypeOK, Heap
  <2>2. hdr' \in [Cfg -> Content]
    BY <1>1, <1>7 DEF TypeOK, content
  <2>3. made \in [Table -> Addr \cup {NULL}]
    <3>1. \A t \in Table : made[t] \in Addr \cup {NULL}
      <4> SUFFICES ASSUME NEW t \in Table PROVE made[t] \in Addr \cup {NULL}
        OBVIOUS
      <4>1. CASE t = "li"
        BY <1>4, <1>6, <1>11, <1>12, <1>14, <1>16, <1>17, <4>1
      <4>2. CASE t = "alm"
        BY <1>4, <1>6, <1>11, <1>12, <1>14, <1>16, <1>17, <4>2
      <4>3. CASE t = "blm"
        BY <1>4, <1>6, <1>11, <1>12, <1>14, <1>16, <1>17, <4>3
      <4>4. CASE t = "l_2"
        BY <1>4, <1>6, <1>11, <1>12, <1>14, <1>16, <1>17, <4>4
      <4>5. CASE t \notin {"li", "alm", "blm", "l_2"}
        BY <1>6, <1>11, <1>12, <4>5
      <4> QED BY <4>1, <4>2, <4>3, <4>4, <4>5
    <3> QED BY <3>1 DEF made, CreatedTables
  <2>4. ptr' \in [Cfg -> [Table -> Addr \cup {NULL}]]
    BY <1>1, <2>3 DEF TypeOK, made
  <2>5. index' \in SUBSET Cfg
    BY <1>1 DEF TypeOK
  <2> QED BY <1>1, <1>2, <2>1, <2>2, <2>4, <2>5 DEF TypeOK
<1>19. WellPlaced'
  <2>1. ASSUME NEW t \in Table, made[t] # NULL
        PROVE  made[t][1] = t \/ (t = "blm" /\ made["blm"] = made["alm"])
    <3>1. CASE t = "li"
      BY <1>4, <1>6, <1>11, <1>12, <1>16, <1>17, <3>1 DEF WellPlaced
    <3>2. CASE t = "alm"
      BY <1>4, <1>6, <1>11, <1>12, <1>16, <1>17, <3>2 DEF WellPlaced
    <3>3. CASE t = "blm"
      BY <1>4, <1>6, <1>11, <1>12, <1>16, <1>17, <3>3 DEF WellPlaced
    <3>4. CASE t = "l_2"
      BY <1>4, <1>6, <1>11, <1>12, <1>16, <1>17, <3>4 DEF WellPlaced
    <3>5. CASE t \notin {"li", "alm", "blm", "l_2"}
      BY <1>6, <1>11, <1>12, <2>1, <3>5
    <3> QED BY <3>1, <3>2, <3>3, <3>4, <3>5
  <2>2. \A t \in {"li", "alm", "blm", "l_2"} : made[t] # NULL
    BY <1>4, <1>6, <1>11, <1>12, <1>17, AddressAssumption
  <2>3. \A d \in Live' : d = c \/ d \in Live
    BY <1>2
  <2>4. Recurrence \cup {"li", "l_2"} = {"li", "alm", "blm", "l_2"}
    BY DEF Recurrence
  <2> QED BY <1>3, <1>10, <2>1, <2>2, <2>3, <2>4 DEF WellPlaced
<1>20. ASSUME NEW t \in Spectral, made[t] # NULL
       PROVE  /\ heap'[made[t]] # Free
              /\ Suits(t, heap'[made[t]], content)
  <2> USE <1>7, <1>8, AddressAssumption DEF SizeType
  <2>1. content # Free /\ SameIndex(content, content)
    BY DEF SameIndex
  <2>2. Suits(t, content, content)
    BY <2>1 DEF Suits
  <2>3. t \in need => heap'[made[t]] # Free /\ heap'[made[t]] = content
    BY <1>13, <1>15, <2>1
  <2>4. \A d \in Live : hdr[d] \in Content
    BY <1>3 DEF TypeOK
  <2>5. \A d \in Live, u \in Counted : ptr[d][u] # NULL =>
          heap[ptr[d][u]] \in Content
    BY <1>14 DEF TypeOK
  <2>6. CASE t = "li"
    <3>1. CASE di # NULL
      <4>1. heap'[made[t]] = heap[ptr[di]["li"]] /\ heap[ptr[di]["li"]] # Free
            /\ heap[ptr[di]["li"]] \in Content
        BY <1>4, <1>11, <1>14, <1>16, <1>17, <2>5, <2>6, <3>1
      <4>2. SameIndex(heap[ptr[di]["li"]], hdr[di])
        <5>1. Suits("li", heap[ptr[di]["li"]], hdr[di])
          BY <1>4, <1>16, <1>17, <3>1 DEF TablesSuit
        <5> QED BY <5>1 DEF Suits, Recurrence
      <4>3. hdr[di].mmax >= s.mmax /\ hdr[di].mres = s.mres
            /\ hdr[di].lmax = s.lmax
        BY <1>4, <3>1 DEF IndexDonors
      <4>4. SameIndex(heap[ptr[di]["li"]], content)
        BY <1>4, <2>4, <3>1, <4>1, <4>2, <4>3 DEF SameIndex, Content
      <4> QED BY <2>6, <4>1, <4>4 DEF Suits, Recurrence
    <3>2. CASE di = NULL
      BY <1>12, <2>2, <2>3, <2>6, <3>2
    <3> QED BY <3>1, <3>2
  <2>7. CASE t \in Recurrence
    <3>1. CASE dr # NULL
      <4>1. t = "alm" \/ t = "blm"
        BY <2>7 DEF Recurrence
      <4>2. made[t] = ptr[dr][t]
        BY <1>11, <3>1, <4>1
      <4>3. heap'[made[t]] = heap[ptr[dr][t]] /\ heap[ptr[dr][t]] # Free
            /\ heap[ptr[dr][t]] \in Content
        BY <1>4, <1>14, <1>16, <1>17, <2>5, <3>1, <4>1, <4>2
      <4>4. SameIndex(heap[ptr[dr][t]], hdr[dr])
            /\ heap[ptr[dr][t]].norm = hdr[dr].norm
        <5>1. Suits(t, heap[ptr[dr][t]], hdr[dr])
          BY <1>4, <1>16, <1>17, <3>1, <4>1 DEF TablesSuit
        <5> QED BY <4>1, <5>1 DEF Suits, Recurrence
      <4>5. hdr[dr].mmax >= s.mmax /\ hdr[dr].mres = s.mres
            /\ hdr[dr].lmax = s.lmax /\ hdr[dr].norm = s.norm
        BY <1>4, <3>1 DEF IndexDonors, RecurrenceDonors
      <4>6. SameIndex(heap[ptr[dr][t]], content)
        BY <1>4, <2>4, <3>1, <4>3, <4>4, <4>5 DEF SameIndex, Content
      <4> QED BY <4>1, <4>3, <4>4, <4>5, <4>6 DEF Suits, Recurrence
    <3>2. CASE dr = NULL /\ t \in need
      BY <2>2, <2>3, <3>2
    <3>3. CASE dr = NULL /\ t \notin need
      <4>1. t = "blm" /\ made[t] = Malloc("alm", {}) /\ "alm" \in need
        BY <1>11, <1>12, <2>7, <3>3 DEF Recurrence
      <4>2. heap'[made[t]] = content
        BY <1>15, <4>1
      <4> QED BY <2>1, <2>2, <4>2
    <3> QED BY <3>1, <3>2, <3>3
  <2>8. CASE t = "l_2"
    <3>1. CASE dl # NULL
      <4>1. heap'[made[t]] = heap[ptr[dl]["l_2"]] /\ heap[ptr[dl]["l_2"]] # Free
            /\ heap[ptr[dl]["l_2"]] \in Content
        BY <1>4, <1>11, <1>14, <1>16, <1>17, <2>5, <2>8, <3>1
      <4>2. heap[ptr[dl]["l_2"]].lmax >= hdr[dl].lmax
        <5>1. Suits("l_2", heap[ptr[dl]["l_2"]], hdr[dl])
          BY <1>4, <1>16, <1>17, <3>1 DEF TablesSuit
        <5> QED BY <5>1 DEF Suits, Recurrence
      <4>3. hdr[dl].lmax >= s.lmax
        BY <1>4, <3>1 DEF DegreeDonors
      <4>4. heap[ptr[dl]["l_2"]].lmax >= content.lmax
        BY <1>4, <2>4, <3>1, <4>1, <4>2, <4>3 DEF Content
      <4> QED BY <2>8, <4>1, <4>4 DEF Suits, Recurrence
    <3>2. CASE dl = NULL
      BY <1>12, <2>2, <2>3, <2>8, <3>2
    <3> QED BY <3>1, <3>2
  <2>9. CASE t = "ct_rot"
    <3>1. t \in need
      BY <1>11, <1>12, <1>20, <2>9
    <3> QED BY <2>2, <2>3, <3>1
  <2> QED BY <1>16, <2>6, <2>7, <2>8, <2>9 DEF Recurrence
<1>21. \A t \in Gridded : made[t] = NULL
  BY <1>11 DEF Gridded, Matrices, Table, Counted
<1>22. Counted = Spectral \cup Gridded
  BY DEF Counted
<1>23. NoDangling'
  <2> SUFFICES ASSUME NEW d \in Live', NEW t \in Counted, ptr'[d][t] # NULL
               PROVE  heap'[ptr'[d][t]] # Free
    BY DEF NoDangling
  <2>1. CASE d = c
    BY <1>10, <1>20, <1>21, <1>22, <2>1
  <2>2. CASE d \in Live
    BY <1>3, <1>14, <2>2
  <2> QED BY <1>2, <2>1, <2>2
<1>24. NoLeak'
  <2> SUFFICES ASSUME NEW a \in Addr, a[1] \in Counted, heap'[a] # Free
               PROVE  \E d \in Live' : ptr'[d][a[1]] = a
    BY DEF NoLeak
  <2>1. CASE a \in new
    <3>1. PICK t \in need : a = Malloc(t, {})
      BY <2>1
    <3>2. a[1] = t /\ made[t] = a
      BY <1>6, <1>13, <3>1
    <3> QED BY <1>2, <1>10, <3>2
  <2>2. CASE a \notin new
    <3>1. heap[a] # Free
      BY <1>9, <2>2
    <3>2. PICK d \in Live : ptr[d][a[1]] = a
      BY <3>1 DEF NoLeak
    <3> QED BY <1>2, <1>3, <3>2
  <2> QED BY <2>1, <2>2
<1>25. TablesSuit'
  <2> SUFFICES ASSUME NEW d \in Live', NEW t \in Spectral, ptr'[d][t] # NULL
               PROVE  Suits(t, heap'[ptr'[d][t]], hdr'[d])
    BY DEF TablesSuit
  <2>1. CASE d = c
    BY <1>10, <1>20, <2>1
  <2>2. CASE d \in Live
    <3>1. ptr'[d] = ptr[d] /\ hdr'[d] = hdr[d]
          /\ heap'[ptr[d][t]] = heap[ptr[d][t]] /\ ptr[d][t] # NULL
      BY <1>3, <1>14, <1>16, <2>2
    <3>2. Suits(t, heap[ptr[d][t]], hdr[d])
      BY <2>2, <3>1 DEF TablesSuit
    <3> QED BY <3>1, <3>2
  <2> QED BY <1>2, <2>1, <2>2
<1>26. GridTablesSuit'
  <2> SUFFICES ASSUME NEW d \in Live', NEW t \in Gridded, hdr'[d].nlat > 0,
                      ptr'[d][t] # NULL
               PROVE  /\ SameIndex(heap'[ptr'[d][t]], hdr'[d])
                      /\ heap'[ptr'[d][t]].norm = hdr'[d].norm
                      /\ heap'[ptr'[d][t]].nlat = hdr'[d].nlat
    BY DEF GridTablesSuit
  <2>1. d \in Live
    BY <1>2, <1>10, <1>21
  <2>2. ptr'[d] = ptr[d] /\ hdr'[d] = hdr[d]
        /\ heap'[ptr[d][t]] = heap[ptr[d][t]] /\ ptr[d][t] # NULL
    BY <1>3, <1>14, <1>22, <2>1
  <2> QED BY <2>1, <2>2 DEF GridTablesSuit
<1>27. RecurrencePaired'
  <2>1. ASSUME NEW d \in Live
        PROVE  (made["alm"] = ptr[d]["alm"]) <=> (made["blm"] = ptr[d]["blm"])
    <3>1. CASE dr # NULL
      BY <1>4, <1>11, <3>1 DEF RecurrencePaired
    <3>2. CASE dr = NULL
      <4>1. made["alm"] \in new /\ made["blm"] \in new
        BY <1>11, <1>12, <3>2
      <4>2. ptr[d]["alm"] \notin new /\ ptr[d]["blm"] \notin new
        BY <1>14, <1>16, <1>17
      <4> QED BY <4>1, <4>2
    <3> QED BY <3>1, <3>2
  <2>2. \A d \in Live' : d = c \/ d \in Live
    BY <1>2
  <2> QED BY <1>3, <1>10, <2>1, <2>2 DEF RecurrencePaired
<1> QED BY <1>2, <1>18, <1>19, <1>23, <1>24, <1>25, <1>26, <1>27
(* shtns_create_with_grid: the copy refers to the blocks of its base. *)
LEMMA CreateWithGridInv ==
  ASSUME IInv, NEW c \in Cfg, NEW base \in Cfg, NEW mmax \in 0..hdr[base].mmax,
         CreateWithGrid(c, base, mmax)
  PROVE  IInv'
<1> USE DEF IInv
<1>1. CASE mmax < hdr[base].mmax
  <2>1. index' \in SUBSET Cfg /\ mode' \in {"idle", "reset"}
        /\ fault' \in BOOLEAN
    BY <1>1 DEF CreateWithGrid, TypeOK
  <2> QED BY <1>1, <2>1, NoChangeInv, SameChain DEF CreateWithGrid
<1>2. CASE ~(mmax < hdr[base].mmax)
  <2>1. /\ c \in Cfg \ Live /\ base \in Live
        /\ list' = <<c>> \o list
        /\ hdr' = [hdr EXCEPT ![c] = hdr[base]]
        /\ ptr' = [ptr EXCEPT ![c] = ptr[base]]
        /\ UNCHANGED <<heap, index, mode, fault>>
    BY <1>2 DEF CreateWithGrid
  <2>2. list' \in Seq(Cfg) /\ Live' = Live \cup {c} /\ NoDuplicates'
    BY <2>1, ChainPush
  <2>3. ptr'[c] = ptr[base] /\ hdr'[c] = hdr[base]
    BY <2>1 DEF TypeOK
  <2>4. \A d \in Live : ptr'[d] = ptr[d] /\ hdr'[d] = hdr[d]
    BY <2>1, LiveType DEF TypeOK
  <2>5. \A d \in Live' : \E e \in Live :
          ptr'[d] = ptr[e] /\ hdr'[d] = hdr[e]
    BY <2>1, <2>2, <2>3, <2>4
  <2>6. TypeOK'
    BY <2>1, <2>2 DEF TypeOK
  <2>7. WellPlaced'
    BY <2>5 DEF WellPlaced
  <2>8. NoDangling' /\ TablesSuit'
    BY <2>1, <2>5 DEF NoDangling, TablesSuit
  <2>9. GridTablesSuit'
    BY <2>1, <2>5 DEF GridTablesSuit
  <2>10. NoLeak'
    BY <2>1, <2>2, <2>4 DEF NoLeak
  <2>11. RecurrencePaired'
    BY <2>5 DEF RecurrencePaired
  <2> QED BY <2>2, <2>6, <2>7, <2>8, <2>9, <2>10, <2>11
<1> QED BY <1>1, <1>2

(* Every step of the program keeps the invariant. *)
LEMMA NextInv == IInv /\ [Next]_vars => IInv'
<1> SUFFICES ASSUME IInv, [Next]_vars PROVE IInv'
  OBVIOUS
<1>1. index \in SUBSET Cfg /\ mode \in {"idle", "reset"} /\ fault \in BOOLEAN
  BY DEF IInv, TypeOK
<1>2. CASE Call
  <2>1. CASE \E c \in Cfg, s \in Sizes : Create(c, s)
    BY <2>1, CreateInv
  <2>2. CASE \E c, base \in Cfg : \E mmax \in 0..hdr[base].mmax :
               CreateWithGrid(c, base, mmax)
    BY <2>2, CreateWithGridInv
  <2>3. CASE \E c \in Cfg, g \in Grids, kept \in SUBSET Matrices :
               SetGrid(c, g, kept)
    BY <2>3, SetGridInv
  <2>4. CASE \E c \in Cfg : SetGridMisled(c)
    BY <1>1, <2>4, NoChangeInv, SameChain DEF SetGridMisled
  <2>5. CASE \E c \in Cfg : UnsetGrid(c)
    BY <2>5, UnsetGridInv
  <2>6. CASE \E c \in Cfg : Destroy(c)
    BY <2>6, DestroyInv
  <2>7. CASE \E c \in Cfg : LoadCfg(c)
    BY <1>1, <2>7, NoChangeInv, ChainFront DEF LoadCfg, IInv
  <2> QED BY <1>2, <2>1, <2>2, <2>3, <2>4, <2>5, <2>6, <2>7 DEF Call
<1>3. CASE BeginReset \/ EndReset
  BY <1>1, <1>3, NoChangeInv, SameChain DEF BeginReset, EndReset
<1>4. CASE ResetStep
  <2>1. list[1] \in Cfg
    BY <1>4, LiveType DEF ResetStep, Destroy, IInv
  <2> QED BY <1>4, <2>1, DestroyInv DEF ResetStep
<1>5. CASE UNCHANGED vars
  BY <1>1, <1>5, NoChangeInv, SameChain DEF vars
<1> QED BY <1>2, <1>3, <1>4, <1>5 DEF Next

(* Whatever the calls and their order, the invariant holds. *)
THEOREM RegistryInvariant == Spec => []IInv
<1>1. Init => IInv
  BY InitInv
<1>2. IInv /\ [Next]_vars => IInv'
  BY NextInv
<1> QED BY <1>1, <1>2, PTL DEF Spec

(* The state is well typed. *)
THEOREM RegistryTypeOK == Spec => []TypeOK
<1>1. IInv => TypeOK
  BY DEF IInv
<1> QED BY <1>1, RegistryInvariant, PTL

(* shtns_create, shtns_create_with_grid, shtns_set_grid, shtns_unset_grid  *)
(* and shtns_destroy never leave a configuration of the chain with a       *)
(* pointer, in a member released through ref_count, to a freed table.      *)
THEOREM TablesStayAllocated == Spec => []NoDangling
<1>1. IInv => NoDangling
  BY DEF IInv
<1> QED BY <1>1, RegistryInvariant, PTL

(* And they lose none of these tables: the last configuration that refers  *)
(* to one frees it.                                                        *)
THEOREM TablesAreFreed == Spec => []NoLeak
<1>1. IInv => NoLeak
  BY DEF IInv
<1> QED BY <1>1, RegistryInvariant, PTL

(* The tables that shtns_create shares were computed for sizes and a       *)
(* normalization that suit the configuration that uses them.               *)
THEOREM SharedTablesSuit == Spec => []TablesSuit
<1>1. IInv => TablesSuit
  BY DEF IInv
<1> QED BY <1>1, RegistryInvariant, PTL

(* A configuration with a grid computes with tables made for that grid,    *)
(* although the configurations it shares them with may change theirs.      *)
THEOREM GridsDoNotMix == Spec => []GridTablesSuit
<1>1. IInv => GridTablesSuit
  BY DEF IInv
<1> QED BY <1>1, RegistryInvariant, PTL

-----------------------------------------------------------------------------
(* The registry implements the pool.                                       *)

(* A call made on behalf of c leaves the other configurations in the       *)
(* chain, their pointers, and the blocks these point to.                   *)
KeepsOthers(c) ==
  /\ Live' \ {c} = Live \ {c}
  /\ \A d \in Live \ {c} :
       /\ ptr'[d] = ptr[d]
       /\ \A t \in Counted : ptr[d][t] # NULL =>
            heap'[ptr[d][t]] = heap[ptr[d][t]]

(* A call that changes only blocks that are free, that c alone refers to   *)
(* or that are not counted keeps the blocks of the other configurations.   *)
LEMMA BlockKept ==
  ASSUME IInv, NEW c \in Live, NEW T \in SUBSET Counted,
         "blm" \in T => ptr[c]["blm"] # ptr[c]["alm"],
         \A a \in Addr : \/ heap'[a] = heap[a]
                         \/ heap[a] = Free
                         \/ a \in LastRef(c, T)
                         \/ a[1] \notin Counted,
         NEW d \in Live \ {c}, NEW t \in Counted, ptr[d][t] # NULL
  PROVE  heap'[ptr[d][t]] = heap[ptr[d][t]]
<1> DEFINE a == ptr[d][t]
<1>1. t \in Table /\ Recurrence \subseteq Counted
  BY DEF Table, Counted, Spectral
<1>2. a \in Addr /\ heap[a] # Free
  BY <1>1, LiveType DEF IInv, TypeOK, NoDangling
<1>3. a \notin LastRef(c, T)
  BY FreedUnused DEF IInv
<1>4. a[1] \in Counted
  BY <1>1 DEF IInv, WellPlaced, Recurrence, Table, Counted, Spectral
<1> QED BY <1>2, <1>3, <1>4

(* shtns_create only allocates, and only the new configuration refers.     *)
LEMMA CreateKeeps ==
  ASSUME IInv, NEW c \in Cfg, NEW s \in Sizes, Create(c, s)
  PROVE  KeepsOthers(c)
<1>1. PICK di \in Donor(IndexDonors(s)), dr \in Donor(RecurrenceDonors(s)),
           dl \in Donor(DegreeDonors(s)) :
        /\ c \in Cfg \ Live
        /\ \A t \in ToAllocate(s, di, dr, dl) : FreeSlots(t, {}) # {}
        /\ heap' = Heap({}, {Malloc(t, {}) : t \in ToAllocate(s, di, dr, dl)},
                        ContentOf(s, 0))
        /\ ptr' = [ptr EXCEPT ![c] = CreatedTables(s, di, dr, dl)]
        /\ list' = <<c>> \o list
  BY DEF Create
<1> DEFINE need == ToAllocate(s, di, dr, dl)
<1>2. Live' = Live \cup {c}
  BY <1>1, ChainPush DEF IInv
<1>3. \A d \in Live \ {c} : ptr'[d] = ptr[d]
  BY <1>1, LiveType DEF IInv, TypeOK
<1>4. need \subseteq Table
  BY DEF ToAllocate, Recurrence, Table, Counted, Spectral, Uncounted
<1> HIDE DEF need
<1>5. \A t \in need : heap[Malloc(t, {})] = Free
  BY <1>1, <1>4, MallocFree DEF need
<1>6. ASSUME NEW d \in Live, NEW t \in Counted, ptr[d][t] # NULL
      PROVE  heap'[ptr[d][t]] = heap[ptr[d][t]]
  <2>1. ptr[d][t] \in Addr /\ heap[ptr[d][t]] # Free
    <3>1. t \in Table /\ d \in Cfg
      BY LiveType DEF IInv, Table
    <3> QED BY <1>6, <3>1 DEF IInv, TypeOK, NoDangling
  <2>2. heap' = Heap({}, {Malloc(u, {}) : u \in need}, ContentOf(s, 0))
    BY <1>1 DEF need
  <2> QED BY <1>5, <2>1, <2>2 DEF Heap
<1> QED BY <1>1, <1>2, <1>3, <1>6 DEF KeepsOthers

(* shtns_set_grid_auto frees what its configuration alone refers to.       *)
LEMMA SetGridKeeps ==
  ASSUME IInv, NEW c \in Cfg, NEW g \in Grids, NEW kept \in SUBSET Matrices,
         SetGrid(c, g, kept)
  PROVE  KeepsOthers(c)
<1> DEFINE F == LastRef(c, Gridded)
           need == GridNeeds(g, kept)
           new == {Malloc(t, F) : t \in need}
<1>1. c \in Live /\ Live' = Live
  BY DEF SetGrid, Live
<1>2. \A d \in Live \ {c} : ptr'[d] = ptr[d]
  BY LiveType DEF SetGrid, IInv, TypeOK
<1>3. need \subseteq Table /\ Gridded \subseteq Counted /\ "blm" \notin Gridded
  BY DEF GridNeeds, Gridded, Matrices, Table, Counted, Uncounted
<1>4. \A a \in new : heap[a] = Free \/ a \in F
  <2>1. \A t \in need : FreeSlots(t, F) # {}
    BY DEF SetGrid
  <2> HIDE DEF F, need
  <2> QED BY <1>3, <2>1, MallocFree
<1>5. \A a \in Addr : heap'[a] = heap[a] \/ heap[a] = Free \/ a \in F
  <2>1. heap' = Heap(F, new, ContentOf(hdr[c], g.nlat))
    BY DEF SetGrid
  <2> HIDE DEF F, new
  <2> QED BY <1>4, <2>1 DEF Heap
<1>6. \A d \in Live \ {c}, t \in Counted : ptr[d][t] # NULL =>
        heap'[ptr[d][t]] = heap[ptr[d][t]]
  BY <1>1, <1>3, <1>5, BlockKept
<1> QED BY <1>1, <1>2, <1>6 DEF KeepsOthers

(* So does shtns_unset_grid.                                               *)
LEMMA UnsetGridKeeps ==
  ASSUME IInv, NEW c \in Cfg, UnsetGrid(c)
  PROVE  KeepsOthers(c)
<1>1. c \in Live /\ Live' = Live
  BY DEF UnsetGrid, Live
<1>2. \A d \in Live \ {c} : ptr'[d] = ptr[d]
  BY LiveType DEF UnsetGrid, IInv, TypeOK
<1>3. Gridded \subseteq Counted /\ "blm" \notin Gridded
  BY DEF Gridded, Matrices, Counted
<1>4. \A a \in Addr : heap'[a] = heap[a] \/ a \in LastRef(c, Gridded)
  BY DEF UnsetGrid, Heap
<1>5. \A d \in Live \ {c}, t \in Counted : ptr[d][t] # NULL =>
        heap'[ptr[d][t]] = heap[ptr[d][t]]
  BY <1>1, <1>3, <1>4, BlockKept
<1> QED BY <1>1, <1>2, <1>5 DEF KeepsOthers

(* And shtns_destroy, for the tables released through ref_count.           *)
LEMMA DestroyKeeps ==
  ASSUME IInv, NEW c \in Cfg, Destroy(c)
  PROVE  KeepsOthers(c)
<1> DEFINE T == IF ptr[c]["blm"] = ptr[c]["alm"] THEN Counted \ {"blm"}
                ELSE Counted
<1>1. c \in Live /\ Live' = Live \ {c}
  BY ChainDrop DEF Destroy, IInv
<1>2. \A d \in Live \ {c} : ptr'[d] = ptr[d]
  BY LiveType DEF Destroy, IInv, TypeOK
<1>3. T \in SUBSET Counted /\ ("blm" \in T => ptr[c]["blm"] # ptr[c]["alm"])
  OBVIOUS
<1>4. \A a \in Addr :
        heap'[a] = heap[a] \/ a \in LastRef(c, T) \/ a \in Plan(c)
  BY DEF Destroy, Released, Heap
<1>5. \A a \in Plan(c) : a[1] \notin Counted
  <2>1. ptr[c]["fft_rot"] # NULL => ptr[c]["fft_rot"][1] = "fft_rot"
    BY <1>1 DEF IInv, WellPlaced, Table, Uncounted
  <2> QED BY <2>1 DEF Plan, Counted, Spectral, Recurrence, Gridded, Matrices
<1> HIDE DEF T
<1>6. \A d \in Live \ {c}, t \in Counted : ptr[d][t] # NULL =>
        heap'[ptr[d][t]] = heap[ptr[d][t]]
  BY <1>1, <1>3, <1>4, <1>5, BlockKept
<1> QED BY <1>1, <1>2, <1>6 DEF KeepsOthers

(* A step on behalf of c that keeps the others is a step of the pool. *)
LEMMA PoolStep ==
  ASSUME IInv, IInv', NEW c \in Cfg, KeepsOthers(c)
  PROVE  Pool!Step(c)
<1> DEFINE h == [b \in CountedAddr |-> Holders(b[1], b)]
<1>1. Live \subseteq Cfg /\ Live' \subseteq Cfg
  <2>1. Live \subseteq Cfg
    BY LiveType DEF IInv
  <2>2. Live' \subseteq Cfg
    BY DEF IInv, TypeOK, Live
  <2> QED BY <2>1, <2>2
<1>2. \A b \in CountedAddr : b \in Addr /\ b[1] \in Counted /\ b # NULL
  BY AddressAssumption DEF CountedAddr, Addr, Table
<1>3. h' \in [CountedAddr -> SUBSET Cfg]
  BY <1>1 DEF Holders
<1>4. [a \in CountedAddr |-> heap[a]]' \in [CountedAddr -> Content \cup {Free}]
  BY <1>2 DEF IInv, TypeOK
<1>5. ASSUME NEW b \in CountedAddr
      PROVE  /\ Holders(b[1], b)' \ {c} = Holders(b[1], b) \ {c}
             /\ (heap'[b] = Free) <=> (Holders(b[1], b)' = {})
             /\ Holders(b[1], b) \ {c} # {} => heap'[b] = heap[b]
  <2>1. Holders(b[1], b)' \ {c} = Holders(b[1], b) \ {c}
    BY DEF KeepsOthers, Holders
  <2>2. heap'[b] = Free => Holders(b[1], b)' = {}
    BY <1>2 DEF IInv, NoDangling, Holders
  <2>3. Holders(b[1], b)' = {} => heap'[b] = Free
    BY <1>2 DEF IInv, NoLeak, Holders
  <2>4. Holders(b[1], b) \ {c} # {} => heap'[b] = heap[b]
    BY <1>2 DEF KeepsOthers, Holders
  <2> QED BY <2>1, <2>2, <2>3, <2>4
<1> QED BY <1>3, <1>4, <1>5 DEF Pool!Step

(* The calls that change neither the configurations of the chain, nor the  *)
(* pointers, nor the heap                                                  *)
(* leave the pool as it is.                                                *)
LEMMA PoolStutter ==
  ASSUME Live' = Live, UNCHANGED <<ptr, heap>>
  PROVE  UNCHANGED Pool!vars
BY DEF Pool!vars, Holders

(* Every step of the program is a step of the pool, or leaves it as it is. *)
LEMMA PoolNext ==
  ASSUME IInv, IInv', [Next]_vars
  PROVE  [Pool!Next]_(Pool!vars)
<1>1. ASSUME NEW c \in Cfg, KeepsOthers(c) PROVE Pool!Next
  BY <1>1, PoolStep DEF Pool!Next
<1>2. CASE Call
  <2>1. CASE \E c \in Cfg, s \in Sizes : Create(c, s)
    BY <1>1, <2>1, CreateKeeps
  <2>2. ASSUME NEW c \in Cfg, NEW base \in Cfg,
               NEW mmax \in 0..hdr[base].mmax, CreateWithGrid(c, base, mmax)
        PROVE  [Pool!Next]_(Pool!vars)
    <3>1. CASE mmax < hdr[base].mmax
      BY <2>2, <3>1, PoolStutter, SameChain DEF CreateWithGrid
    <3>2. CASE ~(mmax < hdr[base].mmax)
      <4>1. KeepsOthers(c)
        BY <2>2, <3>2, ChainPush, LiveType
           DEF CreateWithGrid, KeepsOthers, IInv, TypeOK
      <4> QED BY <1>1, <4>1
    <3> QED BY <3>1, <3>2
  <2>3. CASE \E c \in Cfg, g \in Grids, kept \in SUBSET Matrices :
               SetGrid(c, g, kept)
    BY <1>1, <2>3, SetGridKeeps
  <2>4. CASE \E c \in Cfg : SetGridMisled(c)
    BY <2>4, PoolStutter, SameChain DEF SetGridMisled
  <2>5. CASE \E c \in Cfg : UnsetGrid(c)
    BY <1>1, <2>5, UnsetGridKeeps
  <2>6. CASE \E c \in Cfg : Destroy(c)
    BY <1>1, <2>6, DestroyKeeps
  <2>7. CASE \E c \in Cfg : LoadCfg(c)
    BY <2>7, PoolStutter, ChainFront DEF LoadCfg, IInv
  <2> QED BY <1>2, <2>1, <2>2, <2>3, <2>4, <2>5, <2>6, <2>7 DEF Call
<1>3. CASE BeginReset \/ EndReset
  BY <1>3, PoolStutter, SameChain DEF BeginReset, EndReset
<1>4. CASE ResetStep
  <2>1. list[1] \in Cfg
    BY <1>4, LiveType DEF ResetStep, Destroy, IInv
  <2> QED BY <1>1, <1>4, <2>1, DestroyKeeps DEF ResetStep
<1>5. CASE UNCHANGED vars
  BY <1>5, PoolStutter, SameChain DEF vars
<1> QED BY <1>2, <1>3, <1>4, <1>5 DEF Next

(* The registry implements the pool of tables: although nothing counts     *)
(* references, no call ever disturbs a counted table that another          *)
(* configuration refers to, and such a table is allocated exactly while a  *)
(* configuration of the chain refers to it.                                *)
THEOREM RegistryImplementsPool == Spec => PoolSpec
<1>1. Init => Pool!Init
  <2> SUFFICES ASSUME Init PROVE Pool!Init
    OBVIOUS
  <2>1. Live = {}
    BY DEF Init, Live
  <2>2. \A b \in CountedAddr : b \in Addr
    BY DEF CountedAddr, Addr, Table
  <2> QED BY <2>1, <2>2 DEF Init, Pool!Init, Holders
<1>2. IInv /\ IInv' /\ [Next]_vars => [Pool!Next]_(Pool!vars)
  BY PoolNext
<1> QED BY <1>1, <1>2, RegistryInvariant, PTL DEF Spec, PoolSpec, Pool!Spec
=============================================================================
