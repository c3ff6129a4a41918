---------------------------- MODULE ShtRegistry ----------------------------
(***************************************************************************)
(* The registry of transform configurations of SHTns (sht_init.c).         *)
(*                                                                         *)
(* Every configuration is a malloc'ed struct linked into the chain that    *)
(* starts at sht_data.  shtns_create takes the tables of an older          *)
(* configuration when they suit the new one, shtns_create_with_grid copies *)
(* every pointer of its base, and there is no reference counter: ref_count *)
(* scans the chain and counts the configurations that hold the same        *)
(* pointer in the same member.  This module models the chain, the table    *)
(* pointers of every configuration, the heap blocks they point to with     *)
(* what these blocks were computed for, and the calls that change them.    *)
(*                                                                         *)
(* Block addresses are pairs <<member, slot>>: two members never compete   *)
(* for an address, which loses nothing as ref_count compares one member    *)
(* only.  Within a member, and for the structs themselves, an address that *)
(* was freed is reused at once.                                            *)
(***************************************************************************)
EXTENDS Integers, Sequences, FiniteSets

CONSTANTS
  Cfg,        \* addresses malloc may return for a struct shtns_info
  Slot,       \* addresses malloc may return for one member
  NULL,       \* the null pointer
  Free,       \* the content of a block that is not allocated
  Sizes,      \* arguments of shtns_create: [lmax, mmax, mres, norm]
  Grids,      \* arguments of shtns_set_grid: [nlat, nphi, fly, vect, quick]
  MayCopy     \* whether the program calls shtns_create_with_grid

Norms == {"orthonormal", "fourpi", "schmidt", "real"}

SizeType == [lmax : Nat, mmax : Nat, mres : Nat, norm : Norms]
GridType == [nlat : Nat \ {0}, nphi : Nat \ {0}, fly : BOOLEAN,
             vect : BOOLEAN, quick : BOOLEAN]

ASSUME RegistryAssumption ==
  /\ IsFiniteSet(Cfg)
  /\ NULL \notin Cfg
  /\ Sizes \subseteq SizeType
  /\ Grids \subseteq GridType
  /\ MayCopy \in BOOLEAN

(* The members of shtns_info that point to a block of their own.           *)
Recurrence == {"alm", "blm"}
Spectral == Recurrence \cup {"li", "l_2", "ct_rot"}
Matrices == {"ylm", "dylm", "zlm", "dzlm"}
Gridded == Matrices \cup {"wg", "ct", "fft"}
Counted == Spectral \cup Gridded        \* released through ref_count
Uncounted == {"fft_rot", "mx", "fftc"}  \* released blindly, or never
Table == Counted \cup Uncounted

Addr == Table \X Slot

(* What a block was computed for: a size, and a grid when it has one.      *)
Content == [lmax : Nat, mmax : Nat, mres : Nat, norm : Norms, nlat : Nat]

ASSUME AddressAssumption == NULL \notin Addr /\ Free \notin Content

VARIABLES
  list,       \* the chain of configurations, head (sht_data) first
  hdr,        \* header of each configuration: the Content it stands for
  ptr,        \* ptr[c][t]: pointer held by configuration c in member t
  heap,       \* heap[a]: what block a was computed for, or Free
  index,      \* configurations that read their own offsets through lmidx
  mode,       \* "reset" inside the loop of shtns_reset, else "idle"
  fault       \* a call had undefined behaviour: nothing is known any more

vars == <<list, hdr, ptr, heap, index, mode, fault>>

NoTables == [t \in Table |-> NULL]
NoHeader == [lmax |-> 0, mmax |-> 0, mres |-> 1, norm |-> "orthonormal",
             nlat |-> 0]

Init ==
  /\ list = <<>>
  /\ hdr = [c \in Cfg |-> NoHeader]
  /\ ptr = [c \in Cfg |-> NoTables]
  /\ heap = [a \in Addr |-> Free]
  /\ index = {}
  /\ mode = "idle"
  /\ fault = FALSE

-----------------------------------------------------------------------------
(* Reference counts.                                                       *)

Live == {list[i] : i \in 1..Len(list)}

(* Definitions named M... are slips the checks must notice: each is put in *)
(* place of the definition that follows it.                                *)
MHolders(t, p) ==
  {d \in {list[i] : i \in 1..(Len(list) - 1)} : ptr[d][t] = p}

(* The configurations whose member t is the pointer p. *)
Holders(t, p) == {d \in Live : ptr[d][t] = p}

(* ref_count(shtns, &shtns->t): 0 for a null pointer. *)
RefCount(c, t) ==
  IF ptr[c][t] = NULL THEN 0 ELSE Cardinality(Holders(t, ptr[c][t]))

MLastRef(c, T) == {ptr[c][t] : t \in {u \in T : RefCount(c, u) >= 1}}

(* The blocks of the members T that c alone refers to, and may free. *)
LastRef(c, T) == {ptr[c][t] : t \in {u \in T : RefCount(c, u) = 1}}

(* malloc: some slot that is free, or freed earlier in the same call. *)
FreeSlots(t, freed) ==
  {s \in Slot : heap[<<t, s>>] = Free \/ <<t, s>> \in freed}
Malloc(t, freed) == <<t, CHOOSE s \in Slot : s \in FreeSlots(t, freed)>>

(* The heap after the blocks of freed are freed and then those of new are  *)
(* allocated and filled for content.                                       *)
Heap(freed, new, content) ==
  [a \in Addr |-> IF a \in new THEN content
                  ELSE IF a \in freed THEN Free ELSE heap[a]]

-----------------------------------------------------------------------------
(* shtns_create.                                                           *)

(* legendre_precomp makes a second recurrence table for analysis only when *)
(* the normalization needs it; otherwise blm is the same block as alm.     *)
TwoRecurrences(norm) == norm \in {"schmidt", "real"}

MIndexDonors(s) ==
  {d \in Live : hdr[d].mmax >= s.mmax /\ hdr[d].mres = s.mres}

(* The scan of the chain: whose tables suit a configuration of size s. *)
IndexDonors(s) ==
  {d \in Live : hdr[d].mmax >= s.mmax /\ hdr[d].mres = s.mres
                /\ hdr[d].lmax = s.lmax}
RecurrenceDonors(s) == {d \in IndexDonors(s) : hdr[d].norm = s.norm}
DegreeDonors(s) == {d \in Live : hdr[d].lmax >= s.lmax}

(* The scan overwrites its choice at every match: the last one stays. *)
Position(c) == CHOOSE i \in 1..Len(list) : list[i] = c
LastOf(D) == {d \in D : \A e \in D : Position(e) <= Position(d)}
Donor(D) == IF D = {} THEN {NULL} ELSE LastOf(D)

Triangular(s) == s.lmax = s.mmax /\ s.mres = 1

(* Members that a new configuration of size s must allocate, its indices,  *)
(* recurrence and degree tables coming from di, dr and dl if not null.     *)
ToAllocate(s, di, dr, dl) ==
  (IF di = NULL THEN {"li"} ELSE {})
    \cup (IF dr # NULL THEN {}
          ELSE IF TwoRecurrences(s.norm) THEN Recurrence ELSE {"alm"})
    \cup (IF dl = NULL THEN {"l_2"} ELSE {})
    \cup (IF Triangular(s) THEN {"ct_rot", "fft_rot"} ELSE {})

ContentOf(s, nlat) ==
  [lmax |-> s.lmax, mmax |-> s.mmax, mres |-> s.mres, norm |-> s.norm,
   nlat |-> nlat]

(* The pointers of the new configuration, given the same donors. *)
CreatedTables(s, di, dr, dl) ==
  LET new(t) == Malloc(t, {})
  IN  [t \in Table |->
         CASE t = "li"  -> IF di = NULL THEN new("li") ELSE ptr[di]["li"]
           [] t = "alm" -> IF dr = NULL THEN new("alm") ELSE ptr[dr]["alm"]
           [] t = "blm" -> IF dr # NULL THEN ptr[dr]["blm"]
                           ELSE IF TwoRecurrences(s.norm) THEN new("blm")
                           ELSE new("alm")
           [] t = "l_2" -> IF dl = NULL THEN new("l_2") ELSE ptr[dl]["l_2"]
           [] t \in {"ct_rot", "fft_rot"} ->
                IF Triangular(s) THEN new(t) ELSE NULL
           [] OTHER -> NULL]

Create(c, s) ==
  \E di \in Donor(IndexDonors(s)), dr \in Donor(RecurrenceDonors(s)),
     dl \in Donor(DegreeDonors(s)) :
    LET need == ToAllocate(s, di, dr, dl)
    IN  /\ c \in Cfg \ Live
        /\ s.lmax >= 2 /\ s.mres > 0 /\ s.mmax * s.mres <= s.lmax
        /\ \A t \in need : FreeSlots(t, {}) # {}
        /\ heap' = Heap({}, {Malloc(t, {}) : t \in need}, ContentOf(s, 0))
        /\ ptr' = [ptr EXCEPT ![c] = CreatedTables(s, di, dr, dl)]
        /\ hdr' = [hdr EXCEPT ![c] = ContentOf(s, 0)]
        /\ index' = IF di = NULL \/ di \in index THEN index \cup {c}
                    ELSE index
        /\ list' = <<c>> \o list
        /\ UNCHANGED <<mode, fault>>

(* shtns_create_with_grid: every member is copied.  The new lmidx is       *)
(* ((int* )shtns)+1, inside the header, where nothing has stored offsets;  *)
(* a smaller mmax makes the call write there, over the sizes.              *)
CreateWithGrid(c, base, mmax) ==
  /\ MayCopy
  /\ c \in Cfg \ Live
  /\ base \in Live
  /\ mmax <= hdr[base].mmax        \* else the call returns NULL
  /\ IF mmax < hdr[base].mmax
     THEN fault' = TRUE /\ UNCHANGED <<list, hdr, ptr>>
     ELSE /\ list' = <<c>> \o list
          /\ hdr' = [hdr EXCEPT ![c] = hdr[base]]
          /\ ptr' = [ptr EXCEPT ![c] = ptr[base]]
          /\ UNCHANGED fault
  /\ UNCHANGED <<heap, index, mode>>

-----------------------------------------------------------------------------
(* shtns_unset_grid and shtns_set_grid_auto.                               *)

MUnsetTables(c) ==
  [t \in Table |->
     IF t \in {"ct", "fft"} \/ (t \in Matrices /\ RefCount(c, t) = 1)
     THEN NULL ELSE ptr[c][t]]

(* free_unused leaves a shared matrix pointer in place; the pointers to    *)
(* nodes, weights and plans are cleared whether or not they were freed.    *)
UnsetTables(c) ==
  [t \in Table |->
     IF t \in Gridded \ Matrices \/ (t \in Matrices /\ RefCount(c, t) = 1)
     THEN NULL ELSE ptr[c][t]]

UnsetGrid(c) ==
  /\ c \in Live
  /\ heap' = Heap(LastRef(c, Gridded), {}, Free)
  /\ ptr' = [ptr EXCEPT ![c] = UnsetTables(c)]
  /\ hdr' = [hdr EXCEPT ![c].nlat = 0]
  /\ UNCHANGED <<list, index, mode, fault>>

(* The matrices alloc_SHTarrays makes. *)
MatricesOf(g) ==
  IF g.fly THEN {} ELSE IF g.vect THEN Matrices ELSE {"ylm", "zlm"}

(* Members filled by shtns_set_grid_auto: nodes and weights, the complex   *)
(* plans unless there is one meridian, the real plans unless on the fly,   *)
(* the couplings of the vector transforms, and the matrices that           *)
(* free_unused_matrices keeps.                                             *)
GridNeeds(g, kept) ==
  {"ct", "wg"} \cup kept
    \cup (IF g.vect THEN {"mx"} ELSE {})
    \cup (IF g.nphi > 1 THEN {"fftc"} ELSE {})
    \cup (IF g.nphi > 1 /\ ~g.fly THEN {"fft"} ELSE {})

MGridTables(c, need, freed) ==
  [t \in Table |-> IF t \in need THEN Malloc(t, freed)
                   ELSE IF t \in Gridded \ Matrices \/ RefCount(c, t) = 1
                   THEN NULL ELSE ptr[c][t]]

GridTables(c, need, freed) ==
  [t \in Table |-> IF t \in need THEN Malloc(t, freed)
                   ELSE IF t \in Gridded THEN NULL ELSE ptr[c][t]]

(* Which matrices the timings of choose_best_sht leave in use is not known *)
(* in advance; without timings (quick_init) all of them are kept.  The     *)
(* grid checks that stop the program are the guards.                       *)
SetGrid(c, g, kept) ==
  LET freed == LastRef(c, Gridded)
      need == GridNeeds(g, kept)
  IN  /\ c \in Live
      /\ g.nlat > hdr[c].lmax /\ g.nphi > 2 * hdr[c].mmax
      /\ kept \subseteq MatricesOf(g)
      /\ g.quick => kept = MatricesOf(g)
      /\ c \in index
      /\ \A t \in need : FreeSlots(t, freed) # {}
      /\ heap' = Heap(freed, {Malloc(t, freed) : t \in need},
                      ContentOf(hdr[c], g.nlat))
      /\ ptr' = [ptr EXCEPT ![c] = GridTables(c, need, freed)]
      /\ hdr' = [hdr EXCEPT ![c].nlat = g.nlat]
      /\ UNCHANGED <<list, index, mode, fault>>

(* The polar optimization of a copy writes tm[] over its own header, and   *)
(* a configuration that took its offsets from a copy computes with them.   *)
SetGridMisled(c) ==
  /\ c \in Live \ index
  /\ fault' = TRUE
  /\ UNCHANGED <<list, hdr, ptr, heap, index, mode>>

-----------------------------------------------------------------------------
(* shtns_destroy and shtns_reset.                                          *)

MWithout(c) ==
  LET p == Position(c)
  IN  IF p = 1 THEN list
      ELSE [i \in 1..(Len(list) - 1) |-> IF i < p THEN list[i] ELSE list[i + 1]]

Without(c) ==
  LET p == Position(c)
  IN  [i \in 1..(Len(list) - 1) |-> IF i < p THEN list[i] ELSE list[i + 1]]

MReleased(c) == LastRef(c, Counted \ {"blm"})

(* blm is skipped when it is the block of alm. *)
Released(c) ==
  LET T == IF ptr[c]["blm"] = ptr[c]["alm"] THEN Counted \ {"blm"} ELSE Counted
  IN  LastRef(c, T)

(* The plan of the rotations is destroyed whoever else refers to it. *)
Plan(c) == {ptr[c]["fft_rot"]} \ {NULL}

Destroy(c) ==
  /\ c \in Live
  /\ heap' = Heap(Released(c) \cup Plan(c), {}, Free)
  /\ fault' = \E a \in Plan(c) : heap[a] = Free
  /\ list' = Without(c)
  /\ ptr' = [ptr EXCEPT ![c] = NoTables]
  /\ hdr' = [hdr EXCEPT ![c] = NoHeader]
  /\ index' = index \ {c}
  /\ UNCHANGED mode

BeginReset ==
  /\ mode = "idle"
  /\ mode' = "reset"
  /\ UNCHANGED <<list, hdr, ptr, heap, index, fault>>

ResetStep ==
  /\ mode = "reset"
  /\ list # <<>>
  /\ Destroy(list[1])

EndReset ==
  /\ mode = "reset"
  /\ list = <<>>
  /\ mode' = "idle"
  /\ UNCHANGED <<list, hdr, ptr, heap, index, fault>>

(* shtns_load_cfg: a saved configuration moves to the front of the chain,  *)
(* where Fortran programs have their current one.  Every configuration has *)
(* once been there, so any may have been saved; one that has left the      *)
(* chain is not found.                                                     *)
LoadCfg(c) ==
  /\ c \in Live
  /\ list' = <<c>> \o Without(c)
  /\ UNCHANGED <<hdr, ptr, heap, index, mode, fault>>

-----------------------------------------------------------------------------
(* The program makes one call at a time, in any order its arguments allow. *)
Call ==
  \/ \E c \in Cfg, s \in Sizes : Create(c, s)
  \/ \E c, base \in Cfg : \E mmax \in 0..hdr[base].mmax :
       CreateWithGrid(c, base, mmax)
  \/ \E c \in Cfg, g \in Grids, kept \in SUBSET Matrices : SetGrid(c, g, kept)
  \/ \E c \in Cfg : SetGridMisled(c)
  \/ \E c \in Cfg : UnsetGrid(c)
  \/ \E c \in Cfg : Destroy(c)
  \/ \E c \in Cfg : LoadCfg(c)

Next ==
  /\ ~fault
  /\ \/ mode = "idle" /\ Call
     \/ BeginReset
     \/ ResetStep
     \/ EndReset

Spec == Init /\ [][Next]_vars

(* The loop of shtns_reset is sequential code: it keeps running. *)
FairSpec == Spec /\ WF_vars(~fault /\ (ResetStep \/ EndReset))

-----------------------------------------------------------------------------
TypeOK ==
  /\ list \in Seq(Cfg)
  /\ hdr \in [Cfg -> Content]
  /\ ptr \in [Cfg -> [Table -> Addr \cup {NULL}]]
  /\ heap \in [Addr -> Content \cup {Free}]
  /\ index \in SUBSET Cfg
  /\ mode \in {"idle", "reset"}
  /\ fault \in BOOLEAN

(* No configuration is twice in the chain, so one destroy forgets it. *)
NoDuplicates == \A i, j \in 1..Len(list) : list[i] = list[j] => i = j

(* Every table released through ref_count that a configuration of the      *)
(* chain points to is still allocated, whatever the other configurations   *)
(* sharing it have done (free_unused, shtns_unset_grid, shtns_destroy).    *)
NoDangling ==
  \A c \in Live, t \in Counted : ptr[c][t] # NULL => heap[ptr[c][t]] # Free

(* And none is lost: an allocated block is reachable, through the member   *)
(* it was allocated for, from a configuration of the chain.  In particular *)
(* nothing is left of them when the chain is empty.                        *)
NoLeak ==
  \A a \in Addr : a[1] \in Counted /\ heap[a] # Free =>
    \E c \in Live : ptr[c][a[1]] = a

(* Is content x good for a configuration with header h, in member t?       *)
SameIndex(x, h) == x.lmax = h.lmax /\ x.mres = h.mres /\ x.mmax >= h.mmax
Suits(t, x, h) ==
  CASE t = "li" -> SameIndex(x, h)
    [] t \in Recurrence -> SameIndex(x, h) /\ x.norm = h.norm
    [] t = "l_2" -> x.lmax >= h.lmax
    [] t = "ct_rot" -> x.lmax = h.lmax
    [] OTHER -> TRUE

(* Whatever sequence of creations and destructions led here, the tables a  *)
(* configuration uses were computed for its own sizes and normalization.   *)
TablesSuit ==
  \A c \in Live, t \in Spectral :
    ptr[c][t] # NULL => Suits(t, heap[ptr[c][t]], hdr[c])

(* While its grid is set, the nodes, weights, plans and matrices of a      *)
(* configuration are those of its own grid, never those of the grid that a *)
(* configuration sharing them has been given since.                        *)
GridTablesSuit ==
  \A c \in Live, t \in Gridded :
    hdr[c].nlat > 0 /\ ptr[c][t] # NULL =>
      LET x == heap[ptr[c][t]]
      IN  SameIndex(x, hdr[c]) /\ x.norm = hdr[c].norm /\ x.nlat = hdr[c].nlat

(* The two recurrence tables are shared together or not at all; destroy    *)
(* relies on it when it frees alm once for a configuration with blm = alm. *)
RecurrencePaired ==
  \A c, d \in Live :
    (ptr[c]["alm"] = ptr[d]["alm"]) <=> (ptr[c]["blm"] = ptr[d]["blm"])

(* Where a block was allocated: for the member that points to it, except   *)
(* that blm may be the block of alm.  Every configuration has its indices, *)
(* recurrences and degree table.                                           *)
WellPlaced ==
  \A c \in Live :
    /\ \A t \in Table : ptr[c][t] # NULL =>
         ptr[c][t][1] = t \/ (t = "blm" /\ ptr[c]["blm"] = ptr[c]["alm"])
    /\ \A t \in Recurrence \cup {"li", "l_2"} : ptr[c][t] # NULL

(* The inductive invariant. *)
IInv ==
  /\ TypeOK
  /\ NoDuplicates
  /\ WellPlaced
  /\ NoDangling
  /\ NoLeak
  /\ TablesSuit
  /\ GridTablesSuit
  /\ RecurrencePaired

(* The counted tables implement the pool: no call disturbs a table that    *)
(* another configuration uses, in its address or in its content.           *)
CountedAddr == Counted \X Slot
Pool == INSTANCE TablePool WITH
  Client <- Cfg, Block <- CountedAddr,
  holders <- [a \in CountedAddr |-> Holders(a[1], a)],
  content <- [a \in CountedAddr |-> heap[a]]
PoolSpec == Pool!Spec

(* Every block, the plan of the rotations included, that a configuration   *)
(* of the chain would use is allocated: destroying a configuration         *)
(* releases the resources it allocated, not those of another.              *)
PlansAlive ==
  \A c \in Live : ptr[c]["fft_rot"] # NULL => heap[ptr[c]["fft_rot"]] # Free

(* shtns_reset returns, with no configuration left. *)
ResetEnds == mode = "reset" ~> (mode = "idle" /\ list = <<>>) \/ fault
=============================================================================
