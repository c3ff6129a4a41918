---------------------- MODULE ParallelTransform_proofs ----------------------
(***************************************************************************)
(* Proofs about the transforms, for every number of meridians, orders and  *)
(* threads: threads never meet in the data, and the call returns a right   *)
(* result and no buffer, but for the calls that the module names.          *)
(***************************************************************************)
EXTENDS ParallelTransform, TLAPS

-----------------------------------------------------------------------------
(* Rows and orders.                                                        *)

LEMMA CallShape ==
  ASSUME NEW x \in Call
  PROVE  /\ x.imlim \in 1..(MMAX + 1)
         /\ x.comps \in 1..3
         /\ x.dir \in {"synthesis", "analysis"}
         /\ Last(x) \in 0..(NPHI - 1)
         /\ x.dir = "analysis" => Last(x) = x.imlim - 1
BY TransformAssumption DEF Call, Last

(* Distinct orders touch distinct rows, all of which exist. *)
LEMMA RowsApart ==
  ASSUME NEW x \in Call, NEW i \in 0..Last(x)
  PROVE  /\ RowsOf(x, i) \subseteq Rows
         /\ OrdersOf(x, i) \subseteq Orders
         /\ \A j \in 0..Last(x) : i # j =>
              /\ RowsOf(x, i) \cap RowsOf(x, j) = {}
              /\ OrdersOf(x, i) \cap OrdersOf(x, j) = {}
<1>1. CASE x.dir = "synthesis"
  BY <1>1, CallShape, TransformAssumption DEF RowsOf, OrdersOf, Rows, Orders, Last
<1>2. CASE x.dir = "analysis"
  BY <1>2, CallShape, TransformAssumption DEF RowsOf, OrdersOf, Rows, Orders, Last
<1> QED BY <1>1, <1>2, CallShape

LEMMA CellsType ==
  ASSUME NEW x \in Call, NEW i \in 0..Last(x)
  PROVE  Cells(x, i) \subseteq ((1..3) \X Rows \cup {0} \X Orders)
<1>1. 1..x.comps \subseteq 1..3
  BY CallShape
<1> QED BY <1>1, RowsApart DEF Cells

LEMMA CellsApart ==
  ASSUME NEW x \in Call, NEW i \in 0..Last(x), NEW j \in 0..Last(x), i # j
  PROVE  Cells(x, i) \cap Cells(x, j) = {}
<1>1. RowsOf(x, i) \cap RowsOf(x, j) = {} /\ OrdersOf(x, i) \cap OrdersOf(x, j) = {}
  BY RowsApart
<1>2. 0 \notin 1..x.comps
  BY CallShape
<1> QED BY <1>1, <1>2 DEF Cells

(* Every row is in the share of one order. *)
LEMMA RowsCovered ==
  ASSUME NEW x \in Call, x.dir = "synthesis", NEW r \in Rows
  PROVE  \E i \in 0..Last(x) : r \in RowsOf(x, i)
<1>1. CASE r <= Last(x)
  BY <1>1, CallShape DEF RowsOf, Rows
<1>2. CASE ~(r <= Last(x))
  <2>1. NPHI - r \in 0..Last(x) /\ r \in RowsOf(x, NPHI - r)
    BY <1>2, CallShape, TransformAssumption DEF RowsOf, Rows, Last
  <2> QED BY <2>1
<1> QED BY <1>1, <1>2

LEMMA OrdersCovered ==
  ASSUME NEW x \in Call, x.dir = "analysis", NEW m \in Orders
  PROVE  \E i \in 0..Last(x) : m \in OrdersOf(x, i)
<1>1. CASE m < x.imlim
  <2>1. m \in 0..Last(x) /\ m \in OrdersOf(x, m)
    BY <1>1, CallShape, TransformAssumption DEF OrdersOf, Orders
  <2> QED BY <2>1
<1>2. CASE ~(m < x.imlim)
  <2>1. 0 \in 0..Last(x) /\ m \in OrdersOf(x, 0)
    BY <1>2, CallShape, TransformAssumption DEF OrdersOf, Orders
  <2> QED BY <2>1
<1> QED BY <1>1, <1>2

-----------------------------------------------------------------------------
(* Shares.                                                                 *)

LEMMA Multiples ==
  ASSUME NEW n \in Nat \ {0}, NEW k \in Nat, NEW l \in Nat, k < l
  PROVE  k * n + n <= l * n
<1> DEFINE d == l - k - 1
<1>1. d \in Nat
  OBVIOUS
<1> HIDE DEF d
<1>2. d * n \in Nat
  BY <1>1
<1> QED BY <1>2 DEF d

(* Two threads have no order in common. *)
LEMMA SharesApart ==
  ASSUME team \in Nat \ {0}, NEW t \in Team, NEW u \in Team,
         NEW i \in Nat, Share(t, i), Share(u, i)
  PROVE  t = u
<1>1. PICK k \in 0..i : i = t + k * team
  BY DEF Share
<1>2. PICK l \in 0..i : i = u + l * team
  BY DEF Share
<1>3. k \in Nat /\ l \in Nat /\ t \in 0..(team - 1) /\ u \in 0..(team - 1)
  BY DEF Team
<1>4. k * team \in Nat /\ l * team \in Nat
  BY <1>3
<1>5. CASE k < l
  <2>1. k * team + team <= l * team
    BY <1>3, <1>5, Multiples
  <2> QED BY <1>1, <1>2, <1>3, <1>4, <2>1
<1>6. CASE l < k
  <2>1. l * team + team <= k * team
    BY <1>3, <1>6, Multiples
  <2> QED BY <1>1, <1>2, <1>3, <1>4, <2>1
<1>7. CASE k = l
  BY <1>1, <1>2, <1>3, <1>4, <1>7
<1> QED BY <1>3, <1>5, <1>6, <1>7

(* The next order of a share. *)
LEMMA ShareNext ==
  ASSUME team \in Nat \ {0}, NEW t \in Team, NEW i \in Nat, Share(t, i)
  PROVE  /\ i + team \in Nat
         /\ Share(t, i + team)
         /\ \A j \in Nat : Share(t, j) /\ j < i + team => j <= i
<1>1. PICK k \in 0..i : i = t + k * team
  BY DEF Share
<1>2. k \in Nat /\ t \in 0..(team - 1) /\ k * team \in Nat
  BY DEF Team
<1>3. k + 1 \in 0..(i + team) /\ i + team = t + (k + 1) * team
  BY <1>1, <1>2
<1>4. ASSUME NEW j \in Nat, Share(t, j), j < i + team
      PROVE  j <= i
  <2>1. PICK l \in 0..j : j = t + l * team
    BY <1>4 DEF Share
  <2>2. l \in Nat /\ l * team \in Nat
    OBVIOUS
  <2>3. CASE k < l
    <3>1. k * team + team <= l * team
      BY <1>2, <2>2, <2>3, Multiples
    <3> QED BY <1>1, <1>2, <1>4, <2>1, <2>2, <3>1
  <2>4. CASE l < k
    <3>1. l * team + team <= k * team
      BY <1>2, <2>2, <2>4, Multiples
    <3> QED BY <1>1, <1>2, <2>1, <2>2, <3>1
  <2>5. CASE k = l
    BY <1>1, <1>2, <2>1, <2>5
  <2> QED BY <1>2, <2>2, <2>3, <2>4, <2>5
<1> QED BY <1>3, <1>4 DEF Share

(* Every order is in the share of some thread. *)
LEMMA SharesCover ==
  ASSUME team \in Nat \ {0}, NEW i \in Nat
  PROVE  \E t \in Team : Share(t, i)
<1> DEFINE t == i % team  k == i \div team
<1>1. t \in 0..(team - 1) /\ k \in Nat /\ i = t + k * team
  OBVIOUS
<1> HIDE DEF t, k
<1>2. k <= k * team
  BY <1>1
<1>3. k \in 0..i
  BY <1>1, <1>2
<1> QED BY <1>1, <1>3 DEF Team, Share

-----------------------------------------------------------------------------
(* Phases.                                                                 *)

KernelAt(x) == IF Inside(x) /\ x.dir = "analysis" THEN 3 ELSE 1
FftAt(x) == IF x.dir = "synthesis" THEN 3 ELSE 1
EndAt(x) == IF Inside(x) THEN 4 ELSE 2

LEMMA PhaseAt ==
  ASSUME NEW x \in Call, NEW k \in DOMAIN Phases(x)
  PROVE  /\ k \in 1..4 /\ k <= EndAt(x)
         /\ Phases(x)[k] = "kernel" <=> k = KernelAt(x)
         /\ Phases(x)[k] = "fft" <=> (Inside(x) /\ k = FftAt(x))
         /\ Phases(x)[k] = "barrier" <=> (Inside(x) /\ k = 2)
         /\ Phases(x)[k] = "end" <=> k = EndAt(x)
         /\ k < EndAt(x) => k + 1 \in DOMAIN Phases(x)
<1>0. x.dir \in {"synthesis", "analysis"}
  BY CallShape
<1>1. CASE ~Inside(x)
  <2>1. Phases(x) = <<"kernel", "end">>
    BY <1>1 DEF Phases
  <2> QED BY <1>0, <1>1, <2>1 DEF KernelAt, FftAt, EndAt
<1>2. CASE Inside(x) /\ x.dir = "synthesis"
  <2>1. Phases(x) = <<"kernel", "barrier", "fft", "end">>
    BY <1>2 DEF Phases
  <2> QED BY <1>2, <2>1 DEF KernelAt, FftAt, EndAt
<1>3. CASE Inside(x) /\ x.dir = "analysis"
  <2>1. Phases(x) = <<"fft", "barrier", "kernel", "end">>
    BY <1>3 DEF Phases
  <2> QED BY <1>3, <2>1 DEF KernelAt, FftAt, EndAt
<1> QED BY <1>0, <1>1, <1>2, <1>3

LEMMA PhaseDomain ==
  ASSUME NEW x \in Call
  PROVE  /\ DOMAIN Phases(x) = 1..EndAt(x)
         /\ Phases(x)[KernelAt(x)] = "kernel"
         /\ Inside(x) => Phases(x)[FftAt(x)] = "fft"
         /\ KernelAt(x) \in 1..EndAt(x) /\ KernelAt(x) < EndAt(x)
         /\ Inside(x) => FftAt(x) \in 1..EndAt(x) /\ FftAt(x) < EndAt(x)
<1>0. x.dir \in {"synthesis", "analysis"}
  BY CallShape
<1>1. CASE ~Inside(x)
  <2>1. Phases(x) = <<"kernel", "end">>
    BY <1>1 DEF Phases
  <2> QED BY <1>0, <1>1, <2>1 DEF KernelAt, FftAt, EndAt
<1>2. CASE Inside(x) /\ x.dir = "synthesis"
  <2>1. Phases(x) = <<"kernel", "barrier", "fft", "end">>
    BY <1>2 DEF Phases
  <2> QED BY <1>2, <2>1 DEF KernelAt, FftAt, EndAt
<1>3. CASE Inside(x) /\ x.dir = "analysis"
  <2>1. Phases(x) = <<"fft", "barrier", "kernel", "end">>
    BY <1>3 DEF Phases
  <2> QED BY <1>3, <2>1 DEF KernelAt, FftAt, EndAt
<1> QED BY <1>0, <1>1, <1>2, <1>3

(* What a step of a thread knows, and what it leaves alone. *)
Steady == UNCHANGED <<build, call, team, buffers, result>>

LEMMA SameCall ==
  ASSUME Steady
  PROVE  /\ Phases(call)' = Phases(call)
         /\ Inside(call)' = Inside(call)
         /\ Mode(call)' = Mode(call)
         /\ Comps' = Comps /\ Team' = Team
         /\ \A x : Outcome(call, x)' = Outcome(call, x)
BY DEF Steady, Phases, Inside, Shared, Mode, Comps, Team, Outcome, Executed

LEMMA InTeam ==
  ASSUME RaceInv, NEW t \in Threads, NEW ph \in {"kernel", "barrier", "fft", "end"},
         In(t, ph)
  PROVE  /\ t \in Team /\ call # Idle /\ call \in Call /\ build \in Build
         /\ team \in Nat \ {0} /\ Team \subseteq Threads
         /\ pc[t] \in DOMAIN Phases(call) /\ pc[t] \in 1..4
         /\ Phases(call)[pc[t]] = ph
         /\ im[t] \in Nat /\ comp[t] \in 1..4 /\ Share(t, im[t])
<1>1. TypeOK /\ InCall /\ OwnOrders
  BY DEF RaceInv
<1>2. t \in Team /\ call # Idle /\ Phases(call)[pc[t]] = ph
  BY DEF In
<1>3. call \in Call /\ build \in Build /\ team \in Nat \ {0} /\ Team \subseteq Threads
  BY <1>1, <1>2, TransformAssumption DEF TypeOK, Team, Threads
<1> QED BY <1>1, <1>2, <1>3 DEF TypeOK, InCall, OwnOrders

-----------------------------------------------------------------------------
(* The threads.                                                            *)

(* What must be shown of a step of thread t. *)
OthersStay(t) ==
  \A u \in Threads \ {t} :
    pc'[u] = pc[u] /\ im'[u] = im[u] /\ comp'[u] = comp[u] /\ busy'[u] = busy[u]

LEMMA ThreadStep ==
  ASSUME RaceInv, TypeOK', Steady, NEW t \in Team, call # Idle, OthersStay(t),
         pc'[t] \in DOMAIN Phases(call), pc'[t] >= pc[t],
         Inside(call) /\ pc[t] <= 2 /\ pc'[t] > 2 => \A u \in Team : pc[u] >= 2,
         Share(t, im'[t]),
         busy'[t] = {} \/ Working(t)',
         \A u \in Team \ {t} : Transforming(u) => fft'[comp[u]] = fft[comp[u]],
         Transforming(t)' => \A u \in Team \ {t} : Transforming(u) => comp[u] # comp'[t]
  PROVE  RaceInv'
<1>1. /\ Phases(call)' = Phases(call) /\ Inside(call)' = Inside(call)
      /\ Mode(call)' = Mode(call) /\ Comps' = Comps /\ Team' = Team
      /\ call' = call /\ build' = build /\ team' = team /\ buffers' = buffers
  BY SameCall DEF Steady
<1>2. TypeOK /\ AtRest /\ InCall /\ OwnOrders /\ Accesses /\ OneEach /\ BarrierHolds
  BY DEF RaceInv
<1>3. call \in Call /\ Team \subseteq Threads /\ t \in Threads
  BY <1>2, TransformAssumption DEF TypeOK, Team, Threads
<1>4. AtRest'
  BY <1>1 DEF AtRest
<1>5. InCall'
  BY <1>1, <1>2, <1>3 DEF InCall, OthersStay
<1>6. OwnOrders'
  <2> SUFFICES ASSUME NEW u \in Team PROVE Share(u, im[u])'
    BY <1>1 DEF OwnOrders
  <2>1. Share(u, im'[u])
    BY <1>2, <1>3 DEF OwnOrders, OthersStay
  <2> QED BY <1>1, <2>1 DEF Share
<1>7. \A u \in Team, ph \in {"kernel", "fft"} : u # t => In(u, ph)' = In(u, ph)
  BY <1>1, <1>3 DEF In, OthersStay
<1>8. Accesses'
  <2>1. ASSUME NEW u \in Team PROVE busy'[u] = {} \/ Working(u)'
    <3>1. CASE u = t
      BY <3>1
    <3>2. CASE u # t /\ busy[u] = {}
      BY <1>3, <3>2 DEF OthersStay
    <3>3. CASE u # t /\ Working(u) /\ busy[u] # {}
      <4>1. im'[u] = im[u] /\ comp'[u] = comp[u] /\ busy'[u] = busy[u]
        BY <1>3, <3>3 DEF OthersStay
      <4>2. CASE In(u, "kernel") /\ im[u] <= Last(call) /\ busy[u] = Cells(call, im[u])
        BY <1>1, <1>7, <3>3, <4>1, <4>2 DEF Working
      <4>3. CASE In(u, "fft") /\ comp[u] \in Comps /\ fft[comp[u]] = "running"
                 /\ busy[u] = {comp[u]} \X Rows
        <5>1. fft'[comp[u]] = "running"
          BY <3>3, <4>3 DEF Transforming
        <5> QED BY <1>1, <1>7, <3>3, <4>1, <4>3, <5>1 DEF Working
      <4> QED BY <3>3, <4>2, <4>3 DEF Working
    <3> QED BY <1>2, <3>1, <3>2, <3>3 DEF Accesses
  <2>2. \A u \in Threads \ Team : busy'[u] = {}
    BY <1>2, <1>3 DEF Accesses, OthersStay
  <2> QED BY <1>1, <2>1, <2>2 DEF Accesses
<1>9. OneEach'
  <2> SUFFICES ASSUME NEW u \in Team, NEW v \in Team, u # v,
                      Transforming(u)', Transforming(v)'
               PROVE  comp'[u] # comp'[v]
    BY <1>1 DEF OneEach
  <2>1. \A w \in Team \ {t} : Transforming(w)' = Transforming(w) /\ comp'[w] = comp[w]
    BY <1>3, <1>7 DEF Transforming, OthersStay
  <2> QED BY <1>2, <2>1 DEF OneEach
<1>10. BarrierHolds'
  <2> SUFFICES ASSUME Inside(call), NEW u \in Team, NEW v \in Team, pc'[u] > 2
               PROVE  pc'[v] >= 2
    BY <1>1 DEF BarrierHolds
  <2>1. \A w \in Team : pc[w] \in 1..4 /\ pc'[w] \in 1..4 /\ pc'[w] >= pc[w]
    BY <1>1, <1>2, <1>3 DEF TypeOK, OthersStay
  <2>2. CASE u = t /\ pc[t] <= 2
    BY <2>1, <2>2
  <2>3. CASE ~(u = t /\ pc[t] <= 2)
    <3>1. pc[u] > 2
      BY <1>3, <2>1, <2>3 DEF OthersStay
    <3> QED BY <1>2, <2>1, <3>1 DEF BarrierHolds
  <2> QED BY <2>2, <2>3
<1> QED BY <1>4, <1>5, <1>6, <1>8, <1>9, <1>10 DEF RaceInv

LEMMA RowsExist == 0 \in Rows /\ Rows \subseteq Nat
BY TransformAssumption DEF Rows

(* A working thread accesses something, in the kernel or in an FFT. *)
LEMMA NotBoth ==
  ASSUME RaceInv, NEW t \in Team, In(t, "kernel") \/ In(t, "fft"), busy[t] # {}
  PROVE  /\ In(t, "kernel") => im[t] <= Last(call) /\ busy[t] = Cells(call, im[t])
         /\ In(t, "fft") => /\ comp[t] \in Comps /\ fft[comp[t]] = "running"
                            /\ busy[t] = {comp[t]} \X Rows
BY DEF RaceInv, Accesses, Working, In

LEMMA StartOrderRace ==
  ASSUME RaceInv, NEW t \in Threads, StartOrder(t)
  PROVE  RaceInv'
<1>1. /\ t \in Team /\ call # Idle /\ call \in Call /\ team \in Nat \ {0}
      /\ Team \subseteq Threads /\ pc[t] \in DOMAIN Phases(call) /\ pc[t] \in 1..4
      /\ im[t] \in Nat /\ Share(t, im[t]) /\ In(t, "kernel")
      /\ Phases(call)[pc[t]] = "kernel"
  BY InTeam DEF StartOrder
<1>2. TypeOK
  BY DEF RaceInv
<1>3. im[t] \in 0..Last(call)
  BY <1>1, CallShape DEF StartOrder
<1>4. busy' = [busy EXCEPT ![t] = Cells(call, im[t])] /\ pc' = pc /\ im' = im
      /\ comp' = comp /\ fft' = fft /\ order' = order /\ Steady
  BY DEF StartOrder, Steady
<1>5. TypeOK'
  <2>1. Cells(call, im[t]) \subseteq ((1..3) \X Rows \cup {0} \X Orders)
    BY <1>1, <1>3, CellsType
  <2>2. busy' \in [Threads -> SUBSET ((1..3) \X Rows \cup {0} \X Orders)]
    BY <1>2, <1>4, <2>1 DEF TypeOK
  <2>3. row' \in [Rows -> {"old", "half", "new"}]
    BY <1>2 DEF TypeOK, StartOrder
  <2> QED BY <1>2, <1>4, <2>2, <2>3 DEF TypeOK, Steady
<1>6. Working(t)'
  <2>1. In(t, "kernel")' /\ Last(call)' = Last(call)
        /\ Cells(call, im[t])' = Cells(call, im[t])
    BY <1>1, <1>4, SameCall DEF In, Steady
  <2>2. busy'[t] = Cells(call, im[t])
    BY <1>2, <1>4 DEF TypeOK
  <2> QED BY <1>3, <1>4, <2>1, <2>2 DEF Working
<1>7. OthersStay(t)
  BY <1>2, <1>4 DEF OthersStay, TypeOK
<1>8. ~Transforming(t)'
  <2>1. Phases(call)' = Phases(call)
    BY <1>4, SameCall
  <2> QED BY <1>1, <1>4, <2>1 DEF Transforming, In
<1> QED BY <1>1, <1>4, <1>5, <1>6, <1>7, <1>8, ThreadStep

LEMMA FinishOrderRace ==
  ASSUME RaceInv, NEW t \in Threads, FinishOrder(t)
  PROVE  RaceInv'
<1>1. /\ t \in Team /\ call # Idle /\ call \in Call /\ team \in Nat \ {0}
      /\ Team \subseteq Threads /\ pc[t] \in DOMAIN Phases(call) /\ pc[t] \in 1..4
      /\ im[t] \in Nat /\ Share(t, im[t])
      /\ Phases(call)[pc[t]] = "kernel"
  BY InTeam DEF FinishOrder
<1>2. TypeOK
  BY DEF RaceInv
<1>3. busy' = [busy EXCEPT ![t] = {}] /\ pc' = pc
      /\ im' = [im EXCEPT ![t] = im[t] + team]
      /\ comp' = comp /\ fft' = fft /\ Steady
  BY DEF FinishOrder, Steady, Stride
<1>4. im[t] + team \in Nat /\ Share(t, im[t] + team)
  BY <1>1, ShareNext
<1>5. TypeOK'
  <2>1. im' \in [Threads -> Nat]
    BY <1>2, <1>3, <1>4 DEF TypeOK
  <2>2. busy' \in [Threads -> SUBSET ((1..3) \X Rows \cup {0} \X Orders)]
    BY <1>2, <1>3 DEF TypeOK
  <2>3. row' \in [Rows -> {"old", "half", "new"}]
    BY <1>2 DEF TypeOK, FinishOrder
  <2>4. order' \in [Orders -> {"old", "right", "wrong"}]
    BY <1>2 DEF TypeOK, FinishOrder
  <2> QED BY <1>2, <1>3, <2>1, <2>2, <2>3, <2>4 DEF TypeOK, Steady
<1>6. busy'[t] = {} /\ Share(t, im'[t]) /\ OthersStay(t)
  BY <1>2, <1>3, <1>4 DEF OthersStay, TypeOK
<1>7. ~Transforming(t)'
  BY <1>6 DEF Transforming
<1> QED BY <1>1, <1>3, <1>5, <1>6, <1>7, ThreadStep

LEMMA LeaveKernelRace ==
  ASSUME RaceInv, NEW t \in Threads, LeaveKernel(t)
  PROVE  RaceInv'
<1>1. /\ t \in Team /\ call # Idle /\ call \in Call /\ team \in Nat \ {0}
      /\ Team \subseteq Threads /\ pc[t] \in DOMAIN Phases(call) /\ pc[t] \in 1..4
      /\ im[t] \in Nat /\ Share(t, im[t])
      /\ Phases(call)[pc[t]] = "kernel"
  BY InTeam DEF LeaveKernel
<1>2. TypeOK
  BY DEF RaceInv
<1>3. UNCHANGED <<busy, im, comp, fft, row, order>> /\ Steady
      /\ pc' = [pc EXCEPT ![t] = pc[t] + 1] /\ busy[t] = {}
  BY DEF LeaveKernel, Steady, Proceed
<1>4. pc[t] = KernelAt(call) /\ pc[t] + 1 \in DOMAIN Phases(call) /\ pc[t] + 1 \in 1..4
  <2>1. pc[t] = KernelAt(call)
    BY <1>1, PhaseAt
  <2>2. pc[t] + 1 \in DOMAIN Phases(call)
    BY <1>1, <2>1, PhaseAt, PhaseDomain
  <2> QED BY <1>1, <2>1, <2>2, PhaseAt
<1>5. pc' \in [Threads -> 1..4] /\ pc'[t] = pc[t] + 1
  BY <1>2, <1>3, <1>4 DEF TypeOK
<1>6. TypeOK'
  BY <1>2, <1>3, <1>5 DEF TypeOK, Steady
<1>7. OthersStay(t) /\ busy'[t] = {} /\ Share(t, im'[t])
  BY <1>1, <1>2, <1>3 DEF OthersStay, TypeOK
<1>8. ~(Inside(call) /\ pc[t] <= 2 /\ pc'[t] > 2)
  BY <1>1, <1>4, <1>5 DEF KernelAt
<1>9. ~Transforming(t)'
  BY <1>7 DEF Transforming
<1> QED BY <1>1, <1>3, <1>4, <1>5, <1>6, <1>7, <1>8, <1>9, ThreadStep

LEMMA BarrierRace ==
  ASSUME RaceInv, NEW t \in Threads, Barrier(t)
  PROVE  RaceInv'
<1>1. /\ t \in Team /\ call # Idle /\ call \in Call /\ team \in Nat \ {0}
      /\ Team \subseteq Threads /\ pc[t] \in DOMAIN Phases(call) /\ pc[t] \in 1..4
      /\ im[t] \in Nat /\ Share(t, im[t])
      /\ Phases(call)[pc[t]] = "barrier"
  BY InTeam DEF Barrier
<1>2. TypeOK
  BY DEF RaceInv
<1>3. UNCHANGED <<busy, im, comp, fft, row, order>> /\ Steady
      /\ pc' = [pc EXCEPT ![t] = pc[t] + 1]
      /\ \A u \in Team : pc[u] >= pc[t]
  BY DEF Barrier, Steady, Proceed
<1>4. Inside(call) /\ pc[t] = 2 /\ pc[t] + 1 \in DOMAIN Phases(call)
  <2>1. Inside(call) /\ pc[t] = 2
    BY <1>1, PhaseAt
  <2> QED BY <1>1, <2>1, PhaseAt DEF EndAt
<1>5. pc' \in [Threads -> 1..4] /\ pc'[t] = 3
  BY <1>2, <1>3, <1>4 DEF TypeOK
<1>6. TypeOK'
  BY <1>2, <1>3, <1>5 DEF TypeOK, Steady
<1>7. busy[t] = {}
  BY <1>1, <1>4 DEF RaceInv, Accesses, Working, In
<1>8. OthersStay(t) /\ busy'[t] = {} /\ Share(t, im'[t])
  BY <1>1, <1>2, <1>3, <1>7 DEF OthersStay, TypeOK
<1>9. ~Transforming(t)'
  BY <1>8 DEF Transforming
<1> QED BY <1>1, <1>3, <1>4, <1>5, <1>6, <1>8, <1>9, ThreadStep

LEMMA CompsType ==
  ASSUME call \in Call
  PROVE  Comps = 1..call.comps /\ Comps \subseteq 1..3
BY CallShape DEF Comps

LEMMA StartFftRace ==
  ASSUME RaceInv, NEW t \in Threads, StartFft(t)
  PROVE  RaceInv'
<1>1. /\ t \in Team /\ call # Idle /\ call \in Call /\ team \in Nat \ {0}
      /\ Team \subseteq Threads /\ pc[t] \in DOMAIN Phases(call) /\ pc[t] \in 1..4
      /\ im[t] \in Nat /\ Share(t, im[t]) /\ In(t, "fft")
      /\ Phases(call)[pc[t]] = "fft"
  BY InTeam DEF StartFft
<1>2. TypeOK
  BY DEF RaceInv
<1>3. UNCHANGED <<pc, im, comp, row, order>> /\ Steady
      /\ comp[t] \in Comps /\ fft[comp[t]] = "none" /\ comp[t] \in 1..3
      /\ fft' = [fft EXCEPT ![comp[t]] = "running"]
      /\ busy' = [busy EXCEPT ![t] = {comp[t]} \X Rows]
  BY <1>1, CompsType DEF StartFft, Steady
<1>4. TypeOK'
  <2>1. busy' \in [Threads -> SUBSET ((1..3) \X Rows \cup {0} \X Orders)]
    BY <1>2, <1>3 DEF TypeOK
  <2>2. fft' \in [1..3 -> {"none", "running", "right", "wrong"}]
    BY <1>2, <1>3 DEF TypeOK
  <2> QED BY <1>2, <1>3, <2>1, <2>2 DEF TypeOK, Steady
<1>5. OthersStay(t) /\ busy'[t] = {comp[t]} \X Rows /\ fft'[comp[t]] = "running"
  BY <1>2, <1>3 DEF OthersStay, TypeOK
<1>6. Working(t)'
  <2>1. In(t, "fft")' /\ Comps' = Comps
    BY <1>1, <1>3, SameCall DEF In, Steady
  <2> QED BY <1>3, <1>5, <2>1 DEF Working
<1>7. ASSUME NEW u \in Team \ {t}, Transforming(u)
      PROVE  comp[u] # comp'[t] /\ fft'[comp[u]] = fft[comp[u]]
  <2>1. comp[u] \in Comps /\ fft[comp[u]] = "running"
    BY <1>7, NotBoth DEF Transforming
  <2>2. comp[u] # comp[t] /\ comp[u] \in 1..3
    BY <1>1, <1>3, <2>1, CompsType
  <2> QED BY <1>2, <1>3, <2>2 DEF TypeOK
<1> QED BY <1>1, <1>3, <1>4, <1>5, <1>6, <1>7, ThreadStep

LEMMA FinishFftRace ==
  ASSUME RaceInv, NEW t \in Threads, FinishFft(t)
  PROVE  RaceInv'
<1>1. /\ t \in Team /\ call # Idle /\ call \in Call /\ team \in Nat \ {0}
      /\ Team \subseteq Threads /\ pc[t] \in DOMAIN Phases(call) /\ pc[t] \in 1..4
      /\ im[t] \in Nat /\ Share(t, im[t]) /\ In(t, "fft")
      /\ Phases(call)[pc[t]] = "fft" /\ Transforming(t)
  BY InTeam DEF FinishFft, Transforming
<1>2. TypeOK
  BY DEF RaceInv
<1>3. comp[t] \in Comps /\ comp[t] \in 1..3
  BY <1>1, NotBoth, CompsType DEF Transforming
<1>4. PICK o \in {"right", "wrong"} : fft' = [fft EXCEPT ![comp[t]] = o]
  BY DEF FinishFft, Outcome
<1>5. UNCHANGED <<pc, im, row, order>> /\ Steady
      /\ busy' = [busy EXCEPT ![t] = {}]
      /\ comp' = [comp EXCEPT ![t] = comp[t] + 1]
  BY DEF FinishFft, Steady
<1>6. TypeOK'
  <2>1. busy' \in [Threads -> SUBSET ((1..3) \X Rows \cup {0} \X Orders)]
    BY <1>2, <1>5 DEF TypeOK
  <2>2. fft' \in [1..3 -> {"none", "running", "right", "wrong"}]
    BY <1>2, <1>4 DEF TypeOK
  <2>3. comp' \in [Threads -> 1..4]
    BY <1>2, <1>3, <1>5 DEF TypeOK
  <2> QED BY <1>2, <1>5, <2>1, <2>2, <2>3 DEF TypeOK, Steady
<1>7. OthersStay(t) /\ busy'[t] = {}
  BY <1>2, <1>5 DEF OthersStay, TypeOK
<1>8. ASSUME NEW u \in Team \ {t}, Transforming(u)
      PROVE  fft'[comp[u]] = fft[comp[u]]
  <2>1. comp[u] # comp[t]
    BY <1>1, <1>8 DEF RaceInv, OneEach
  <2>2. comp[u] \in 1..3
    BY <1>1, <1>8, NotBoth, CompsType DEF Transforming
  <2> QED BY <1>2, <1>4, <2>1, <2>2 DEF TypeOK
<1>9. ~Transforming(t)'
  BY <1>7 DEF Transforming
<1> QED BY <1>1, <1>5, <1>6, <1>7, <1>8, <1>9, ThreadStep

LEMMA SkipFftRace ==
  ASSUME RaceInv, NEW t \in Threads, SkipFft(t)
  PROVE  RaceInv'
<1>1. /\ t \in Team /\ call # Idle /\ call \in Call /\ team \in Nat \ {0}
      /\ Team \subseteq Threads /\ pc[t] \in DOMAIN Phases(call) /\ pc[t] \in 1..4
      /\ im[t] \in Nat /\ Share(t, im[t])
  BY InTeam DEF SkipFft
<1>2. TypeOK
  BY DEF RaceInv
<1>3. UNCHANGED <<pc, busy, im, fft, row, order>> /\ Steady
      /\ comp' = [comp EXCEPT ![t] = comp[t] + 1] /\ comp[t] \in 1..3 /\ busy[t] = {}
  BY <1>1, CompsType DEF SkipFft, Steady
<1>4. TypeOK'
  <2>1. comp' \in [Threads -> 1..4]
    BY <1>2, <1>3 DEF TypeOK
  <2> QED BY <1>2, <1>3, <2>1 DEF TypeOK, Steady
<1>5. OthersStay(t) /\ busy'[t] = {}
  BY <1>2, <1>3 DEF OthersStay, TypeOK
<1>6. ~Transforming(t)'
  BY <1>5 DEF Transforming
<1> QED BY <1>1, <1>3, <1>4, <1>5, <1>6, ThreadStep

LEMMA LeaveFftRace ==
  ASSUME RaceInv, NEW t \in Threads, LeaveFft(t)
  PROVE  RaceInv'
<1>1. /\ t \in Team /\ call # Idle /\ call \in Call /\ team \in Nat \ {0}
      /\ Team \subseteq Threads /\ pc[t] \in DOMAIN Phases(call) /\ pc[t] \in 1..4
      /\ im[t] \in Nat /\ Share(t, im[t])
      /\ Phases(call)[pc[t]] = "fft"
  BY InTeam DEF LeaveFft
<1>2. TypeOK
  BY DEF RaceInv
<1>3. UNCHANGED <<busy, im, comp, fft, row, order>> /\ Steady
      /\ pc' = [pc EXCEPT ![t] = pc[t] + 1] /\ busy[t] = {}
  BY DEF LeaveFft, Steady, Proceed
<1>4. pc[t] = FftAt(call) /\ pc[t] + 1 \in DOMAIN Phases(call) /\ pc[t] + 1 \in 1..4
  <2>1. Inside(call) /\ pc[t] = FftAt(call)
    BY <1>1, PhaseAt
  <2>2. pc[t] + 1 \in DOMAIN Phases(call)
    BY <1>1, <2>1, PhaseAt, PhaseDomain
  <2> QED BY <1>1, <2>1, <2>2, PhaseAt
<1>5. pc' \in [Threads -> 1..4] /\ pc'[t] = pc[t] + 1
  BY <1>2, <1>3, <1>4 DEF TypeOK
<1>6. TypeOK'
  BY <1>2, <1>3, <1>5 DEF TypeOK, Steady
<1>7. OthersStay(t) /\ busy'[t] = {} /\ Share(t, im'[t])
  BY <1>1, <1>2, <1>3 DEF OthersStay, TypeOK
<1>8. ~(pc[t] <= 2 /\ pc'[t] > 2)
  BY <1>1, <1>4, <1>5 DEF FftAt
<1>9. ~Transforming(t)'
  BY <1>7 DEF Transforming
<1> QED BY <1>1, <1>3, <1>4, <1>5, <1>6, <1>7, <1>8, <1>9, ThreadStep

-----------------------------------------------------------------------------
(* The calling thread.                                                     *)

LEMMA RestType ==
  /\ 1 \in 1..MaxTeam
  /\ [t \in Threads |-> 1] \in [Threads -> 1..4]
  /\ [t \in Threads |-> t] \in [Threads -> Nat]
BY TransformAssumption DEF Threads

LEMMA InitRace == Init => RaceInv
<1> SUFFICES ASSUME Init PROVE RaceInv
  OBVIOUS
<1>1. TypeOK
  <2>1. build \in Build
    BY TransformAssumption DEF Init
  <2> QED BY <2>1, RestType, TransformAssumption DEF Init, TypeOK
<1>2. Team = {0} /\ 0 \in Threads
  BY TransformAssumption DEF Init, Team, Threads
<1>3. OwnOrders
  BY <1>2 DEF Init, OwnOrders, Share
<1> QED
  BY <1>1, <1>2, <1>3 DEF Init, RaceInv, AtRest, InCall, Accesses, OneEach,
                          Transforming, BarrierHolds

LEMMA BeginRace ==
  ASSUME RaceInv, NEW x, NEW n \in 1..MaxTeam, buffers < MaxBuffers, Begin(x, n)
  PROVE  RaceInv'
<1>1. TypeOK /\ AtRest /\ call = Idle /\ <<build, x>> \in Scenarios
  BY DEF RaceInv, Begin
<1>2. x \in Call /\ x # Idle /\ build \in Build
  BY <1>1, TransformAssumption
<1>3. /\ call' = x /\ team' = n /\ build' = build
      /\ UNCHANGED <<pc, im, comp, busy, row, order, result>>
      /\ buffers' = buffers + (IF Mode(x) > 0 THEN 1 ELSE 0)
  BY DEF Begin
<1>4. /\ pc = [t \in Threads |-> 1] /\ im = [t \in Threads |-> t]
      /\ busy = [t \in Threads |-> {}]
  BY <1>1 DEF AtRest
<1>5. n \in Nat \ {0} /\ Team' = 0..(n - 1) /\ Team' \subseteq Threads
  BY <1>3, TransformAssumption DEF Team, Threads
<1>6. Phases(call)' = Phases(x) /\ Mode(call)' = Mode(x) /\ 1 \in DOMAIN Phases(x)
  <2>1. Phases(call)' = Phases(x) /\ Mode(call)' = Mode(x)
    BY <1>3 DEF Phases, Inside, Shared, Mode
  <2> QED BY <1>2, <2>1, PhaseDomain DEF EndAt
<1>7. TypeOK'
  <2>1. fft' \in [1..3 -> {"none", "running", "right", "wrong"}]
    BY DEF Begin, Outcome
  <2>2. buffers' \in 0..MaxBuffers
    BY <1>1, <1>3, TransformAssumption DEF TypeOK
  <2> QED BY <1>1, <1>2, <1>3, <2>1, <2>2 DEF TypeOK
<1>8. AtRest'
  BY <1>2, <1>3 DEF AtRest
<1>9. InCall'
  <2>1. Mode(x) > 0 => buffers' > 0
    BY <1>1, <1>3, TransformAssumption DEF TypeOK
  <2> QED BY <1>1, <1>3, <1>4, <1>5, <1>6, <2>1 DEF InCall
<1>10. OwnOrders'
  <2> SUFFICES ASSUME NEW t \in Team' PROVE Share(t, im[t])'
    BY DEF OwnOrders
  <2>1. im'[t] = t /\ t \in Nat
    BY <1>3, <1>4, <1>5
  <2>2. 0 \in 0..t /\ t = t + 0 * n
    BY <1>5, <2>1
  <2> QED BY <1>3, <2>1, <2>2 DEF Share
<1>11. \A t \in Threads : busy'[t] = {}
  BY <1>3, <1>4
<1>12. Accesses' /\ OneEach' /\ BarrierHolds'
  BY <1>3, <1>4, <1>5, <1>11 DEF Accesses, OneEach, Transforming, BarrierHolds
<1> QED BY <1>7, <1>8, <1>9, <1>10, <1>12 DEF RaceInv

LEMMA ReturnRace ==
  ASSUME RaceInv, Return
  PROVE  RaceInv'
<1>1. TypeOK /\ InCall /\ call # Idle
  BY DEF RaceInv, Return
<1>2. /\ call' = Idle /\ team' = 1 /\ build' = build
      /\ pc' = [t \in Threads |-> 1]
      /\ im' = [t \in Threads |-> t]
      /\ comp' = [t \in Threads |-> 1]
      /\ busy' = [t \in Threads |-> {}]
      /\ row' = [r \in Rows |-> "old"]
      /\ fft' = [c \in 1..3 |-> "none"]
      /\ order' = [m \in Orders |-> "old"]
      /\ buffers' = buffers - (IF Frees(call) THEN 1 ELSE 0)
      /\ result' \in {"right", "wrong"}
  BY DEF Return
<1>3. Team' = {0} /\ 0 \in Threads
  BY <1>2, TransformAssumption DEF Team, Threads
<1>4. buffers' \in 0..MaxBuffers
  <2>1. call \in Call
    BY <1>1 DEF TypeOK
  <2>2. Mode(call) \in {0, 1, 2}
    BY DEF Mode, fftc_mode
  <2>3. Frees(call) => buffers > 0
    BY <1>1, <2>2 DEF InCall, Frees
  <2> QED BY <1>1, <1>2, <2>3, TransformAssumption DEF TypeOK
<1>5. TypeOK'
  BY <1>1, <1>2, <1>4, RestType, TransformAssumption DEF TypeOK
<1>6. AtRest' /\ InCall' /\ BarrierHolds'
  BY <1>2 DEF AtRest, InCall, BarrierHolds
<1>7. OwnOrders'
  <2>1. im'[0] = 0 /\ 0 \in 0..0 /\ 0 = 0 + 0 * 1
    BY <1>2, <1>3
  <2> QED BY <1>2, <1>3, <2>1 DEF OwnOrders, Share
<1>8. Accesses' /\ OneEach'
  BY <1>2, <1>3 DEF Accesses, OneEach, Transforming
<1> QED BY <1>5, <1>6, <1>7, <1>8 DEF RaceInv

(* Every step keeps the threads apart. *)
LEMMA StutterRace ==
  ASSUME RaceInv, UNCHANGED vars
  PROVE  RaceInv'
<1>1. Phases(call)' = Phases(call) /\ Inside(call)' = Inside(call)
      /\ Mode(call)' = Mode(call) /\ Comps' = Comps /\ Team' = Team
  BY SameCall DEF vars, Steady
<1>2. \A t, ph : In(t, ph)' = In(t, ph)
  BY <1>1 DEF vars, In
<1>3. TypeOK' /\ AtRest' /\ InCall' /\ BarrierHolds'
  BY <1>1 DEF RaceInv, vars, TypeOK, AtRest, InCall, BarrierHolds
<1>4. OwnOrders'
  BY <1>1 DEF RaceInv, vars, OwnOrders, Share
<1>5. Accesses' /\ OneEach'
  BY <1>1, <1>2 DEF RaceInv, vars, Accesses, Working, OneEach, Transforming
<1> QED BY <1>3, <1>4, <1>5 DEF RaceInv

LEMMA NextRace == RaceInv /\ [Next]_vars => RaceInv'
<1> SUFFICES ASSUME RaceInv, [Next]_vars PROVE RaceInv'
  OBVIOUS
<1>1. CASE \E s \in Scenarios, n \in 1..MaxTeam : buffers < MaxBuffers /\ Begin(s[2], n)
  BY <1>1, BeginRace
<1>2. ASSUME NEW t \in Threads, Step(t) PROVE RaceInv'
  BY <1>2, StartOrderRace, FinishOrderRace, LeaveKernelRace, BarrierRace,
     StartFftRace, FinishFftRace, SkipFftRace, LeaveFftRace DEF Step
<1>3. CASE Return
  BY <1>3, ReturnRace
<1>4. CASE UNCHANGED vars
  BY <1>4, StutterRace
<1> QED BY <1>1, <1>2, <1>3, <1>4 DEF Next

(* In every state of every call, whatever the team the runtime grants,     *)
(* each thread is at one of its own orders or components.                  *)
THEOREM TransformInvariant == Spec => []RaceInv
<1>1. Init => RaceInv
  BY InitRace
<1>2. RaceInv /\ [Next]_vars => RaceInv'
  BY NextRace
<1> QED BY <1>1, <1>2, PTL DEF Spec

(* The omp, mic and fly kernels only touch rows and orders that exist, and *)
(* leave no buffer that they have not allocated to be freed.               *)
THEOREM TransformTypeOK == Spec => []TypeOK
<1>1. RaceInv => TypeOK
  BY DEF RaceInv
<1> QED BY <1>1, TransformInvariant, PTL

LEMMA NoRaceFollows == RaceInv => NoRace
<1> SUFFICES ASSUME RaceInv, NEW t \in Threads, NEW u \in Threads, t # u,
                    busy[t] # {}, busy[u] # {}
             PROVE  busy[t] \cap busy[u] = {}
  BY DEF NoRace
<1>1. TypeOK /\ Accesses /\ OneEach /\ BarrierHolds /\ OwnOrders
  BY DEF RaceInv
<1>2. t \in Team /\ u \in Team /\ Working(t) /\ Working(u)
  BY <1>1 DEF Accesses
<1>3. call \in Call /\ team \in Nat \ {0} /\ call # Idle
  <2>1. call # Idle
    BY <1>2 DEF Working, In
  <2> QED BY <1>1, <2>1, TransformAssumption DEF TypeOK
<1>4. /\ pc[t] \in DOMAIN Phases(call) /\ pc[u] \in DOMAIN Phases(call)
      /\ im[t] \in Nat /\ im[u] \in Nat /\ Share(t, im[t]) /\ Share(u, im[u])
  BY <1>1, <1>2, <1>3 DEF RaceInv, InCall, TypeOK, OwnOrders
<1>5. \A v \in {t, u} :
        /\ In(v, "kernel") \/ In(v, "fft")
        /\ In(v, "kernel") => /\ im[v] \in 0..Last(call) /\ busy[v] = Cells(call, im[v])
                              /\ pc[v] = KernelAt(call)
        /\ In(v, "fft") => /\ busy[v] = {comp[v]} \X Rows /\ Inside(call)
                           /\ comp[v] \in Comps /\ pc[v] = FftAt(call)
  <2>1. \A v \in {t, u} : In(v, "kernel") \/ In(v, "fft")
    BY <1>2 DEF Working
  <2>2. \A v \in {t, u} : In(v, "kernel") => pc[v] = KernelAt(call)
    BY <1>3, <1>4, PhaseAt DEF In
  <2>3. \A v \in {t, u} : In(v, "fft") => Inside(call) /\ pc[v] = FftAt(call)
    BY <1>3, <1>4, PhaseAt DEF In
  <2>4. Last(call) \in Nat
    BY <1>3, CallShape
  <2> QED BY <1>2, <1>4, <2>1, <2>2, <2>3, <2>4, NotBoth
<1>6. CASE In(t, "kernel") /\ In(u, "kernel")
  <2>1. im[t] # im[u]
    BY <1>2, <1>3, <1>4, SharesApart
  <2> QED BY <1>3, <1>5, <1>6, <2>1, CellsApart
<1>7. CASE In(t, "fft") /\ In(u, "fft")
  <2>1. comp[t] # comp[u]
    BY <1>1, <1>2, <1>7 DEF OneEach, Transforming
  <2> QED BY <1>5, <1>7, <2>1
(* The barrier is between the kernel and the FFTs. *)
<1>8. ASSUME NEW v \in {t, u}, NEW w \in {t, u}, In(v, "kernel"), In(w, "fft")
      PROVE  FALSE
  <2>1. pc[v] = KernelAt(call) /\ pc[w] = FftAt(call) /\ Inside(call)
    BY <1>5, <1>8
  <2>2. \A a, b \in {t, u} : pc[a] > 2 => pc[b] >= 2
    BY <1>1, <1>2, <1>3, <2>1 DEF BarrierHolds
  <2>3. call.dir \in {"synthesis", "analysis"}
    BY <1>3, CallShape
  <2> QED BY <2>1, <2>2, <2>3 DEF KernelAt, FftAt
<1> QED BY <1>5, <1>6, <1>7, <1>8

(* Two threads of a transform are never at the same row, nor at the same   *)
(* coefficients, for any number of threads, meridians and orders.          *)
THEOREM ThreadsStayApart == Spec => []NoRace
BY NoRaceFollows, TransformInvariant, PTL

-----------------------------------------------------------------------------
(* Buffers.                                                                *)

Held == buffers = IF call # Idle /\ Mode(call) > 0 THEN 1 ELSE 0

LEMMA HeldNext ==
  ASSUME NoneLeaks, RaceInv, Held, [Next]_vars
  PROVE  Held'
<1>1. CASE \E s \in Scenarios, n \in 1..MaxTeam : buffers < MaxBuffers /\ Begin(s[2], n)
  <2>1. PICK x \in {s[2] : s \in Scenarios}, n \in 1..MaxTeam : Begin(x, n)
    BY <1>1
  <2>2. x # Idle
    BY TransformAssumption
  <2>3. call = Idle /\ call' = x
        /\ buffers' = buffers + (IF Mode(x) > 0 THEN 1 ELSE 0) /\ build' = build
    BY <2>1 DEF Begin
  <2>4. Mode(call)' = Mode(x)
    BY <2>3 DEF Mode
  <2> QED BY <2>2, <2>3, <2>4 DEF Held
<1>2. ASSUME NEW t \in Threads, Step(t) PROVE Held'
  <2>1. UNCHANGED <<build, call, buffers>>
    BY <1>2 DEF Step, StartOrder, FinishOrder, LeaveKernel, Barrier, StartFft,
                FinishFft, SkipFft, LeaveFft
  <2> QED BY <2>1 DEF Held, Mode
<1>3. CASE Return
  <2>1. call # Idle /\ call' = Idle
        /\ buffers' = buffers - (IF Frees(call) THEN 1 ELSE 0)
    BY <1>3 DEF Return
  <2>2. <<build, call>> \in Scenarios
    BY <2>1 DEF RaceInv, InCall
  <2>3. Frees(call) <=> Mode(call) > 0
    <3>1. ~Leaking(build, call)
      BY <2>2 DEF NoneLeaks
    <3>2. Mode(call) = 2 => call.layout = "native" /\ build.cufft
      BY DEF Mode, fftc_mode
    <3>3. Mode(call) \in {0, 1, 2}
      BY DEF Mode, fftc_mode
    <3>4. call.dir = "synthesis" => Mode(call) # 2
      BY <3>1, <3>2 DEF Leaking
    <3> QED BY <3>3, <3>4 DEF Frees
  <2> QED BY <2>1, <2>3 DEF Held
<1>4. CASE UNCHANGED vars
  BY <1>4 DEF vars, Held, Mode
<1> QED BY <1>1, <1>2, <1>3, <1>4 DEF Next

(* But for synthesis in the native layout with cuFFT, every call frees the *)
(* buffer that it has allocated for FFTs out of place.                     *)
THEOREM BuffersAreFreed ==
  ASSUME NoneLeaks
  PROVE  Spec => []BuffersFreed
<1>1. Init => Held
  BY DEF Init, Held
<1>2. RaceInv /\ Held /\ [Next]_vars => Held'
  BY HeldNext
<1>3. Held => BuffersFreed
  BY DEF Held, BuffersFreed
<1> QED BY <1>1, <1>2, <1>3, TransformInvariant, PTL DEF Spec

-----------------------------------------------------------------------------
(* Results.                                                                *)

(* In a call that the code gets right, the FFTs are those that were        *)
(* planned, and analysis makes them outside if the threads do not.         *)
LEMMA NotSpoiled ==
  ASSUME NoneSpoiled, NEW x \in Call, build \in Build, <<build, x>> \in Scenarios
  PROVE  /\ Outcome(x, TRUE) = "right"
         /\ ~Inside(x) /\ x.dir = "analysis" => ~Shared(x)
<1>1. ~Spoiled(build, x)
  BY DEF NoneSpoiled
<1>2. CASE Shared(x) /\ x.dir = "analysis"
  <2>1. x.layout = "phi_contiguous"
    BY <1>1, <1>2, CallShape DEF Spoiled, Shared
  <2>2. Mode(x) = 1
    BY <2>1 DEF Mode, fftc_mode
  <2> QED BY <1>2, <2>2 DEF Outcome, Executed, Planned, Inside
<1>3. CASE ~(Shared(x) /\ x.dir = "analysis")
  BY <1>3 DEF Outcome, Executed
<1> QED BY <1>2, <1>3

LEMMA PastAt ==
  ASSUME call \in Call
  PROVE  \A t : /\ Past(t, "kernel") <=> KernelAt(call) < pc[t]
                /\ Inside(call) => (Past(t, "fft") <=> FftAt(call) < pc[t])
<1>1. \A k \in DOMAIN Phases(call) :
        /\ Phases(call)[k] = "kernel" <=> k = KernelAt(call)
        /\ Phases(call)[k] = "fft" <=> (Inside(call) /\ k = FftAt(call))
  BY PhaseAt
<1>2. /\ KernelAt(call) \in DOMAIN Phases(call)
      /\ Inside(call) => FftAt(call) \in DOMAIN Phases(call)
  BY PhaseDomain
<1> QED BY <1>1, <1>2 DEF Past

LEMMA PastNext ==
  ASSUME call \in Call, Steady
  PROVE  \A t : /\ Past(t, "kernel")' <=> KernelAt(call) < pc'[t]
                /\ Inside(call) => (Past(t, "fft")' <=> FftAt(call) < pc'[t])
<1>1. \A k \in DOMAIN Phases(call) :
        /\ Phases(call)[k] = "kernel" <=> k = KernelAt(call)
        /\ Phases(call)[k] = "fft" <=> (Inside(call) /\ k = FftAt(call))
  BY PhaseAt
<1>2. /\ KernelAt(call) \in DOMAIN Phases(call)
      /\ Inside(call) => FftAt(call) \in DOMAIN Phases(call)
  BY PhaseDomain
<1>3. Phases(call)' = Phases(call)
  BY SameCall
<1> QED BY <1>1, <1>2, <1>3 DEF Past

(* When all have been through the kernel, everything has been computed. *)
LEMMA AllComputed ==
  ASSUME AtomicInv, call # Idle, \A t \in Team : Past(t, "kernel")
  PROVE  /\ call.dir = "synthesis" => \A r \in Rows : row[r] = "new"
         /\ call.dir = "analysis" => \A m \in Orders : order[m] = "right"
<1>1. call \in Call /\ team \in Nat \ {0}
  BY TransformAssumption DEF AtomicInv, RaceInv, TypeOK
<1>2. \A i \in 0..Last(call) : Done(i)
  <2> SUFFICES ASSUME NEW i \in 0..Last(call) PROVE Done(i)
    OBVIOUS
  <2>1. PICK t \in Team : Share(t, i)
    BY <1>1, SharesCover
  <2>2. t \in Threads
    BY TransformAssumption DEF AtomicInv, RaceInv, TypeOK, Team, Threads
  <2>3. im[t] > Last(call) /\ im[t] \in Nat
    BY <2>2 DEF AtomicInv, OrdersDone, RaceInv, TypeOK
  <2>4. i < im[t]
    BY <1>1, <2>3, CallShape
  <2> QED BY <2>1, <2>4 DEF AtomicInv, OrdersDone
<1> QED BY <1>1, <1>2, RowsCovered, OrdersCovered DEF Done

(* And when all have been through the FFTs of the region. *)
LEMMA AllTransformed ==
  ASSUME AtomicInv, call # Idle, Inside(call), \A t \in Team : Past(t, "fft")
  PROVE  \A c \in Comps : fft[c] = "right"
<1> SUFFICES ASSUME NEW c \in Comps PROVE fft[c] = "right"
  OBVIOUS
<1>1. call \in Call /\ build \in Build /\ team \in Nat \ {0} /\ Team \subseteq Threads
  BY TransformAssumption DEF AtomicInv, RaceInv, TypeOK, Team, Threads
<1>2. 0 \in Team /\ comp[0] \in 1..4 /\ c \in 1..call.comps /\ c \in 1..3
  BY <1>1, CompsType DEF AtomicInv, RaceInv, TypeOK, Team
<1>3. comp[0] > call.comps
  BY <1>2 DEF AtomicInv, FftsDone
<1>4. fft[c] # "none" /\ fft[c] # "wrong"
  BY <1>1, <1>2, <1>3, CallShape DEF AtomicInv, FftsDone
<1>5. fft[c] # "running"
  <2> SUFFICES ASSUME fft[c] = "running" PROVE FALSE
    OBVIOUS
  <2>1. PICK t \in Team : Transforming(t)
    BY DEF AtomicInv, FftsDone
  <2>2. pc[t] \in DOMAIN Phases(call) /\ Phases(call)[pc[t]] = "fft"
    BY <2>1 DEF AtomicInv, RaceInv, InCall, Transforming, In
  <2>3. pc[t] \in 1..4
    BY <1>1, <2>2, PhaseAt
  <2> QED BY <2>2, <2>3 DEF Past
<1> QED BY <1>2, <1>4, <1>5 DEF AtomicInv, RaceInv, TypeOK

LEMMA SameShares ==
  ASSUME Steady
  PROVE  /\ Last(call)' = Last(call)
         /\ \A t, i : Share(t, i)' <=> Share(t, i)
         /\ \A i : /\ RowsOf(call, i)' = RowsOf(call, i)
                   /\ OrdersOf(call, i)' = OrdersOf(call, i)
BY DEF Steady, Last, Share, RowsOf, OrdersOf

LEMMA InvParts ==
  ASSUME AtomicInv, call # Idle
  PROVE  /\ RaceInv /\ TypeOK /\ OrdersDone /\ FftsDone
         /\ call \in Call /\ build \in Build /\ <<build, call>> \in Scenarios
         /\ team \in Nat \ {0} /\ Team \subseteq Threads /\ 0 \in Team
         /\ Last(call) \in Nat /\ Comps = 1..call.comps /\ Comps \subseteq 1..3
         /\ call.comps \in 1..3 /\ call.dir \in {"synthesis", "analysis"}
<1>1. RaceInv /\ TypeOK /\ OrdersDone /\ FftsDone /\ InCall
  BY DEF AtomicInv, RaceInv
<1>2. call \in Call /\ build \in Build /\ <<build, call>> \in Scenarios
  BY <1>1 DEF TypeOK, InCall
<1>3. team \in Nat \ {0} /\ Team \subseteq Threads /\ 0 \in Team
  BY <1>1, TransformAssumption DEF TypeOK, Team, Threads
<1> QED BY <1>1, <1>2, <1>3, CallShape, CompsType

(* A step that computes nothing keeps what was computed. *)
LEMMA OrdersKept ==
  ASSUME AtomicInv, Steady, call # Idle, NEW t \in Team, OthersStay(t),
         UNCHANGED <<im, row, order>>,
         KernelAt(call) < pc'[t] => KernelAt(call) < pc[t] \/ im[t] > Last(call)
  PROVE  OrdersDone'
<1>1. OrdersDone /\ call \in Call /\ Team \subseteq Threads
  BY InvParts
<1>2. Team' = Team /\ call' = call
  BY SameCall DEF Steady
<1>3. \A i : Done(i)' <=> Done(i)
  BY <1>2, SameShares DEF Done
<1>4. ASSUME NEW u \in Team, Past(u, "kernel")'
      PROVE  im[u] > Last(call)
  <2>1. KernelAt(call) < pc'[u]
    BY <1>1, <1>4, PastNext
  <2>2. Past(u, "kernel") \/ im[u] > Last(call)
    BY <1>1, <2>1, PastAt DEF OthersStay
  <2> QED BY <1>1, <2>2 DEF OrdersDone
<1> QED BY <1>1, <1>2, <1>3, <1>4, SameShares DEF OrdersDone

LEMMA FftsKept ==
  ASSUME AtomicInv, Steady, call # Idle, NEW t \in Team, OthersStay(t),
         UNCHANGED <<fft, comp>>, ~Transforming(t),
         Inside(call) /\ FftAt(call) < pc'[t] =>
            FftAt(call) < pc[t] \/ comp[t] > call.comps
  PROVE  FftsDone'
<1>1. FftsDone /\ call \in Call /\ Team \subseteq Threads
  BY InvParts
<1>2. Team' = Team /\ call' = call /\ Inside(call)' = Inside(call) /\ Comps' = Comps
      /\ Phases(call)' = Phases(call)
  BY SameCall DEF Steady
<1>3. \A u \in Team : Transforming(u) => Transforming(u)'
  BY <1>1, <1>2 DEF Transforming, In, OthersStay
<1>4. ASSUME Inside(call), NEW u \in Team, Past(u, "fft")'
      PROVE  comp[u] > call.comps
  <2>1. FftAt(call) < pc'[u]
    BY <1>1, <1>4, PastNext
  <2>2. Past(u, "fft") \/ comp[u] > call.comps
    BY <1>1, <1>4, <2>1, PastAt DEF OthersStay
  <2> QED BY <1>1, <1>4, <2>2 DEF FftsDone
<1>5. CASE Inside(call)
  <2>1. \A c \in Comps : fft'[c] = "running" => \E u \in Team : Transforming(u)' /\ comp'[u] = c
    BY <1>1, <1>3, <1>5 DEF FftsDone
  <2> QED BY <1>1, <1>2, <1>4, <1>5, <2>1 DEF FftsDone
<1>6. CASE ~Inside(call)
  BY <1>1, <1>2, <1>6 DEF FftsDone
<1> QED BY <1>5, <1>6

LEMMA StartOrderDone ==
  ASSUME AtomicInv, NEW t \in Threads, StartOrder(t)
  PROVE  OrdersDone' /\ FftsDone'
<1>1. /\ t \in Team /\ call # Idle /\ pc[t] \in DOMAIN Phases(call)
      /\ im[t] \in Nat /\ Share(t, im[t]) /\ In(t, "kernel")
  BY InTeam DEF StartOrder, AtomicInv
<1>2. /\ RaceInv /\ TypeOK /\ OrdersDone /\ call \in Call /\ team \in Nat \ {0}
      /\ Last(call) \in Nat /\ Team \subseteq Threads
  BY <1>1, InvParts
<1>3. UNCHANGED <<pc, im, comp, fft, order>> /\ Steady /\ im[t] \in 0..Last(call)
      /\ row' = [r \in Rows |-> IF call.dir = "synthesis" /\ r \in RowsOf(call, im[t])
                                THEN "half" ELSE row[r]]
  BY <1>1, <1>2 DEF StartOrder, Steady
<1>4. OthersStay(t)
  BY <1>2 DEF OthersStay, TypeOK, StartOrder
<1>5. ASSUME NEW u \in Team, NEW i \in 0..Last(call), Share(u, i), i < im[u]
      PROVE  Done(i)'
  <2>1. i # im[t]
    <3> SUFFICES ASSUME i = im[t] PROVE FALSE
      OBVIOUS
    <3>1. u = t
      BY <1>1, <1>2, <1>5, SharesApart
    <3> QED BY <1>5, <3>1
  <2>2. RowsOf(call, i) \cap RowsOf(call, im[t]) = {} /\ RowsOf(call, i) \subseteq Rows
    BY <1>2, <1>3, <2>1, RowsApart
  <2>3. Done(i)
    BY <1>1, <1>2, <1>5 DEF OrdersDone
  <2> QED BY <1>3, <2>2, <2>3, SameShares DEF Done, Steady
<1>6. OrdersDone'
  <2>1. Team' = Team /\ call' = call
    BY <1>3, SameCall DEF Steady
  <2>2. \A u \in Team : Past(u, "kernel")' => im[u] > Last(call)
    BY <1>1, <1>2, <1>3, PastAt, PastNext DEF OrdersDone
  <2> QED BY <1>3, <1>5, <2>1, <2>2, SameShares DEF OrdersDone
<1>7. FftsDone'
  BY <1>1, <1>3, <1>4, FftsKept DEF Transforming, StartOrder
<1> QED BY <1>6, <1>7

(* In analysis the kernel reads what the FFTs have written. *)
LEMMA KernelReads ==
  ASSUME AtomicInv, NEW t \in Team, In(t, "kernel"), call.dir = "analysis"
  PROVE  \A c \in Comps : fft[c] = "right"
<1>1. call # Idle
  BY DEF In
<1>2. RaceInv /\ FftsDone /\ call \in Call /\ Team \subseteq Threads
  BY <1>1, InvParts
<1>3. CASE ~Inside(call)
  BY <1>1, <1>2, <1>3 DEF FftsDone
<1>4. CASE Inside(call)
  <2>1. pc[t] = 3
    <3>1. pc[t] \in DOMAIN Phases(call)
      BY <1>1, <1>2 DEF RaceInv, InCall
    <3> QED BY <1>2, <1>4, <3>1, PhaseAt DEF In, KernelAt
  <2>2. \A u \in Team : pc[u] >= 2
    BY <1>1, <1>2, <1>4, <2>1 DEF RaceInv, BarrierHolds
  <2>3. \A u \in Team : pc[u] \in 1..4
    BY <1>2 DEF RaceInv, TypeOK
  <2>4. \A u \in Team : Past(u, "fft")
    BY <1>2, <1>4, <2>2, <2>3, PastAt DEF FftAt
  <2> QED BY <1>1, <1>4, <2>4, AllTransformed
<1> QED BY <1>3, <1>4

LEMMA FinishOrderDone ==
  ASSUME AtomicInv, NEW t \in Threads, FinishOrder(t)
  PROVE  OrdersDone' /\ FftsDone'
<1>1. /\ t \in Team /\ call # Idle /\ pc[t] \in DOMAIN Phases(call)
      /\ im[t] \in Nat /\ Share(t, im[t]) /\ In(t, "kernel")
  BY InTeam DEF FinishOrder, AtomicInv
<1>2. /\ RaceInv /\ TypeOK /\ OrdersDone /\ call \in Call /\ team \in Nat \ {0}
      /\ Last(call) \in Nat /\ Team \subseteq Threads
  BY <1>1, InvParts
<1>3. UNCHANGED <<pc, comp, fft>> /\ Steady
      /\ im' = [im EXCEPT ![t] = im[t] + team]
      /\ row' = [r \in Rows |-> IF call.dir = "synthesis" /\ r \in RowsOf(call, im[t])
                                THEN "new" ELSE row[r]]
  BY DEF FinishOrder, Steady, Stride
<1>4. OthersStay(t)
  BY <1>2 DEF OthersStay, TypeOK, FinishOrder
<1>5. call.dir = "analysis" =>
        order' = [m \in Orders |-> IF m \in OrdersOf(call, im[t]) THEN "right" ELSE order[m]]
  <2> SUFFICES ASSUME call.dir = "analysis"
               PROVE  order' = [m \in Orders |->
                        IF m \in OrdersOf(call, im[t]) THEN "right" ELSE order[m]]
    OBVIOUS
  <2>1. \A c \in Comps : fft[c] = "right"
    BY <1>1, KernelReads
  <2> QED BY <2>1 DEF FinishOrder
<1>6. im[t] <= Last(call) /\ im'[t] = im[t] + team
  BY <1>1, <1>2, <1>3, NotBoth DEF TypeOK, FinishOrder
<1>7. \A i \in 0..Last(call) : RowsOf(call, i) \subseteq Rows /\ OrdersOf(call, i) \subseteq Orders
  BY <1>2, RowsApart
<1>8. \A i \in 0..Last(call) : Done(i) \/ i = im[t] => Done(i)'
  BY <1>2, <1>3, <1>5, <1>7, CallShape, SameShares DEF Done, Steady
<1>9. ASSUME NEW u \in Team, NEW i \in 0..Last(call), Share(u, i), i < im'[u]
      PROVE  Done(i)'
  <2>1. CASE i < im[u]
    BY <1>1, <1>2, <1>8, <1>9, <2>1 DEF OrdersDone
  <2>2. CASE ~(i < im[u])
    <3>1. u = t
      BY <1>4, <1>9, <2>2, <1>2 DEF OthersStay
    <3>2. i <= im[t]
      BY <1>1, <1>2, <1>6, <1>9, <3>1, ShareNext
    <3> QED BY <1>1, <1>8, <2>2, <3>1, <3>2
  <2> QED BY <2>1, <2>2
<1>10. OrdersDone'
  <2>1. Team' = Team /\ call' = call
    BY <1>3, SameCall DEF Steady
  <2>2. ASSUME NEW u \in Team, Past(u, "kernel")' PROVE im'[u] > Last(call)
    <3>1. im[u] > Last(call) /\ im[u] \in Nat
      BY <1>1, <1>2, <1>3, <2>2, PastAt, PastNext DEF OrdersDone, TypeOK
    <3>2. u # t
      BY <1>6, <3>1, <1>2
    <3> QED BY <1>2, <1>4, <3>1, <3>2 DEF OthersStay
  <2> QED BY <1>1, <1>3, <1>9, <2>1, <2>2, SameShares DEF OrdersDone
<1>11. FftsDone'
  <2>1. ~Transforming(t)
    <3>1. ~In(t, "fft")
      BY <1>1 DEF In
    <3> QED BY <3>1 DEF Transforming
  <2> QED BY <1>1, <1>3, <1>4, <2>1, FftsKept
<1> QED BY <1>10, <1>11

LEMMA LeaveKernelDone ==
  ASSUME AtomicInv, NEW t \in Threads, LeaveKernel(t)
  PROVE  OrdersDone' /\ FftsDone'
<1>1. /\ t \in Team /\ call # Idle /\ call \in Call /\ pc[t] \in DOMAIN Phases(call)
      /\ pc[t] \in 1..4 /\ Phases(call)[pc[t]] = "kernel" /\ TypeOK
  BY InTeam DEF LeaveKernel, AtomicInv, RaceInv
<1>2. UNCHANGED <<busy, im, comp, fft, row, order>> /\ Steady
      /\ pc' = [pc EXCEPT ![t] = pc[t] + 1] /\ busy[t] = {} /\ im[t] > Last(call)
  BY DEF LeaveKernel, Steady, Proceed
<1>3. OthersStay(t) /\ pc'[t] = pc[t] + 1
  BY <1>1, <1>2 DEF OthersStay, TypeOK
<1>4. OrdersDone'
  BY <1>1, <1>2, <1>3, OrdersKept
<1>5. Inside(call) /\ FftAt(call) < pc'[t] => FftAt(call) < pc[t]
  <2>1. pc[t] = KernelAt(call) /\ call.dir \in {"synthesis", "analysis"}
    BY <1>1, PhaseAt, CallShape
  <2> QED BY <1>1, <1>3, <2>1 DEF KernelAt, FftAt
<1>6. FftsDone'
  BY <1>1, <1>2, <1>3, <1>5, FftsKept DEF Transforming
<1> QED BY <1>4, <1>6

LEMMA BarrierDone ==
  ASSUME AtomicInv, NEW t \in Threads, Barrier(t)
  PROVE  OrdersDone' /\ FftsDone'
<1>1. /\ t \in Team /\ call # Idle /\ call \in Call /\ pc[t] \in DOMAIN Phases(call)
      /\ pc[t] \in 1..4 /\ Phases(call)[pc[t]] = "barrier" /\ TypeOK
  BY InTeam DEF Barrier, AtomicInv, RaceInv
<1>2. UNCHANGED <<busy, im, comp, fft, row, order>> /\ Steady
      /\ pc' = [pc EXCEPT ![t] = pc[t] + 1]
  BY DEF Barrier, Steady, Proceed
<1>3. OthersStay(t) /\ pc'[t] = pc[t] + 1
  BY <1>1, <1>2 DEF OthersStay, TypeOK
<1>4. Inside(call) /\ pc[t] = 2 /\ call.dir \in {"synthesis", "analysis"}
  BY <1>1, PhaseAt, CallShape
<1>5. OrdersDone'
  BY <1>1, <1>2, <1>3, <1>4, OrdersKept DEF KernelAt
<1>6. ~Transforming(t)
  BY <1>1 DEF Transforming, In
<1>7. FftsDone'
  BY <1>1, <1>2, <1>3, <1>4, <1>6, FftsKept DEF FftAt
<1> QED BY <1>5, <1>7

LEMMA StartFftDone ==
  ASSUME AtomicInv, NEW t \in Threads, StartFft(t)
  PROVE  OrdersDone' /\ FftsDone'
<1>1. /\ t \in Team /\ call # Idle /\ pc[t] \in DOMAIN Phases(call)
      /\ In(t, "fft") /\ Phases(call)[pc[t]] = "fft"
  BY InTeam DEF StartFft, AtomicInv
<1>2. /\ TypeOK /\ FftsDone /\ call \in Call /\ Team \subseteq Threads
      /\ Comps \subseteq 1..3
  BY <1>1, InvParts
<1>3. UNCHANGED <<pc, im, comp, row, order>> /\ Steady /\ busy[t] = {}
      /\ comp[t] \in Comps /\ fft' = [fft EXCEPT ![comp[t]] = "running"]
      /\ busy' = [busy EXCEPT ![t] = {comp[t]} \X Rows]
  BY DEF StartFft, Steady
<1>4. OthersStay(t) /\ busy'[t] # {}
  <2>1. OthersStay(t) /\ busy'[t] = {comp[t]} \X Rows
    BY <1>2, <1>3 DEF OthersStay, TypeOK
  <2>2. <<comp[t], 0>> \in {comp[t]} \X Rows
    BY RowsExist
  <2> QED BY <2>1, <2>2
<1>5. OrdersDone'
  BY <1>1, <1>3, <1>4, OrdersKept
<1>6. /\ Team' = Team /\ call' = call /\ Inside(call)' = Inside(call) /\ Comps' = Comps
      /\ Phases(call)' = Phases(call)
  BY <1>3, SameCall DEF Steady
<1>7. Inside(call)
  BY <1>1, <1>2, PhaseAt
<1>8. Transforming(t)' /\ \A u \in Team : Transforming(u) => Transforming(u)'
  BY <1>1, <1>2, <1>3, <1>4, <1>6 DEF Transforming, In, OthersStay
<1>9. \A c \in Comps : fft'[c] = IF c = comp[t] THEN "running" ELSE fft[c]
  BY <1>2, <1>3 DEF TypeOK
<1>10. \A c \in Comps : fft'[c] = "running" =>
         \E u \in Team : Transforming(u)' /\ comp'[u] = c
  BY <1>1, <1>2, <1>3, <1>7, <1>8, <1>9 DEF FftsDone
<1>11. \A u \in Team : Past(u, "fft")' => comp'[u] > call.comps
  BY <1>1, <1>2, <1>3, <1>7, PastAt, PastNext DEF FftsDone
<1>12. FftsDone'
  BY <1>1, <1>2, <1>3, <1>6, <1>7, <1>9, <1>10, <1>11 DEF FftsDone
<1> QED BY <1>5, <1>12

(* In synthesis the FFTs read what the kernel has written. *)
LEMMA FftReads ==
  ASSUME AtomicInv, NEW t \in Team, In(t, "fft"), call.dir = "synthesis"
  PROVE  \A r \in Rows : row[r] = "new"
<1>1. call # Idle
  BY DEF In
<1>2. RaceInv /\ call \in Call /\ Team \subseteq Threads
  BY <1>1, InvParts
<1>3. pc[t] = 3 /\ Inside(call)
  <2>1. pc[t] \in DOMAIN Phases(call)
    BY <1>1, <1>2 DEF RaceInv, InCall
  <2> QED BY <1>2, <2>1, PhaseAt DEF In, FftAt
<1>4. \A u \in Team : pc[u] >= 2 /\ pc[u] \in 1..4
  BY <1>1, <1>2, <1>3 DEF RaceInv, BarrierHolds, TypeOK
<1>5. \A u \in Team : Past(u, "kernel")
  BY <1>2, <1>4, PastAt DEF KernelAt
<1> QED BY <1>1, <1>5, AllComputed

LEMMA FinishFftDone ==
  ASSUME NoneSpoiled, AtomicInv, NEW t \in Threads, FinishFft(t)
  PROVE  OrdersDone' /\ FftsDone'
<1>1. /\ t \in Team /\ call # Idle /\ pc[t] \in DOMAIN Phases(call)
      /\ In(t, "fft") /\ Phases(call)[pc[t]] = "fft" /\ Transforming(t)
  BY InTeam DEF FinishFft, AtomicInv, Transforming
<1>2. /\ RaceInv /\ TypeOK /\ FftsDone /\ call \in Call /\ Team \subseteq Threads
      /\ Comps \subseteq 1..3 /\ build \in Build /\ <<build, call>> \in Scenarios
  BY <1>1, InvParts
<1>3. comp[t] \in Comps
  BY <1>1, <1>2, NotBoth DEF Transforming
<1>4. /\ UNCHANGED <<pc, im, row, order>> /\ Steady
      /\ busy' = [busy EXCEPT ![t] = {}]
      /\ comp' = [comp EXCEPT ![t] = comp[t] + 1]
      /\ fft' = [fft EXCEPT ![comp[t]] = "right"]
  <2>1. Outcome(call, TRUE) = "right"
    BY <1>2, NotSpoiled
  <2>2. call.dir = "synthesis" => \A r \in Rows : row[r] = "new"
    BY <1>1, FftReads
  <2>3. Outcome(call, call.dir = "synthesis" => \A r \in Rows : row[r] = "new") = "right"
    BY <2>1, <2>2 DEF Outcome
  <2> QED BY <2>3 DEF FinishFft, Steady
<1>5. OthersStay(t) /\ comp'[t] = comp[t] + 1
  BY <1>2, <1>4 DEF OthersStay, TypeOK
<1>6. OrdersDone'
  BY <1>1, <1>4, <1>5, OrdersKept
<1>7. /\ Team' = Team /\ call' = call /\ Inside(call)' = Inside(call) /\ Comps' = Comps
      /\ Phases(call)' = Phases(call)
  BY <1>4, SameCall DEF Steady
<1>8. Inside(call) /\ pc[t] = FftAt(call)
  BY <1>1, <1>2, PhaseAt
<1>9. \A c \in Comps : fft'[c] = IF c = comp[t] THEN "right" ELSE fft[c]
  BY <1>2, <1>4 DEF TypeOK
<1>10. \A u \in Team, c \in Comps : c < comp'[u] => fft'[c] # "none"
  <2> SUFFICES ASSUME NEW u \in Team, NEW c \in Comps, c < comp'[u], c # comp[t]
               PROVE  fft[c] # "none"
    BY <1>9
  <2>1. c < comp[u]
    BY <1>2, <1>3, <1>5 DEF OthersStay, TypeOK
  <2> QED BY <1>1, <1>2, <1>8, <2>1 DEF FftsDone
<1>11. \A c \in Comps : fft'[c] = "running" =>
         \E u \in Team : Transforming(u)' /\ comp'[u] = c
  <2> SUFFICES ASSUME NEW c \in Comps, fft[c] = "running", c # comp[t]
               PROVE  \E u \in Team : Transforming(u)' /\ comp'[u] = c
    BY <1>9
  <2>1. PICK u \in Team : Transforming(u) /\ comp[u] = c
    BY <1>1, <1>2, <1>8 DEF FftsDone
  <2>2. u # t /\ Transforming(u)' /\ comp'[u] = c
    BY <1>2, <1>5, <1>7, <2>1 DEF Transforming, In, OthersStay
  <2> QED BY <2>2
<1>12. \A u \in Team : Past(u, "fft")' => comp'[u] > call.comps
  <2> SUFFICES ASSUME NEW u \in Team, Past(u, "fft")' PROVE comp'[u] > call.comps
    OBVIOUS
  <2>1. Past(u, "fft") /\ FftAt(call) < pc[u]
    BY <1>2, <1>4, <1>8, PastAt, PastNext
  <2>2. u # t
    BY <1>2, <1>8, <2>1 DEF TypeOK
  <2> QED BY <1>1, <1>2, <1>5, <1>8, <2>1, <2>2 DEF FftsDone, OthersStay
<1>13. FftsDone'
  BY <1>1, <1>2, <1>7, <1>8, <1>9, <1>10, <1>11, <1>12 DEF FftsDone
<1> QED BY <1>6, <1>13

LEMMA SkipFftDone ==
  ASSUME AtomicInv, NEW t \in Threads, SkipFft(t)
  PROVE  OrdersDone' /\ FftsDone'
<1>1. /\ t \in Team /\ call # Idle /\ pc[t] \in DOMAIN Phases(call)
      /\ In(t, "fft") /\ Phases(call)[pc[t]] = "fft"
  BY InTeam DEF SkipFft, AtomicInv
<1>2. /\ TypeOK /\ FftsDone /\ call \in Call /\ Team \subseteq Threads
      /\ Comps \subseteq 1..3
  BY <1>1, InvParts
<1>3. UNCHANGED <<pc, im, busy, fft, row, order>> /\ Steady /\ busy[t] = {}
      /\ comp[t] \in Comps /\ fft[comp[t]] # "none"
      /\ comp' = [comp EXCEPT ![t] = comp[t] + 1]
  BY DEF SkipFft, Steady
<1>4. OthersStay(t) /\ comp'[t] = comp[t] + 1
  BY <1>2, <1>3 DEF OthersStay, TypeOK
<1>5. OrdersDone'
  BY <1>1, <1>3, <1>4, OrdersKept
<1>6. /\ Team' = Team /\ call' = call /\ Inside(call)' = Inside(call) /\ Comps' = Comps
      /\ Phases(call)' = Phases(call)
  BY <1>3, SameCall DEF Steady
<1>7. Inside(call) /\ pc[t] = FftAt(call)
  BY <1>1, <1>2, PhaseAt
<1>8. \A u \in Team, c \in Comps : c < comp'[u] => fft[c] # "none"
  <2> SUFFICES ASSUME NEW u \in Team, NEW c \in Comps, c < comp'[u], c # comp[t]
               PROVE  fft[c] # "none"
    BY <1>3
  <2>1. c < comp[u]
    BY <1>2, <1>3, <1>4 DEF OthersStay, TypeOK
  <2> QED BY <1>1, <1>2, <1>7, <2>1 DEF FftsDone
<1>9. \A c \in Comps : fft[c] = "running" =>
        \E u \in Team : Transforming(u)' /\ comp'[u] = c
  <2> SUFFICES ASSUME NEW c \in Comps, fft[c] = "running"
               PROVE  \E u \in Team : Transforming(u)' /\ comp'[u] = c
    OBVIOUS
  <2>1. PICK u \in Team : Transforming(u) /\ comp[u] = c
    BY <1>1, <1>2, <1>7 DEF FftsDone
  <2>2. u # t /\ Transforming(u)' /\ comp'[u] = c
    BY <1>2, <1>3, <1>4, <1>6, <2>1 DEF Transforming, In, OthersStay
  <2> QED BY <2>2
<1>10. \A u \in Team : Past(u, "fft")' => comp'[u] > call.comps
  <2> SUFFICES ASSUME NEW u \in Team, Past(u, "fft")' PROVE comp'[u] > call.comps
    OBVIOUS
  <2>1. Past(u, "fft") /\ FftAt(call) < pc[u]
    BY <1>2, <1>3, <1>7, PastAt, PastNext
  <2>2. u # t
    BY <1>2, <1>7, <2>1 DEF TypeOK
  <2> QED BY <1>1, <1>2, <1>4, <1>7, <2>1, <2>2 DEF FftsDone, OthersStay
<1>11. FftsDone'
  BY <1>1, <1>2, <1>3, <1>6, <1>7, <1>8, <1>9, <1>10 DEF FftsDone
<1> QED BY <1>5, <1>11

LEMMA LeaveFftDone ==
  ASSUME AtomicInv, NEW t \in Threads, LeaveFft(t)
  PROVE  OrdersDone' /\ FftsDone'
<1>1. /\ t \in Team /\ call # Idle /\ call \in Call /\ pc[t] \in DOMAIN Phases(call)
      /\ pc[t] \in 1..4 /\ comp[t] \in 1..4 /\ Phases(call)[pc[t]] = "fft" /\ TypeOK
  BY InTeam DEF LeaveFft, AtomicInv, RaceInv
<1>2. UNCHANGED <<busy, im, comp, fft, row, order>> /\ Steady
      /\ pc' = [pc EXCEPT ![t] = pc[t] + 1] /\ busy[t] = {} /\ comp[t] \notin Comps
  BY DEF LeaveFft, Steady, Proceed
<1>3. OthersStay(t) /\ pc'[t] = pc[t] + 1
  BY <1>1, <1>2 DEF OthersStay, TypeOK
<1>4. Inside(call) /\ pc[t] = FftAt(call) /\ call.dir \in {"synthesis", "analysis"}
  BY <1>1, PhaseAt, CallShape
<1>5. OrdersDone'
  BY <1>1, <1>2, <1>3, <1>4, OrdersKept DEF KernelAt, FftAt
<1>6. comp[t] > call.comps
  BY <1>1, <1>2, CompsType, CallShape
<1>7. FftsDone'
  BY <1>1, <1>2, <1>3, <1>6, FftsKept DEF Transforming
<1> QED BY <1>5, <1>7

LEMMA InitAtomic == Init => AtomicInv
BY InitRace DEF Init, AtomicInv, OrdersDone, FftsDone

LEMMA BeginDone ==
  ASSUME NoneSpoiled, RaceInv, NEW x, NEW n \in 1..MaxTeam, Begin(x, n)
  PROVE  OrdersDone' /\ FftsDone'
<1>1. TypeOK /\ AtRest /\ call = Idle /\ <<build, x>> \in Scenarios
  BY DEF RaceInv, Begin
<1>2. x \in Call /\ build \in Build
  BY <1>1, TransformAssumption
<1>3. /\ call' = x /\ team' = n /\ build' = build
      /\ UNCHANGED <<pc, im, comp, row, order>>
      /\ pc = [t \in Threads |-> 1] /\ im = [t \in Threads |-> t]
      /\ comp = [t \in Threads |-> 1]
  BY <1>1 DEF Begin, AtRest
<1>4. n \in Nat \ {0} /\ Team' \subseteq Threads /\ Threads \subseteq Nat
  BY <1>3, TransformAssumption DEF Team, Threads
<1>5. \A t \in Team' : pc'[t] = 1 /\ im'[t] = t /\ comp'[t] = 1 /\ t \in Nat
  BY <1>3, <1>4
<1>6. Phases(call)' = Phases(x) /\ Inside(call)' = Inside(x) /\ Comps' = 1..x.comps
      /\ Last(call)' = Last(x)
  BY <1>3 DEF Phases, Inside, Shared, Mode, Comps, Last
<1>7. \A t \in Team' : ~Past(t, "kernel")' /\ (Inside(x) => ~Past(t, "fft")')
  <2>1. /\ KernelAt(x) \in DOMAIN Phases(x) /\ Phases(x)[KernelAt(x)] = "kernel"
        /\ Inside(x) => FftAt(x) \in DOMAIN Phases(x) /\ Phases(x)[FftAt(x)] = "fft"
    BY <1>2, PhaseDomain
  <2>2. ~(KernelAt(x) < 1) /\ ~(FftAt(x) < 1)
    BY DEF KernelAt, FftAt
  <2> QED BY <1>5, <1>6, <2>1, <2>2 DEF Past
<1>8. ASSUME NEW t \in Team', NEW i \in 0..Last(x), Share(t, i)'
      PROVE  ~(i < im'[t])
  <2>1. PICK k \in 0..i : i = t + k * n
    BY <1>3, <1>8 DEF Share
  <2>2. k \in Nat /\ k * n \in Nat
    BY <1>4
  <2> QED BY <1>5, <2>1, <2>2
<1>9. OrdersDone'
  BY <1>6, <1>7, <1>8 DEF OrdersDone
<1>10. fft' = [c \in 1..3 |-> IF x.dir = "analysis" /\ ~Shared(x) /\ c <= x.comps
                              THEN "right" ELSE "none"]
  BY <1>1, <1>2, NotSpoiled DEF Begin
<1>11. 1..x.comps \subseteq 1..3 /\ x.dir \in {"synthesis", "analysis"}
  BY <1>2, CallShape
<1>12. ASSUME Inside(x) PROVE FftsDone'
  <2>1. \A c \in 1..x.comps : fft'[c] = "none"
    BY <1>10, <1>11, <1>12 DEF Inside
  <2>2. \A c \in 1..x.comps : ~(c < 1)
    BY <1>11
  <2>3. \A t \in Team', c \in Comps' : ~(c < comp'[t])
    BY <1>5, <1>6, <2>2
  <2>4. \A c \in Comps' : fft'[c] = "none"
    BY <1>6, <2>1
  <2> QED BY <1>6, <1>7, <1>12, <2>3, <2>4 DEF FftsDone
<1>13. ASSUME ~Inside(x) PROVE FftsDone'
  <2>1. x.dir = "analysis" => ~Shared(x)
    BY <1>1, <1>2, <1>13, NotSpoiled
  <2>2. \A c \in Comps' :
          fft'[c] = IF x.dir = "synthesis" THEN "none" ELSE "right"
    BY <1>6, <1>10, <1>11, <2>1
  <2>3. \A c \in Comps' : fft'[c] # "wrong"
    BY <1>11, <2>2
  <2> QED BY <1>3, <1>6, <1>13, <2>2, <2>3 DEF FftsDone
<1> QED BY <1>9, <1>12, <1>13

LEMMA StutterDone ==
  ASSUME AtomicInv, UNCHANGED vars
  PROVE  OrdersDone' /\ FftsDone'
<1>1. CASE call = Idle
  BY <1>1 DEF vars, OrdersDone, FftsDone
<1>2. CASE call # Idle
  <2>1. 0 \in Team
    BY <1>2, InvParts
  <2>2. Steady /\ OthersStay(0) /\ UNCHANGED <<pc, im, comp, busy, row, fft, order>>
    BY DEF vars, Steady, OthersStay
  <2>3. OrdersDone'
    BY <1>2, <2>1, <2>2, OrdersKept
  <2>4. Phases(call)' = Phases(call) /\ Inside(call)' = Inside(call) /\ Comps' = Comps
        /\ Team' = Team /\ call' = call
    BY <2>2, SameCall DEF Steady
  <2>5. \A t : /\ Transforming(t)' <=> Transforming(t)
               /\ Past(t, "fft")' <=> Past(t, "fft")
    BY <2>2, <2>4 DEF Transforming, In, Past
  <2>6. FftsDone'
    BY <1>2, <2>2, <2>4, <2>5 DEF AtomicInv, FftsDone
  <2> QED BY <2>3, <2>6
<1> QED BY <1>1, <1>2

LEMMA AtomicNext ==
  ASSUME NoneSpoiled
  PROVE  AtomicInv /\ [Next]_vars => AtomicInv'
<1> SUFFICES ASSUME AtomicInv, [Next]_vars PROVE OrdersDone' /\ FftsDone'
  BY NextRace DEF AtomicInv
<1>1. CASE \E s \in Scenarios, n \in 1..MaxTeam : buffers < MaxBuffers /\ Begin(s[2], n)
  BY <1>1, BeginDone DEF AtomicInv
<1>2. ASSUME NEW t \in Threads, Step(t) PROVE OrdersDone' /\ FftsDone'
  BY <1>2, StartOrderDone, FinishOrderDone, LeaveKernelDone, BarrierDone,
     StartFftDone, FinishFftDone, SkipFftDone, LeaveFftDone DEF Step
<1>3. CASE Return
  BY <1>3 DEF Return, OrdersDone, FftsDone
<1>4. CASE UNCHANGED vars
  BY <1>4, StutterDone
<1> QED BY <1>1, <1>2, <1>3, <1>4 DEF Next

(* But for the calls whose FFTs the code gets wrong, no thread leaves an   *)
(* order or a component behind when it goes on, and none is computed from  *)
(* data that another has not finished.                                     *)
THEOREM NothingIsLeft ==
  ASSUME NoneSpoiled
  PROVE  Spec => []AtomicInv
<1>1. Init => AtomicInv
  BY InitAtomic
<1>2. AtomicInv /\ [Next]_vars => AtomicInv'
  BY AtomicNext
<1> QED BY <1>1, <1>2, PTL DEF Spec

(* When the threads have all come to the end, the result is right. *)
LEMMA ReturnsRight ==
  ASSUME NoneSpoiled, AtomicInv, Return
  PROVE  result' = "right"
<1>1. call # Idle /\ \A t \in Team : In(t, "end")
  BY DEF Return
<1>2. /\ RaceInv /\ FftsDone /\ call \in Call /\ build \in Build
      /\ <<build, call>> \in Scenarios /\ call.dir \in {"synthesis", "analysis"}
      /\ Comps = 1..call.comps
  BY <1>1, InvParts
<1>3. \A t \in Team : pc[t] = EndAt(call)
  <2> SUFFICES ASSUME NEW t \in Team PROVE pc[t] = EndAt(call)
    OBVIOUS
  <2>1. pc[t] \in DOMAIN Phases(call)
    BY <1>1, <1>2 DEF RaceInv, InCall
  <2> QED BY <1>1, <1>2, <2>1, PhaseAt DEF In
<1>4. \A t \in Team : Past(t, "kernel") /\ (Inside(call) => Past(t, "fft"))
  BY <1>2, <1>3, PastAt DEF KernelAt, FftAt, EndAt
<1>5. /\ call.dir = "synthesis" => \A r \in Rows : row[r] = "new"
      /\ call.dir = "analysis" => \A m \in Orders : order[m] = "right"
  BY <1>1, <1>4, AllComputed
<1>6. \A c \in Comps : FinalFft(call)[c] = "right"
  <2> SUFFICES ASSUME NEW c \in Comps PROVE FinalFft(call)[c] = "right"
    OBVIOUS
  <2>1. CASE Inside(call)
    BY <1>1, <1>2, <1>4, <2>1, AllTransformed DEF FinalFft
  <2>2. CASE ~Inside(call) /\ call.dir = "synthesis"
    <3>1. fft[c] = "none" /\ Outcome(call, TRUE) = "right"
      BY <1>1, <1>2, <2>2, NotSpoiled DEF FftsDone
    <3> QED BY <1>2, <1>5, <2>2, <3>1 DEF FinalFft, Outcome
  <2>3. CASE ~Inside(call) /\ call.dir = "analysis"
    BY <1>1, <1>2, <2>3 DEF FftsDone, FinalFft
  <2> QED BY <1>2, <2>1, <2>2, <2>3
<1> QED BY <1>5, <1>6 DEF Return

LEMMA AtomicStep ==
  ASSUME NoneSpoiled, AtomicInv, [Next]_vars
  PROVE  [Atomic!Next]_<<call, result>>
<1>1. CASE \E s \in Scenarios, n \in 1..MaxTeam : buffers < MaxBuffers /\ Begin(s[2], n)
  <2>1. PICK s \in Scenarios, n \in 1..MaxTeam : Begin(s[2], n)
    BY <1>1
  <2> QED BY <2>1 DEF Begin, Atomic!Next, Atomic!Begin
<1>2. ASSUME NEW t \in Threads, Step(t) PROVE UNCHANGED <<call, result>>
  BY <1>2 DEF Step, StartOrder, FinishOrder, LeaveKernel, Barrier, StartFft,
              FinishFft, SkipFft, LeaveFft
<1>3. CASE Return
  BY <1>3, ReturnsRight DEF Return, Atomic!Next, Atomic!Return
<1>4. CASE UNCHANGED vars
  BY <1>4 DEF vars
<1> QED BY <1>1, <1>2, <1>3, <1>4 DEF Next

(* But for the calls whose FFTs the code gets wrong, a transform shared by *)
(* any team of threads implements one that computes its result at once.    *)
THEOREM TransformIsAtomic ==
  ASSUME NoneSpoiled
  PROVE  Spec => AtomicSpec
<1>1. Init => Atomic!Init
  BY DEF Init, Atomic!Init
<1>2. AtomicInv /\ [Next]_vars => [Atomic!Next]_<<call, result>>
  BY AtomicStep
<1> QED BY <1>1, <1>2, NothingIsLeft, PTL DEF Spec, AtomicSpec, Atomic!Spec
=============================================================================
