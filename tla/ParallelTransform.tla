-------------------------- MODULE ParallelTransform -------------------------
(***************************************************************************)
(* One call of an on-the-fly transform of SHTns, as the kernels "fly" (one *)
(* thread), "omp" and "mic" (a team of threads) run it.                    *)
(*                                                                         *)
(* Synthesis computes, from the spherical harmonic coefficients of each    *)
(* order m, the rows m and NPHI-m of the Fourier representation, clears    *)
(* the rows in between, and then makes an inverse FFT of every component.  *)
(* Analysis makes the FFT first, and from rows m and NPHI-m computes the   *)
(* coefficients of order m.  The threads share out the orders, and in some *)
(* builds the FFTs of the components too.                                  *)
(*                                                                         *)
(* The kernels are those for NPHI > 1 in a build with vector instructions. *)
(***************************************************************************)
EXTENDS Integers, FiniteSets, Sequences

CONSTANTS
  NPHI, MMAX,   \* meridians, and the largest order over MRES
  MaxTeam,      \* the nthreads of the configuration
  Scenarios,    \* pairs of a build and a call it may receive
  Idle,
  MaxBuffers    \* bound on the buffers not freed

Build == [cufft : BOOLEAN,      \* HAVE_LIBCUFFT
          fftw_omp : BOOLEAN]   \* HAVE_LIBFFTW3_OMP

Call ==
  [dir : {"synthesis", "analysis"}, kernel : {"fly", "omp", "mic"},
   comps : 1..3,          \* components: scalar, vector, or both
   layout : {"native", "theta_contiguous", "phi_contiguous"},
   imlim : 1..(MMAX + 1)] \* one more than the last order used

(* The sampling condition that planFFT requires. *)
ASSUME TransformAssumption ==
  /\ MMAX \in Nat /\ NPHI \in Nat /\ NPHI > 2 * MMAX /\ NPHI > 1
  /\ MaxTeam \in Nat \ {0}
  /\ Scenarios \subseteq Build \X Call
  /\ Idle \notin Call
  /\ MaxBuffers \in Nat

VARIABLES
  build,     \* how the library was compiled
  call,      \* the call being executed, or Idle
  team,      \* the threads of the parallel region
  pc,        \* pc[t]: the part of the region that t is in
  im,        \* im[t]: its order in the kernel
  comp,      \* comp[t]: the component whose FFT t comes to next
  busy,      \* busy[t]: the cells that t is accessing: <<c, r>> is row r of
             \* component c, <<0, m>> the coefficients of order m
  row,       \* row[r]: is row r of the Fourier data computed?
  fft,       \* fft[c]: the state of the FFT of component c
  order,     \* order[m]: the coefficients of order m, in analysis
  buffers,   \* temporary buffers allocated
  result     \* of the last call

vars == <<build, call, team, pc, im, comp, busy, row, fft, order, buffers,
          result>>

Rows == 0..(NPHI - 1)
Orders == 0..MMAX
Comps == 1..call.comps
Threads == 0..(MaxTeam - 1)
Team == 0..(team - 1)

Init ==
  /\ build \in {s[1] : s \in Scenarios}
  /\ call = Idle
  /\ team = 1
  /\ pc = [t \in Threads |-> 1]
  /\ im = [t \in Threads |-> t]
  /\ comp = [t \in Threads |-> 1]
  /\ busy = [t \in Threads |-> {}]
  /\ row = [r \in Rows |-> "old"]
  /\ fft = [c \in 1..3 |-> "none"]
  /\ order = [m \in Orders |-> "old"]
  /\ buffers = 0
  /\ result = "none"

-----------------------------------------------------------------------------
(* planFFT: how the complex FFTs of a layout are to be executed.           *)

(* 0: in place, 1: split real and imaginary parts, 2: out of place. *)
fftc_mode(b, layout) ==
  CASE layout = "phi_contiguous" -> 1
    [] layout = "native" /\ b.cufft -> 2
    [] OTHER -> 0
Planned(mode) == IF mode = 1 THEN "split" ELSE "regular"

Mode(x) == fftc_mode(build, x.layout)

(* Are the FFTs of call x shared by the threads of the region?  Else the   *)
(* calling thread executes them, outside.  In the region, analysis tests   *)
(* fftc_mode > 0 before it looks for the in-place mode.                    *)
Shared(x) == x.kernel = "omp" /\ x.comps > 1 /\ ~build.fftw_omp
Inside(x) == Shared(x) /\ (x.dir = "analysis" => Mode(x) > 0)

(* Which kind of transform is executed, and so if the outcome is right. *)
Executed(x) ==
  IF Shared(x) /\ x.dir = "analysis" THEN "split" ELSE Planned(Mode(x))
Outcome(x, ready) ==
  IF ready /\ Executed(x) = Planned(Mode(x)) THEN "right" ELSE "wrong"

(* What a thread goes through in the parallel region. *)
Phases(x) ==
  IF ~Inside(x) THEN <<"kernel", "end">>
  ELSE IF x.dir = "synthesis" THEN <<"kernel", "barrier", "fft", "end">>
  ELSE <<"fft", "barrier", "kernel", "end">>

In(t, phase) == call # Idle /\ t \in Team /\ Phases(call)[pc[t]] = phase
Proceed(t) == pc' = [pc EXCEPT ![t] = @ + 1]

(* The calls for which the code is wrong.  Without fftw3_omp, the vector   *)
(* analysis of the "omp" kernel only makes the FFTs of the split mode; and *)
(* with cuFFT, synthesis in the native layout loses its buffer.            *)
Spoiled(b, x) ==
  /\ ~b.fftw_omp /\ x.kernel = "omp" /\ x.dir = "analysis" /\ x.comps > 1
  /\ x.layout # "phi_contiguous"
Leaking(b, x) == b.cufft /\ x.layout = "native" /\ x.dir = "synthesis"
NoneSpoiled == \A s \in Scenarios : ~Spoiled(s[1], s[2])
NoneLeaks == \A s \in Scenarios : ~Leaking(s[1], s[2])

-----------------------------------------------------------------------------
(* The calling thread, before and after the region.                        *)

(* Out of place, a buffer receives the Fourier data.  The team may be      *)
(* smaller than requested.  Analysis outside of the region begins with the *)
(* FFTs, while the thread is alone.                                        *)
Begin(x, n) ==
  /\ call = Idle
  /\ <<build, x>> \in Scenarios
  /\ n <= (IF x.kernel = "fly" THEN 1 ELSE MaxTeam)
  /\ call' = x
  /\ team' = n
  /\ buffers' = buffers + (IF Mode(x) > 0 THEN 1 ELSE 0)
  /\ fft' = [c \in 1..3 |->
               IF x.dir = "analysis" /\ ~Shared(x) /\ c <= x.comps
               THEN Outcome(x, TRUE) ELSE "none"]
  /\ UNCHANGED <<build, pc, im, comp, busy, row, order, result>>

MFrees(x) == Mode(x) = 1

(* Is the buffer freed?  Synthesis only does it in the split mode. *)
Frees(x) == IF x.dir = "synthesis" THEN Mode(x) = 1 ELSE Mode(x) > 0

MFinalFft(x) ==
  [c \in 1..x.comps |->
     IF x.dir = "synthesis"
     THEN Outcome(x, fft[c] = "none" /\ \A r \in Rows : row[r] = "new")
     ELSE fft[c]]

(* The FFTs of synthesis when the region has not made them. *)
FinalFft(x) ==
  [c \in 1..x.comps |->
     IF x.dir = "synthesis" /\ ~Inside(x)
     THEN Outcome(x, fft[c] = "none" /\ \A r \in Rows : row[r] = "new")
     ELSE fft[c]]

Return ==
  /\ call # Idle
  /\ \A t \in Team : In(t, "end")
  /\ LET done == /\ \A c \in Comps : FinalFft(call)[c] = "right"
                 /\ call.dir = "analysis" => \A m \in Orders : order[m] = "right"
     IN  result' = IF done THEN "right" ELSE "wrong"
  /\ buffers' = buffers - (IF Frees(call) THEN 1 ELSE 0)
  /\ call' = Idle
  /\ team' = 1
  /\ pc' = [t \in Threads |-> 1]
  /\ im' = [t \in Threads |-> t]
  /\ comp' = [t \in Threads |-> 1]
  /\ busy' = [t \in Threads |-> {}]
  /\ row' = [r \in Rows |-> "old"]
  /\ fft' = [c \in 1..3 |-> "none"]
  /\ order' = [m \in Orders |-> "old"]
  /\ UNCHANGED build

-----------------------------------------------------------------------------
(* The kernel.  Thread t does t, t + team, t + 2 team, and so on.           *)

MLast(x) == IF x.dir = "synthesis" THEN NPHI - x.imlim + 1 ELSE x.imlim - 1

(* Its last order.  Beyond imlim synthesis only clears rows. *)
Last(x) == IF x.dir = "synthesis" THEN NPHI - x.imlim ELSE x.imlim - 1

RowsOf(x, i) == IF i = 0 \/ i >= x.imlim THEN {i} ELSE {i, NPHI - i}

(* The orders that analysis stores with i: with 0, the zeros of those that *)
(* are truncated.                                                          *)
OrdersOf(x, i) ==
  IF x.dir = "synthesis" THEN {}
  ELSE {i} \cup (IF i = 0 THEN x.imlim..MMAX ELSE {})

Cells(x, i) ==
  (1..x.comps) \X RowsOf(x, i) \cup {0} \X OrdersOf(x, i)

StartOrder(t) ==
  /\ In(t, "kernel")
  /\ busy[t] = {}
  /\ im[t] <= Last(call)
  /\ busy' = [busy EXCEPT ![t] = Cells(call, im[t])]
  /\ row' = [r \in Rows |->
               IF call.dir = "synthesis" /\ r \in RowsOf(call, im[t])
               THEN "half" ELSE row[r]]
  /\ UNCHANGED <<build, call, team, pc, im, comp, fft, order, buffers, result>>

MStride(t) == IF t = 0 THEN 0 ELSE team

(* mstep. *)
Stride(t) == team

FinishOrder(t) ==
  /\ In(t, "kernel")
  /\ busy[t] # {}
  /\ LET i == im[t]
         read == \A c \in Comps : fft[c] = "right"
     IN  /\ row' = [r \in Rows |->
                      IF call.dir = "synthesis" /\ r \in RowsOf(call, i)
                      THEN "new" ELSE row[r]]
         /\ order' = [m \in Orders |->
                        IF m \notin OrdersOf(call, i) THEN order[m]
                        ELSE IF read \/ m >= call.imlim THEN "right"
                        ELSE "wrong"]
         /\ im' = [im EXCEPT ![t] = i + Stride(t)]
  /\ busy' = [busy EXCEPT ![t] = {}]
  /\ UNCHANGED <<build, call, team, pc, comp, fft, buffers, result>>

LeaveKernel(t) ==
  /\ In(t, "kernel")
  /\ busy[t] = {}
  /\ im[t] > Last(call)
  /\ Proceed(t)
  /\ UNCHANGED <<build, call, team, im, comp, busy, row, fft, order, buffers,
                 result>>

-----------------------------------------------------------------------------
(* omp barrier, and the FFTs: the first thread to come to a component      *)
(* executes it, the others do not wait (single nowait).                    *)

MBarrier(t) ==
  /\ In(t, "barrier")
  /\ Proceed(t)
  /\ UNCHANGED <<build, call, team, im, comp, busy, row, fft, order, buffers,
                 result>>

Barrier(t) ==
  /\ In(t, "barrier")
  /\ \A u \in Team : pc[u] >= pc[t]
  /\ Proceed(t)
  /\ UNCHANGED <<build, call, team, im, comp, busy, row, fft, order, buffers,
                 result>>

StartFft(t) ==
  /\ In(t, "fft")
  /\ busy[t] = {}
  /\ comp[t] \in Comps /\ fft[comp[t]] = "none"
  /\ fft' = [fft EXCEPT ![comp[t]] = "running"]
  /\ busy' = [busy EXCEPT ![t] = {comp[t]} \X Rows]
  /\ UNCHANGED <<build, call, team, pc, im, comp, row, order, buffers, result>>

FinishFft(t) ==
  /\ In(t, "fft")
  /\ busy[t] # {}
  /\ fft' = [fft EXCEPT ![comp[t]] =
               Outcome(call, call.dir = "synthesis" =>
                               \A r \in Rows : row[r] = "new")]
  /\ busy' = [busy EXCEPT ![t] = {}]
  /\ comp' = [comp EXCEPT ![t] = @ + 1]
  /\ UNCHANGED <<build, call, team, pc, im, row, order, buffers, result>>

SkipFft(t) ==
  /\ In(t, "fft")
  /\ busy[t] = {}
  /\ comp[t] \in Comps /\ fft[comp[t]] # "none"
  /\ comp' = [comp EXCEPT ![t] = @ + 1]
  /\ UNCHANGED <<build, call, team, pc, im, busy, row, fft, order, buffers,
                 result>>

LeaveFft(t) ==
  /\ In(t, "fft")
  /\ busy[t] = {}
  /\ comp[t] \notin Comps
  /\ Proceed(t)
  /\ UNCHANGED <<build, call, team, im, comp, busy, row, fft, order, buffers,
                 result>>

-----------------------------------------------------------------------------
Step(t) ==
  \/ StartOrder(t) \/ FinishOrder(t) \/ LeaveKernel(t)
  \/ Barrier(t)
  \/ StartFft(t) \/ FinishFft(t) \/ SkipFft(t) \/ LeaveFft(t)

Next ==
  \/ \E s \in Scenarios, n \in 1..MaxTeam :
       buffers < MaxBuffers /\ Begin(s[2], n)
  \/ \E t \in Threads : Step(t)
  \/ Return

Spec == Init /\ [][Next]_vars

(* The system runs every thread of the team, and the caller. *)
FairSpec ==
  Spec /\ WF_vars(Return) /\ \A t \in Threads : WF_vars(Step(t))

-----------------------------------------------------------------------------
(* Types; in particular no thread leaves the rows and orders that exist. *)
TypeOK ==
  /\ build \in Build
  /\ call \in Call \cup {Idle}
  /\ team \in 1..MaxTeam
  /\ pc \in [Threads -> 1..4]
  /\ im \in [Threads -> Nat]
  /\ comp \in [Threads -> 1..4]
  /\ busy \in [Threads ->
       SUBSET ((1..3) \X Rows \cup {0} \X Orders)]
  /\ row \in [Rows -> {"old", "half", "new"}]
  /\ fft \in [1..3 -> {"none", "running", "right", "wrong"}]
  /\ order \in [Orders -> {"old", "right", "wrong"}]
  /\ buffers \in 0..MaxBuffers
  /\ result \in {"none", "right", "wrong"}

(* No two threads of the region are ever at the same row of a component,   *)
(* or at the coefficients of the same order: neither the shares of two     *)
(* threads overlap, nor an FFT another's rows, whatever the team.          *)
NoRace ==
  \A t, u \in Threads : t # u => busy[t] \cap busy[u] = {}

(* A transform leaves none of its buffers behind. *)
BuffersFreed == call = Idle => buffers = 0

(* The caller cannot tell that threads share the work. *)
Atomic == INSTANCE AtomicTransform WITH
  Task <- {s[2] : s \in Scenarios}, task <- call
AtomicSpec == Atomic!Spec

(* Every transform returns: no thread waits for ever at the barrier. *)
Returns == call # Idle ~> call = Idle

-----------------------------------------------------------------------------
(* Why: what every state satisfies, from which the properties follow.      *)

(* Between calls everything is as at the beginning. *)
AtRest ==
  call = Idle =>
    /\ team = 1
    /\ pc = [t \in Threads |-> 1]
    /\ im = [t \in Threads |-> t]
    /\ comp = [t \in Threads |-> 1]
    /\ busy = [t \in Threads |-> {}]
    /\ row = [r \in Rows |-> "old"]
    /\ fft = [c \in 1..3 |-> "none"]
    /\ order = [m \in Orders |-> "old"]

InCall ==
  call # Idle =>
    /\ <<build, call>> \in Scenarios
    /\ \A t \in Team : pc[t] \in DOMAIN Phases(call)
    /\ Mode(call) > 0 => buffers > 0

(* The share of thread t: its orders differ by multiples of the team. *)
Share(t, i) == \E k \in 0..i : i = t + k * team
OwnOrders == \A t \in Team : Share(t, im[t])

(* What a thread accesses follows from where it is. *)
Working(t) ==
  \/ In(t, "kernel") /\ im[t] <= Last(call) /\ busy[t] = Cells(call, im[t])
  \/ /\ In(t, "fft") /\ comp[t] \in Comps /\ fft[comp[t]] = "running"
     /\ busy[t] = {comp[t]} \X Rows
Accesses ==
  /\ \A t \in Team : busy[t] = {} \/ Working(t)
  /\ \A t \in Threads \ Team : busy[t] = {}

Transforming(t) == In(t, "fft") /\ busy[t] # {}
OneEach ==
  \A t, u \in Team :
    t # u /\ Transforming(t) /\ Transforming(u) => comp[t] # comp[u]

(* Nobody is beyond the barrier before all have come to it. *)
BarrierHolds ==
  call # Idle /\ Inside(call) =>
    \A t, u \in Team : pc[t] > 2 => pc[u] >= 2

RaceInv ==
  /\ TypeOK /\ AtRest /\ InCall /\ OwnOrders /\ Accesses /\ OneEach
  /\ BarrierHolds

(* Thread t has been through a phase. *)
Past(t, phase) == \A k \in DOMAIN Phases(call) : Phases(call)[k] = phase => k < pc[t]

Done(i) ==
  IF call.dir = "synthesis" THEN \A r \in RowsOf(call, i) : row[r] = "new"
  ELSE \A m \in OrdersOf(call, i) : order[m] = "right"

(* A thread leaves nothing of its share behind. *)
OrdersDone ==
  call # Idle =>
    \A t \in Team :
      /\ \A i \in 0..Last(call) : Share(t, i) /\ i < im[t] => Done(i)
      /\ Past(t, "kernel") => im[t] > Last(call)

(* Nor a component, and no FFT goes wrong. *)
FftsDone ==
  call # Idle =>
    /\ \A c \in Comps : fft[c] # "wrong"
    /\ IF Inside(call)
       THEN /\ \A t \in Team : \A c \in Comps : c < comp[t] => fft[c] # "none"
            /\ \A c \in Comps :
                 fft[c] = "running" => \E t \in Team : Transforming(t) /\ comp[t] = c
            /\ \A t \in Team : Past(t, "fft") => comp[t] > call.comps
       ELSE \A c \in Comps :
              fft[c] = IF call.dir = "synthesis" THEN "none" ELSE "right"

(* At every step of every thread: it accesses what belongs to its own      *)
(* order or component, has left nothing of its share behind, and nobody    *)
(* is beyond the barrier before all rows, or all FFTs, are complete.       *)
AtomicInv == RaceInv /\ OrdersDone /\ FftsDone
=============================================================================
