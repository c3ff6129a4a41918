------------------------------ MODULE GpuOrder ------------------------------
(***************************************************************************)
(* The order that a transform of GpuTransforms imposes on its copies,      *)
(* kernels and computations, read off its program P without running it.    *)
(* An instruction is complete before another one when both are in the same *)
(* stream, when the stream of the second waits for an event recorded after *)
(* the first, or when the host has waited for the first.                   *)
(***************************************************************************)
EXTENDS GpuStreams

Works(x) == x.kind \in {"launch", "copy", "host"}
IsStaged(c, x) == x.kind = "copy" /\ Staged(c, x)

(* The stream of an instruction, and the data used there. *)
StreamOf(x) ==
  CASE x.kind = "launch" -> "comp"
    [] x.kind = "copy" -> CopyStream(x)
    [] x.kind \in {"record", "wait"} -> x.stream
    [] OTHER -> "host"
StreamIn(c, x) ==
  IF x.kind = "launch" \/ (x.kind = "copy" /\ ~IsStaged(c, x)) THEN x.in ELSE <<>>
StreamOut(x) == IF x.kind \in {"launch", "copy"} THEN x.out ELSE <<>>

(* The data used by the host itself, at once. *)
HostIn(c, x) == IF x.kind = "host" \/ IsStaged(c, x) THEN x.in ELSE <<>>
HostOut(x) == IF x.kind = "host" THEN x.out ELSE <<>>

(* The last of a set of instructions, or 0. *)
IsLast(i, S) == i \in S /\ \A j \in S : j <= i
Last(S) == IF \E i \in S : IsLast(i, S) THEN CHOOSE i \in S : IsLast(i, S) ELSE 0

(* The record that counts for a wait or a synchronization at j. *)
Records(P, e, j) ==
  {i \in 1..(j - 1) : P[i].kind = "record" /\ P[i].event = e}
RecordFor(P, j) == Last(Records(P, P[j].event, j))

(* The instruction that the host waits for after instruction j, or 0. *)
AwaitedBy(P, c, j) ==
  IF P[j].kind = "copy" /\ Waits(c, P[j]) /\ ~Staged(c, P[j]) THEN j
  ELSE IF P[j].kind = "synchronize" THEN RecordFor(P, j)
  ELSE 0

(* Uploads for which the host first waits until comp_stream is empty. *)
Drains(c, x) == IsStaged(c, x) /\ StreamOf(x) = "comp"

-----------------------------------------------------------------------------
(* Instruction i is complete before j, or is j itself, because j is in the *)
(* same stream or after a wait for an event recorded after i.              *)
Waited(P, i, j) ==
  \/ StreamOf(P[i]) = StreamOf(P[j]) /\ i <= j
  \/ \E w \in 1..j :
       /\ StreamOf(P[w]) = StreamOf(P[j])
       /\ P[w].kind = "wait"
       /\ RecordFor(P, w) # 0
       /\ StreamOf(P[RecordFor(P, w)]) = StreamOf(P[i])
       /\ i <= RecordFor(P, w)

(* The host has waited for i when it is done with instruction h. *)
Complete(P, c, i, h) ==
  \/ \E p \in 1..h :
       AwaitedBy(P, c, p) # 0 /\ Waited(P, i, AwaitedBy(P, c, p))
  \/ StreamOf(P[i]) = "comp" /\ \E p \in (i + 1)..h : Drains(c, P[p])

(* The host has waited for comp_stream, and all that an earlier call left. *)
CompWaited(P, c, h) ==
  \E p \in 1..h :
    \/ Drains(c, P[p])
    \/ AwaitedBy(P, c, p) # 0 /\ StreamOf(P[AwaitedBy(P, c, p)]) = "comp"

(* Instructions that meet in memory are ordered: those in streams, and     *)
(* those with what the host does later.                                    *)
Ordered(P, c) ==
  \A i, j \in DOMAIN P : i < j =>
    /\ Conflict(StreamIn(c, P[i]), StreamOut(P[i]), StreamIn(c, P[j]), StreamOut(P[j]))
         => Complete(P, c, i, j - 1) \/ Waited(P, i, j)
    /\ Conflict(StreamIn(c, P[i]), StreamOut(P[i]), HostIn(c, P[j]), HostOut(P[j]))
         => Complete(P, c, i, j - 1)

HostArrays == Spectra \cup Fields \cup {"xfft_cpu"}
OnDeviceOnly(data) == \A x \in Touched(data) : x[1] \notin HostArrays
OnHostOnly(data) == \A x \in Touched(data) : x[1] \in HostArrays

(* Nothing meets what an earlier transform of device data has left.        *)
Apart(P, c) ==
  \A i \in DOMAIN P :
    /\ OnHostOnly(HostIn(c, P[i])) /\ OnHostOnly(HostOut(P[i]))
    /\ StreamOf(P[i]) = "xfer" /\ Works(P[i]) => CompWaited(P, c, i - 1)
    /\ c.name \in DeviceTransforms =>
         /\ StreamOf(P[i]) = "comp"
         /\ OnDeviceOnly(StreamIn(c, P[i])) /\ OnDeviceOnly(StreamOut(P[i]))

(* A transform of host data waits for all it has started. *)
Ends(P, c) ==
  c.name \notin DeviceTransforms =>
    /\ CompWaited(P, c, Len(P))
    /\ \A i \in DOMAIN P : StreamOf(P[i]) \in Streams => Complete(P, c, i, Len(P))

(* Run alone, one instruction after the other, a program always finds the  *)
(* data it expects, and yields the results; given are those of the caller. *)
Output(x) == IF Works(x) THEN x.out ELSE <<>>
Writers(P, x, j) == {i \in 1..(j - 1) : x \in Touched(Output(P[i]))}
Before(P, given, x, j) ==
  LET i == Last(Writers(P, x, j))
  IN  IF i # 0 THEN Stored(Output(P[i]), 1, x)
      ELSE IF Writers(P, x, j) = {} /\ x \in Touched(given) THEN Stored(given, 1, x)
      ELSE <<>>
Expected(P, given, d, j) ==
  \A k \in DOMAIN d.at : Before(P, given, d.at[k], j) = Content(d.is, 1, k)

Fed(P, given, results_) ==
  /\ \A i \in DOMAIN P : Works(P[i]) =>
       \A k \in DOMAIN P[i].in : Expected(P, given, P[i].in[k], i)
  /\ \A d \in results_ : Expected(P, given, d, Len(P) + 1)

-----------------------------------------------------------------------------
(* The program of a call, what its caller gives, and what it returns. *)
Program(c) == Transform(c.name).program
Given_to(c) ==
  [a \in (IF c.name \in DeviceTransforms THEN {} ELSE Transform(c.name).in)
     |-> Data(Array(a), a)]
Result(c, a) ==
  IF c.name \in DeviceTransforms
  THEN Data(DeviceArray(a), DeviceLayout(a)) ELSE Data(Array(a), a)
Results(c) == {Result(c, a) : a \in Transform(c.name).out}

(* What a call needs of its program. *)
Disciplined(c) ==
  LET P == Program(c)
  IN  Ordered(P, c) /\ Apart(P, c) /\ Ends(P, c)
      /\ Fed(P, Given_to(c), Results(c))

(* Every transform of sht_gpu.cu that may be called orders its kernels,    *)
(* copies and computations with streams, events and waits wherever they    *)
(* meet in memory, waits before it returns for what it has started, and is *)
(* right when it runs alone.                                               *)
ProgramsOrdered == call = Idle => \A c \in Calls(cfg) : Disciplined(c)
=============================================================================
