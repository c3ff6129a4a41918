----------------------------- MODULE GpuStreams -----------------------------
(***************************************************************************)
(* A host thread that calls the transforms of sht_gpu.cu one after the     *)
(* other, and the two streams of its configuration: comp_stream, the       *)
(* default stream or one that the default stream waits for and that waits  *)
(* for it, and xfer_stream, which is created non-blocking and is only      *)
(* ordered with the others by events.                                      *)
(*                                                                         *)
(* A stream executes its operations in order.  The host puts them there    *)
(* and goes on, except that                                                *)
(*   - cudaMemcpy returns when the copy is complete;                       *)
(*   - so does cudaMemcpyAsync to host memory that is not pinned;          *)
(*   - an upload from memory that is not pinned takes a copy of the data   *)
(*     before it returns, and stores it in the device when its turn comes; *)
(*     cudaMemcpy waits for the default stream before it takes that copy.  *)
(***************************************************************************)
EXTENDS GpuTransforms

CONSTANTS
  Configs,       \* configurations to start with
  Calls(_),      \* Calls(g): calls the program makes with configuration g
  MaxCalls,      \* bound on the calls made
  Idle, Failed   \* no call yet; a call gave up on an error of a copy

(* Arrays in pinned memory come from shtns_malloc. *)
Call == [name : TransformNames, pinned : BOOLEAN]

ASSUME GpuAssumption ==
  /\ MaxCalls \in Nat
  /\ Configs \subseteq Config
  /\ \A g \in Configs : Calls(g) \subseteq Call
  /\ Idle # Failed
  /\ {Idle, Failed} \cap Call = {}

VARIABLES
  call,      \* the last call, or Idle or Failed
  results,   \* arrays that it fills
  number,    \* of the last call
  todo,      \* instructions of the call that are left
  awaited,   \* the operation the host waits for, or <<>>
  event,     \* event[e]: the operation that last recorded e, or <<>>
  queue,     \* queue[s]: operations in stream s
  mem        \* contents of every cell

vars == <<cfg, call, results, number, todo, awaited, event, queue, mem>>

Streams == {"comp", "xfer"}
Events == {"up", "up2", "sht", "sht0", "sht2"}

CellsOf(region) == {region[i] : i \in DOMAIN region}
Touched(data) == UNION {CellsOf(data[j].at) : j \in DOMAIN data}

AllCells ==
  CellsOf(Region("gpu_mem", 0, GpuMemSize))
  \cup CellsOf(Array("xfft")) \cup CellsOf(Array("xfft_cpu"))
  \cup UNION {CellsOf(Array(a)) \cup CellsOf(DeviceArray(a)) :
                a \in Spectra \cup Fields}

(* Cell i of data v computed for call n.  Zeros are the same at all times. *)
Content(v, n, i) == IF v \in {"zero", "junk"} THEN <<v, 0, 0>> ELSE <<v, n, i>>
Junk == Content("junk", 0, 0)

Init ==
  /\ cfg \in Configs
  /\ call = Idle
  /\ results = {}
  /\ number = 0
  /\ todo = <<>>
  /\ awaited = <<>>
  /\ event = [e \in Events |-> <<>>]
  /\ queue = [s \in Streams |-> <<>>]
  /\ mem = [c \in AllCells |-> Junk]

-----------------------------------------------------------------------------
(* Operations.  Each has an identifier, and may have to wait for another.  *)

Pending(id) ==
  \E s \in Streams : \E i \in DOMAIN queue[s] : queue[s][i].id = id

Holds(d, n) ==
  \A i \in DOMAIN d.at :
    d.at[i] \in DOMAIN mem /\ mem[d.at[i]] = Content(d.is, n, i)

(* Memory after data have been stored, each in cells of its own. *)
Stored(data, n, c) ==
  LET j == CHOOSE j \in DOMAIN data : c \in CellsOf(data[j].at)
      i == CHOOSE i \in DOMAIN data[j].at : data[j].at[i] = c
  IN  Content(data[j].is, n, i)
Store(data, n) ==
  mem' = [c \in DOMAIN mem \cup Touched(data) |->
            IF c \in Touched(data) THEN Stored(data, n, c) ELSE mem[c]]

(* From anything but the data it expects, an operation makes junk. *)
Outcome(in, out, n) ==
  IF \A j \in DOMAIN in : Holds(in[j], n) THEN out
  ELSE [j \in DOMAIN out |-> Data(out[j].at, "junk")]
Perform(in, out, n) == Store(Outcome(in, out, n), n)

Operation(in, out, after) ==
  [id |-> <<number, Len(todo)>>, in |-> in, out |-> out, after |-> after]
Enqueue(s, op) == queue' = [queue EXCEPT ![s] = Append(@, op)]

-----------------------------------------------------------------------------
(* The host.                                                               *)

Running == ~Pending(awaited)
Returned == call \notin {Idle, Failed} /\ todo = <<>> /\ Running

(* The caller fills the arrays of the host, and calls. *)
CallTransform ==
  /\ call = Idle \/ Returned
  /\ number < MaxCalls
  /\ \E c \in Calls(cfg) :
       LET t == Transform(c.name)
           given == IF c.name \in DeviceTransforms THEN {} ELSE t.in
       IN  /\ call' = c
           /\ results' = t.out
           /\ todo' = t.program
           /\ Store([a \in given |-> Data(Array(a), a)], number + 1)
  /\ number' = number + 1
  /\ event' = [e \in Events |-> <<>>]
  /\ awaited' = <<>>
  /\ UNCHANGED <<cfg, queue>>

Next_is(kind) == todo # <<>> /\ Running /\ Head(todo).kind = kind
Advance == todo' = Tail(todo) /\ UNCHANGED <<cfg, call, results, number>>

LaunchKernel ==
  /\ Next_is("launch")
  /\ Enqueue("comp", Operation(Head(todo).in, Head(todo).out, <<>>))
  /\ Advance
  /\ UNCHANGED <<awaited, event, mem>>

(* shtns_malloc gives pinned memory, also for xfft_cpu. *)
Pinned(c, x) ==
  LET host == IF x.dir = "up" THEN x.in ELSE x.out
  IN  c.pinned \/ \A w \in CellsOf(host[1].at) : w[1] = "xfft_cpu"

(* The copies, of an array of the host to the device or back, for which    *)
(* the host waits, and those made of a copy of the array.                  *)
MWaits(c, x) == x.how = "sync"
Waits(c, x) == x.how = "sync" \/ (x.dir = "down" /\ ~Pinned(c, x))
Staged(c, x) == x.dir = "up" /\ ~Pinned(c, x)
CopyStream(x) == IF x.how = "sync" THEN "comp" ELSE "xfer"

Copy ==
  /\ Next_is("copy")
  /\ LET x == Head(todo)
         op == IF Staged(call, x)
               THEN Operation(<<>>, Outcome(x.in, x.out, number), <<>>)
               ELSE Operation(x.in, x.out, <<>>)
     IN  /\ Staged(call, x) /\ x.how = "sync" => queue["comp"] = <<>>
         /\ Enqueue(CopyStream(x), op)
         /\ awaited' = IF Waits(call, x) /\ ~Staged(call, x)
                       THEN op.id ELSE <<>>
  /\ Advance
  /\ UNCHANGED <<event, mem>>

(* A transform of the host returns at once when an upload fails: what it   *)
(* has launched goes on.  spat_to_SHsphtor_gpu2 overwrites the error of    *)
(* its first upload with that of the second; this error, and those of      *)
(* kernels, which are looked for before the downloads, are left out.       *)
Abort ==
  /\ Next_is("copy")
  /\ Head(todo).dir = "up"
  /\ ~(call.name = "spat_to_SHsphtor_gpu2" /\ Head(todo).in[1].is = "Vt")
  /\ call' = Failed
  /\ todo' = <<>>
  /\ UNCHANGED <<cfg, results, number, awaited, event, queue, mem>>

RecordEvent ==
  /\ Next_is("record")
  /\ LET op == Operation(<<>>, <<>>, <<>>)
     IN  /\ Enqueue(Head(todo).stream, op)
         /\ event' = [event EXCEPT ![Head(todo).event] = op.id]
  /\ Advance
  /\ UNCHANGED <<awaited, mem>>

(* The record that counts is the last one made so far. *)
WaitEvent ==
  /\ Next_is("wait")
  /\ Enqueue(Head(todo).stream,
             Operation(<<>>, <<>>, event[Head(todo).event]))
  /\ Advance
  /\ UNCHANGED <<awaited, event, mem>>

SynchronizeEvent ==
  /\ Next_is("synchronize")
  /\ awaited' = event[Head(todo).event]
  /\ Advance
  /\ UNCHANGED <<event, queue, mem>>

ComputeOnHost ==
  /\ Next_is("host")
  /\ Perform(Head(todo).in, Head(todo).out, number)
  /\ Advance
  /\ UNCHANGED <<awaited, event, queue>>

-----------------------------------------------------------------------------
(* The device.                                                             *)

Ready(s) == queue[s] # <<>> /\ ~Pending(Head(queue[s]).after)

Execute(s) ==
  /\ Ready(s)
  /\ LET op == Head(queue[s]) IN Perform(op.in, op.out, op.id[1])
  /\ queue' = [queue EXCEPT ![s] = Tail(@)]
  /\ UNCHANGED <<cfg, call, results, number, todo, awaited, event>>

Next ==
  \/ CallTransform
  \/ LaunchKernel \/ Copy \/ Abort \/ RecordEvent \/ WaitEvent
  \/ SynchronizeEvent \/ ComputeOnHost
  \/ \E s \in Streams : Execute(s)

Spec == Init /\ [][Next]_vars

-----------------------------------------------------------------------------
(* Type correctness: no operation is outside of the memory allocated by    *)
(* init_cuda_buffer_fft and by the caller, so that memory never grows.     *)
TypeOK ==
  /\ cfg \in Configs
  /\ call \in {Idle, Failed} \/ call \in Call
  /\ number \in 0..MaxCalls
  /\ DOMAIN mem = AllCells

Conflict(in1, out1, in2, out2) ==
  \/ Touched(out1) \cap (Touched(in2) \cup Touched(out2)) # {}
  \/ Touched(out2) \cap Touched(in1) # {}

(* What the host is reading and writing: in its own computations, when it  *)
(* takes a copy of data to upload, and all arrays of the caller's once a   *)
(* transform of host data has returned.                                    *)
HostReads ==
  IF Next_is("host") \/ (Next_is("copy") /\ Staged(call, Head(todo)))
  THEN Head(todo).in ELSE <<>>
HostWrites ==
  IF Next_is("host") THEN Head(todo).out
  ELSE IF Returned
  THEN [i \in 1..6 |-> Data(Array(<<"Q", "S", "T", "Vr", "Vt", "Vp">>[i]), "junk")]
  ELSE <<>>

(* Two streams, or a stream and the host, never have work to do at the     *)
(* same time on the same memory when one of them writes there: the events  *)
(* and the waits of every transform order all of its copies and kernels,   *)
(* and leave nothing behind that a later call or the caller could meet.    *)
NoRace ==
  /\ (\A s \in Streams : Ready(s)) =>
       LET a == Head(queue["comp"])
           b == Head(queue["xfer"])
       IN  ~Conflict(a.in, a.out, b.in, b.out)
  /\ \A s \in Streams : Ready(s) =>
       ~Conflict(HostReads, HostWrites, Head(queue[s]).in, Head(queue[s]).out)

(* A transform that has returned has computed all of its results from the  *)
(* data of this call, and not from those of an earlier one or from memory  *)
(* that was never set, in the layout of the host.  Results on the device   *)
(* are there when the compute stream is done, in the layout of cuFFT.      *)
ResultsRight ==
  Returned =>
    \A a \in results :
      IF call.name \in DeviceTransforms
      THEN queue["comp"] = <<>> =>
             Holds(Data(DeviceArray(a), DeviceLayout(a)), number)
      ELSE Holds(Data(Array(a), a), number)

(* When a transform of host data returns, the GPU has nothing left to do:  *)
(* the caller may free its arrays, replace the streams or destroy the      *)
(* configuration.                                                          *)
NothingPending ==
  Returned /\ call.name \notin DeviceTransforms =>
    \A s \in Streams : queue[s] = <<>>
=============================================================================
