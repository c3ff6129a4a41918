# A TLA+ model of SHTns

SHTns (`src/`) is a C library of spherical harmonic transforms. A program
creates *configurations* (`shtns_cfg`), sets the spatial grid of each, and calls
transforms between spectral coefficients and spatial fields. Its results are
floating-point numbers, which a model checker cannot reach; but most of what can go
wrong in the code is not the arithmetic. It is which tables exist and who owns them;
which function a transform calls and which matrices that function reads; what is
saved to disk and loaded by other processes; how threads, GPU streams, warps and FFTs
are ordered; and, everywhere in the kernels, pointers into packed tables that advance
by hand-written steps, shuffles of vector registers and loops that read past the end
of a row. All of that is modelled here, with numbers abstracted to *what they
stand for*: a coefficient to its degree and order, an element of a table to the entry
it is, a sum to the set of its terms.

Line numbers below are those of `src/sht_init.c` unless another file is named.
`PROJECT.json` gives, for every definition, the lines it models.

## 1. Inventory

| Part | State it keeps | Operations |
|---|---|---|
| Registry (`sht_init.c`, `legendre_precomp` in `sht_legendre.c`) | the chain `sht_data` of configurations, their sizes, their pointers to tables; tables are shared, and their reference count is recomputed by walking the chain (`ref_count`, 297) | `shtns_create` 1389, `shtns_create_with_grid` 1509, `shtns_set_grid_auto` 1631, `shtns_unset_grid` 1544, `shtns_destroy` 1554, `shtns_reset` 1585, `shtns_load_cfg` 2024 |
| Choice of algorithms (`sht_init.c`, tables of `sht_mem.c`, `sht_fly.c`, `sht_omp.c`) | `ftable` of each configuration, the Legendre matrices, the global `omp_threads`, the file `shtns_cfg` | `init_sht_array_func` 220, `set_sht_mem`, `set_sht_fly`, `choose_best_sht` 1101, `config_save` 1279, `config_load` 1308, `free_unused_matrices` 335, `shtns_use_threads` 1872 |
| Grid setup | nodes, weights and their padding, `fftc_mode`, FFT plans, polar limits `tm` | `planFFT` 477, `grid_weights` 905, `PolarOptimize` 663 |
| On-the-fly kernels (`SHT/fly_*`, `omp_*`, `mic_*`, macros of `sht_private.h`) | within one call: a team of threads, arrays of Fourier rows, temporary buffers, pointers into the tables | synthesis and analysis of scalars, vectors, and both, also for one order |
| Kernels with matrices (`sht_mem.c`, `SHT/hyb_*`) | the four matrices `ylm`, `dylm`, `zlm`, `dzlm` and their row pointers | `alloc_SHTarrays` 394, `init_SH_synth` 806, `init_SH_gauss` 848, `OptimizeMatrices` 703, `free_unused_matrices` 335; synthesis and analysis |
| GPU (`sht_gpu.cu`, `sht_gpu_kernels.cu`, `shtns_cuda.h`) | device memory, two streams, events, pinned host memory, clones; shared memory of a block | `cushtns_init_gpu`, `cushtns_clone`, `cushtns_release_gpu`, `cushtns_set_streams`, the `*_gpu` and `cu_*` transforms, the kernels they launch |
| Functions without grid (`sht_func.c`) | per configuration, a cache of Legendre functions with its key, and an FFT plan | `SHqst_to_lat`, `SH_to_lat`, `SH_to_point`, rotations, `mul_ct_matrix`, `st_dt_matrix`, `SH_mul_mx` |
| Fortran interface (1922-2155) | the current configuration (head of the chain), four tags | `shtns_save_cfg`, `shtns_load_cfg`, wrappers |
| Python, Java, `time_SHT.c`, examples | none of their own | drivers and bindings |

**Interactions.** The registry calls grid setup, which plans FFTs and then calls
the choice of algorithms; that one runs the kernels to time them, frees matrices
through the registry's reference counts, and exchanges records with other
processes through the file. Transforms called by the program go through `ftable`
(`sht_com.c`) to one of the kernels. The GPU copies the tables of a configuration
to the device, and clones share a configuration through
`shtns_create_with_grid`. The functions without grid keep their cache in memory that
copies share. The Fortran interface reorders the chain itself.

**What is hard.** (a) Ownership: reference counts are not stored but recounted, so
their meaning depends on the order of creations, copies and destructions.
(b) Staleness: functions are chosen for one grid and saved for other processes;
matrices are released according to the functions of the moment; caches are keyed
by part of what they depend on. (c) Concurrency: threads share rows without locks
and agree on FFTs through barriers and `single nowait`; GPU streams are ordered
only by events; warps meet at barriers inside loops; MPI processes share a file.
(d) Boundaries: the last block of latitudes runs over the equator, the last pair of
degrees over the truncation, and both count on padding; underflow loops stop at any
degree. (e) Failure: a job can be killed between loading and saving, an upload to the
GPU can fail.

**What makes each part correct.** Registry: no table is freed while somebody
points to it, none is lost, and none is used by a configuration it was not
computed for. Choice: every function that can be called has what it reads; all
processes of a job take the same functions. Kernels: no two threads touch the
same data, no FFT runs on incomplete rows, every call returns with everything
computed and freed; each degree meets its own recurrence coefficient and its own
spectral coefficient once; each latitude ends at its place. GPU: results are complete
when a call returns; blocks and warps neither race nor wait for ever. Functions
without grid: no entry is read that was not computed for the latitude asked, no order
leaks into its neighbour.

## 2. Modules

| Module | Models | Key state |
|---|---|---|
| `ShtRegistry` | the registry | `list` (chain), `hdr` (sizes), `ptr` (pointers by member), `heap` (what each block was computed for), `index`, `mode`, `fault` |
| `TablePool` | abstract: a pool of tables that clients take, share and drop | `holders`, `content` |
| `ShtRegistry_proofs` | theorems about `ShtRegistry` | |
| `AlgoTable` | choice of algorithms, saved configurations | `omp_threads`, `cfg[process]`, `file` |
| `AlgoTable_proofs` | theorems about `AlgoTable` | |
| `ParallelTransform` | one transform call by a team of threads | `pc`, `im`, `busy` by thread; `row`, `fft`, `order`, `buffers` |
| `AtomicTransform` | abstract: a task is begun, and returns a right result | `task`, `result` |
| `ParallelTransform_proofs` | theorems about `ParallelTransform` | |
| `FourierRows` | the store and load macros: latitudes in the two rows of an order | `mem` (doubles as linear forms), `buffer`, `parts`, `weighed` |
| `FourierRows_proofs` | theorems about `FourierRows` | |
| `LegendreSum` | the sums over degrees of the on-the-fly kernels | `r` (registers and pointers), `vw`, `cleared`, `out` |
| `LegendreSum_proofs` | theorems about `LegendreSum` | |
| `StoredMatrices` | the matrices from allocation to use | `ylm`, `dylm`, `zlm`, `dzlm`, `row`, `tm`, `p`, `terms`, `out` |
| `GpuPrograms`, `GpuTransforms` | the transforms of `sht_gpu.cu`, as sequences of instructions of the host | `cfg` |
| `GpuStreams` | a host that runs them, two streams, events, memory of host and device | `todo`, `queue[stream]`, `event`, `mem` |
| `GpuOrder` | the order that a transform imposes on its copies and kernels, read off its program | none of its own |
| `GpuStreams_proofs` | theorems about `GpuStreams` | |
| `GpuKernels` | one launch of any kernel of `sht_gpu_kernels.cu` | `pc`, `bar`, `regs` by warp; `mem` (shared), `log`, `out` |
| `GpuKernels_proofs` | theorems about `GpuKernels` | |
| `GridFree` | the functions of `sht_func.c` | the cache of each configuration, `heap`, `plans`, `rot`, `res` |
| `GridFree_proofs` | theorems about `GridFree` | |
| `MC...` | small instances for TLC | |

How the kernels are cut: a transform is the product of three questions that do not
depend on each other, and each has its module. *Who* computes an order and when the
FFTs may run is `ParallelTransform`; *where* the latitudes of an order go in its two
rows is `FourierRows`; *what* is summed at a latitude is `LegendreSum`. On the device
`GpuStreams` has the first, where a kernel is one operation with inputs and outputs,
and `GpuKernels` opens one kernel.

### ShtRegistry
A *block* is an address `<<member, slot>>`: the heap has a few slots for each
pointer member of `struct shtns_info`, and `heap[a]` is `Free` or the sizes and
grid the block was computed for. Blocks of a member can be reused at once after
they are freed, as `malloc` does: that is what makes a dangling pointer visible
as a table of the wrong content. `Holders` is the walk of `ref_count`, `LastRef`
is `free_unused` over a set of members, and `Create`, `CreateWithGrid`,
`SetGrid`, `UnsetGrid`, `Destroy`, `BeginReset`/`ResetStep`/`EndReset` are the
entry points, and `LoadCfg` the one of the Fortran interface that moves a
configuration to the front. Creation looks for donors from the head of the chain and
keeps the last match, so the order matters. The couplings `mx_*`, the complex plans
and the rotation plan are members too, outside `Counted`, because the code does not
count them. `shtns_create_with_grid` places the offsets of the copy at
`((int*)shtns)+1`, which is inside the header: with a smaller `mmax` it overwrites the
sizes, and a copy's polar optimization writes there later. Behaviour is undefined from
then on: the model sets `fault` and stops. `index` is the set of configurations whose
offsets are their own.

### AlgoTable
`Has` and `sht_func` are the table that `init_sht_array_func` builds from the
arrays of the kernel files, with its limits on short meridians and the release of
GPU functions when no GPU was found. `BeginSetGrid` is `shtns_set_grid_auto` down
to `config_load`, and `EndSetGrid` the timings, the record and the release of
matrices; the cut is where another process or a crash can come between. Timings
are inputs: any of the given speeds. Records hold names, as the file does, with a
history field `saved` that the file has not. `MayBegin` is the protocol of
`doc/main.dox` for MPI (process 0 first, then a barrier), and `NewJob` kills all
processes at any time. The processes see the same file and library. A process alone
may set any number of grids on its configuration; when there are several, each sets
one. This matters: a small grid of `sht_quick_init` sets `nthreads` to 1 for good
(`SetThreads`), so that a process with an earlier grid may look for another record, and
take other functions, than one that has just started (`again` marks such a process, and
nobody follows it).

### ParallelTransform
`Begin` is the driver before the parallel region, `Return` after it; in between
every thread runs the kernel, order by order (`StartOrder`, `FinishOrder`: the
two halves let other threads in), the barrier and the FFTs as the build and the
layout require (`Phases`). `fly` is the same code with one thread; `mic` always
makes its FFTs outside. A team may be smaller than `nthreads`, as OpenMP allows.
What a thread accesses is in `busy`, so that races are visible as overlaps. The last
section of the module is the inductive invariant of the proofs: `RaceInv` says where
each thread is and what it accesses, `AtomicInv` adds what it has left behind done.

### FourierRows
A number is a linear form over symbols such as `<<"er", i>>`, the real part, even
about the equator, of the field at latitude `i`. The `S2D_STORE`, `S2D_CSTORE`,
`S2D_CSTORE2` and `*_4MAGIC` macros of `sht_private.h` are translated for the scalar
build, SSE2, AVX and AVX-512, as the lanes they shuffle; so are the loops of the analysis
kernels that split rows into even and odd parts, and the one that sums over latitudes
with its weights.
`FlyBlock` and `MicBlock`/`MicStore` are the two ways to store, block of latitudes by
block, from the polar limit to beyond the equator. `w ## v` is the store `w` after the
store `v`, so the order of overlapping stores is the code's. `CallExists` says which calls
the program can make (the grids `choose_nlat` accepts, the block sizes
`init_sht_array_func` allows, the builds of `mic`).

### LegendreSum
One state is one position in the loops of one call; `al`, `q`, `v` are offsets in the
packed tables and advance by the increments of the code. `Rec` yields the next degree
only when the pair at that offset is the one that leads to it. The loop over degrees
that underflow (`Skip`) may stop at any degree and exponent: what the numbers decide in
the code, TLC chooses. `out` is what analysis stores, with the zeros beyond the
truncation.

### StoredMatrices
`Alloc` has the formulas of `alloc_SHTarrays`, with their parities; the two
initialisations fill the matrices as pairs of offset and meaning; `PolarRows`,
`PolarShift`, `PackDerivative` and `Padding` are `OptimizeMatrices` in steps;
`free_unused_matrices` cuts a matrix to order 0; `Call` and the `Syn*`/`Analys*`
actions are the loops of `hyb_*`. The contents of the block after the last write and
the padding are values of their own, so that a product with them is seen.
A `realloc` that moves a matrix leaves the row pointers in the old block.

### GpuStreams
`GpuTransforms` has one operator for each function of `sht_gpu.cu`, with its name: a
sequence of kernels, copies, events and FFTs of the host, at the offsets of
`gpu_mem` used there (`SHqst_to_spat_gpu_hostfft`, which `fgpu` leaves out, too).
Arrays are cut into cells: orders up to mmax and orders above for a field, `nlm`
cells for coefficients. A kernel is the names of the data it expects and yields; it
yields junk unless every input is there, of the same call. `CallTransform` fills the
arrays of the caller with new data; the host then puts operations on the compute or
the transfer stream (`LaunchKernel`, `Copy`, `RecordEvent`, `WaitEvent`), waits
(`SynchronizeEvent`, or after a copy, `Waits`) or computes (`ComputeOnHost`), and
the streams run (`Execute`) whenever they can. A cell is written with the data and the
number of the call (`Stored`). `Abort` is the return on a failed
upload. The rules of the CUDA runtime are those its documentation gives for
pinned and pageable memory; the module's header lists them.

`GpuOrder` says the same statically, for one program: `Waited` and `Complete` are what a
stream, an event or a wait of the host puts before an instruction; `Disciplined` is that
every two instructions which meet in memory are in such an order (`Ordered`), that
what a call on device data leaves cannot meet the next call (`Apart`), that a
call on host data waits for all it started (`Ends`), and that the program run alone and in
order finds its data and yields its results (`Fed`). `ProgramsOrdered` asks it of every
call. It says nothing of interleavings: that it is enough for all of them is what
`GpuStreams_proofs` shows.

### GpuKernels
A warp runs from one `__syncthreads()` to the next in one or a few steps (`Warp`); its
lanes run together. `log` holds who has read and written each element of shared memory
since the last barrier, so that a missing barrier is a race whatever the warps' order.
The template parameters (`LSPAN`, `NW`, `BLOCKSIZE`, the size of a warp) are constants;
`LaunchAssumption` says which of them the launches and the comments of the kernels allow
(a block is whole warps, LSPAN at least 4, tiles divide the grid), and that the sums of an
analysis over latitudes stay within a warp, as they do for the blocks that `ileg_m0` and
`ileg_m_lowllim` launch: the branch for wider groups (455-478) is never instantiated.
Blocks only meet in the result (`memset` and `atomicAdd`), and are executed one after
the other.

### GridFree
A program is a sequence of calls; one call is one action, except that a rotation has
an action for each of its phases. `ylm_lat[c]` points to a block of `heap`, named after the configuration
that allocated it, and `CreateWithGrid` copies the pointer and the keys, as the code
does. `Faint` says which orders are negligible at a latitude, by how many degrees.
`Careful` is the condition under which a program may rely on what the last latitude has
left behind; the programs of `grid_free` satisfy it (`MCCareful`), that of `grid_stale`
does not.

## 3. Runs

| Run | Question | Bounds | Result |
|---|---|---|---|
| `registry` | do shared tables stay allocated, get freed, and suit their users, in every order of creations, reorderings and destructions, and when configurations are copied and grids set, changed and unset? | 3 configurations: 3 sizes that differ in degree, order, normalization (one with two recurrences), or one size, copies, and 2 grids with and without matrices | holds (283 855 states) |
| `registry_grid` | is the inductive invariant right, does the registry implement the pool, does `shtns_reset` end? | 2 configurations, axisymmetric, scalar grids with timings that drop any matrices | holds (5 058) |
| `algo` | are the matrices that the chosen functions read there, and no others? do processes agree, and is what is loaded what was timed? | 1 process, 9 grids through every path, any mixture of winners; 2 processes, 3 requests, 2 records, GPU present or not in each; a megabyte of 4000 bytes and at most 7 of them, so that there are small, larger and huge matrices | holds (95 090) |
| `transform` | do threads stay apart, are FFTs complete, do calls return and free, as one atomic task? | NPHI 6, MMAX 2, all truncations, teams of 1 to 3, all kernels, components, layouts and builds except the calls below | holds (111 824) |
| `rows` | does each latitude end at its place in the rows of its order, for analysis to find it again, and are all weighed once? | 222 calls: 4 vector extensions, layouts, `fly` and `mic`, the smallest grid and one whose last block crosses the equator, polar limits 0, 1, 3, blocks of 1 to 3 vectors | holds (1 545) |
| `legendre` | does each degree meet its recurrence coefficient and its spectral coefficient once? is all beyond the truncation zeroed? | 496 calls: LMAX 6, MMAX 2, MRES 2, every kernel, direction, field and truncation, 2 blocks of latitudes, any underflow | holds (28 772) |
| `matrices` | does every sum have each of its products once, and no other, although the loops read past their rows? | 6 sizes with all parities of degree and latitudes, up to 2 latitudes cut at the poles, every field and truncation, 4 patterns of released matrices | holds (48 087) |
| `gpu_streams` | do streams and host stay apart, and are results complete and everything done when a call returns? does each program order what meets in memory? | 2 calls of any of 20 transforms, pinned or not, 6 configurations, except the calls below | holds (297 443) |
| `gpu_pinned` | are results complete in pinned memory? | 1 call, 1 configuration | **violated** |
| `gpu_kernels` | do warps stay apart in shared memory, meet at every barrier, and yield the right sums and components? | LMAX 12, MMAX 3, MRES 2, NPHI 8, 4 degrees at a time, 2 or 4 warps, one and two blocks of latitudes, one and two fields | holds (12 696) |
| `grid_free` | are sums over Legendre functions of this latitude? do rotations and operators keep orders and symmetries apart? | sizes of degree 2 to 6, 2 latitudes, programs of up to 4 calls on 2 configurations | holds (9 297) |
| `grid_stale` | also if the second call has more longitudes? | 2 calls | **violated** |

*Why these bounds.* Sharing involves a donor, a borrower and a third that sees
what is left of the first two: three configurations. Slots are as many as
configurations, so allocation never blocks what the code can do, and reuse
happens. Two records are enough for a wrong one to be taken. With NPHI = 6 and
MMAX = 2 there are orders, mirror rows, and rows in between (none to several,
with the truncation), and three threads are more and fewer than the orders. The store
macros depend on NLAT modulo the vector size and on the block's distance from the
equator: two grids have both cases. The loops over degrees go two by two with a tail,
and an underflow that ends in the last pair, in the tail or never needs no more than
six degrees. The formulas of the matrices depend on the parities of LMAX, MMAX = 0 or
not, and the number of latitudes. A GPU transform can only be disturbed by what the one
before it left in the streams, the events or `gpu_mem`: two calls. The six
configurations have both layouts, fewer and more coefficients than points, transposed
FFTs or not, and no, few or many orders above mmax. A kernel behaves alike in every
round of `LSPAN` degrees but the first and the last: LMAX 12 has three. The cache of
`SHqst_to_lat` is disturbed by one call in between, a call on another
configuration, or a copy.

Symmetry is used only in `registry`, which has no temporal property. Deadlock is not
checked in the registry's runs, because a fault stops the model (`shtns_create_with_grid`
with a smaller mmax), nor in `gpu_streams`, `gpu_pinned`, `rows`, `legendre`,
`matrices`: their programs end after the last call. In `gpu_kernels` a launch that has
finished stutters, so that a real deadlock of warps would be found, and `BarriersMet`
says the same for barriers.

*Fairness.* `ResetEnds` assumes that the loop of `shtns_reset`, sequential code,
keeps running. `Returns` assumes that every thread of the team and the caller are
run by the system; a barrier has no other way out, so if a thread could miss it
the property would fail.

### Findings (violated runs)
- `gpu_pinned`, `ResultsRight`: five transforms end with downloads on both streams and
  wait only for the one on the default stream (`sht_gpu.cu` 708, 937, 941, 1181,
  1350, 1401). In pageable memory every download is waited for; in pinned memory,
  which the documentation recommends, a component may arrive after the return.
- `grid_stale`, `LocalRight`: `SH_to_lat` and `SHqst_to_lat` compute Legendre functions
  anew only when the latitude changes (`sht_func.c` 681, 764). A second call at the
  same latitude with more longitudes, or with larger `ltr` or `mtr`, sums functions
  that were never computed.

### Other disagreements
Each of these was found while modelling and is not among the runs. To see one, change
the named configuration as said, with the named property as its only one.

| Property | Configuration, and change | What the code does |
|---|---|---|
| `PlansAlive` | `MCRegistry.cfg`; `Sizes <- MCTriangular`, `Grids <- MCNoGrids` | `shtns_destroy` destroys `fft_rot` without counting references (1565), though copies share it: the base's rotations then use a destroyed plan. |
| `QuickLoadedRuns` | `MCAlgo.cfg`; `SPECIFICATION QuickSpec`, `VSIZE2 = 4` | `config_load` lets `sht_quick_init` use the records of `sht_gauss` (1317); when the former has switched to on-the-fly and allocated no matrices (1727), the loaded `mem` functions read null. |
| `AllCallable` | `MCAlgo.cfg` | With `nlat < 4*VSIZE2` the functions for a fixed m are copied from entries left null (214), and are called unchecked. |
| `BuffersFreed` | `MCTransform.cfg`; `Scenarios <- MCLeaking` | Synthesis allocates when `fftc_mode > 0` but frees only when it is 1 (`omp_SH_to_spat.gen.c` 449, 517-531); mode 2 leaks at every call. The `fly` and `mic` kernels have the same code. |
| `AtomicSpec` | `MCTransform.cfg`; `Scenarios <- MCSpoiled` | With OpenMP but without `fftw3_omp` (a build the source supports, though `configure` refuses it), vector analysis by the omp kernel outside of the split mode makes no FFT in place, and a split one for cuFFT's plan (`omp_spat_to_SH.gen.c` 398-406). |
| `RowsRight` | `MCFourierRows.cfg`; `Calls <- MCEven` | With AVX-512 the southern half is stored in groups of four latitudes counted from `NLAT/4` (`sht_private.h` 442): with an even NLAT that is no multiple of 4 it is in the wrong place. |
| `WeightsRead` | `MCFourierRows.cfg`; `Calls <- MCWide` | `mic` with 8 vectors reads weights beyond the padding that `grid_weights` has zeroed (956). |
| `OutputsRight` | `MCLegendreSum.cfg`; `Jobs <- MCTop` | Vector analysis of one order above 0 reads an accumulator that it has not cleared (`fly_spat_to_SH.gen.c` 580). |
| `SumsRight` | `MCLegendreSum.cfg`; `Jobs <- MCConstant` | With `llim = 0` the loops for order 0 still add degree 1. |
| `ProductsRight` | `MCStoredMatrices.cfg`; `Configs <- MCOdd` | With order 0 only, LMAX odd and an odd number of latitudes the analysis loops read past the matrix, whose size (431) has room for even LMAX only. |
| `ProductsRight` | `MCStoredMatrices.cfg`; `ReallocMoves = TRUE` | `free_unused_matrices` shortens `zlm` with `realloc` (372) and leaves its row pointers as they were. |
| `ResultsRight` | `MCGpuKernels.cfg`; `Jobs <- MCFields` | The launch of `ileg_m0_kernel` leaves out `lmax` (`sht_gpu_kernels.cu` 507), so that every later argument is taken for the one before it: two fields are not those given. |

The passing runs leave these calls out, by name, and some more:
- `rows` (`StoresWell`): `S2D_STORE_4MAGIC` of the scalar build writes both hemispheres to the same
  place (`sht_private.h` 669), that build has no place for an odd NLAT with
  SHTNS4MAGIC, the AVX-512 form of `S2D_CSTORE2` (446-459), used for one order,
  mixes units of one and of four complex numbers, and that of `S2D_CSTORE` needs NLAT to
  be a multiple of 4 (`MCEven` above).
- `gpu_streams`: the five transforms of `gpu_pinned` in pinned memory (`Unfinished`).
  `Uncleared`, when there are orders above mmax: vector synthesis with FFTs on the host
  out of place clears the caller's arrays instead of `xfft_cpu` (772, 836, 1028, 1116),
  and `SH_to_spat_gpu_hostfft` copies orders that nothing cleared (574).
  `OtherLayout`: in the native layout and with `nphi` not a multiple of 16, the device
  leaves meridians together (168) where the host's plans have parallels together
  (`planFFT`, 565-569). Each of the three violates `ResultsRight`.
- `grid_free` (`Careful`): at one latitude a later call never asks for more than the first (that
  is `grid_stale`), and a copy is used with the latitudes and longitudes of its base. The
  copy has a key of its own for the block it shares, so either takes the other's
  functions for its own; and a copy asked for another number of longitudes destroys the
  plan `ifft_lat` that the base still executes (`sht_func.c` 694).

## 4. Proofs

### ShtRegistry_proofs
For any finite set of configurations and any sets of sizes, grids and addresses that
satisfy `RegistryAssumption` (the set of configurations is finite and does not contain
null, sizes, grids and the copy switch are of their declared types) and
`AddressAssumption` (null is no address, "free" is no content):

- `RegistryInvariant`: `Spec => []IInv`;
- its conjuncts: `RegistryTypeOK` (checked within `IInv`), `TablesStayAllocated`
  (NoDangling), `TablesAreFreed` (NoLeak), `SharedTablesSuit` (TablesSuit),
  `GridsDoNotMix` (GridTablesSuit);
- `RegistryImplementsPool`: the registry implements `TablePool`.

*Why the invariant is stronger.* `NoDangling` alone is not inductive. A
destruction frees what has one holder; that it does not free a table under a
second name needs `WellPlaced` (a block is pointed to only through the member it
was allocated for, but for `blm` when it is the block of `alm`) and
`RecurrencePaired` (two configurations share both recurrences or neither: destroy
skips `blm` when it equals `alm`, which is right only then). That unlinking
forgets the configuration needs `NoDuplicates`. `NoLeak` needs `NoDangling`, and
the `Suits` properties need that an address in use is not handed out again. The
proof has one lemma for each action and each group of conjuncts, over lemmas about
reference counts (cardinality 1 means a single holder), about the pointers each
action leaves, and about the chain, which `LoadCfg` permutes: a reference count
depends on who is in it, not on where.

### ParallelTransform_proofs
For any number of orders, meridians and threads that satisfy `TransformAssumption`
(`NPHI > 2 MMAX`, which `planFFT` enforces, 491), and any set of builds and calls:

- `TransformInvariant`: `Spec => []RaceInv`; `TransformTypeOK`, `ThreadsStayApart`
  (NoRace);
- `BuffersAreFreed` (BuffersFreed), assuming `NoneLeaks`: none of the calls is one
  of those that lose their buffer;
- `NothingIsLeft` (`AtomicInv`) and `TransformIsAtomic` (`AtomicSpec`: the transform
  implements `AtomicTransform`), assuming `NoneSpoiled`: none is one of those whose
  FFTs go wrong.

*The argument.* A thread's orders are a residue class modulo the size of the team:
classes of two threads are disjoint, and together they are all orders. The rows of an
order, m and NPHI - m, and those that a thread clears, are not the rows of another
order, because NPHI > 2 MMAX. FFTs are a component each and taken by one thread
(`OneEach`); no thread computes rows while another is at an FFT, because the barrier
lies between (`BarrierHolds`). Neither is inductive unless it is known where a thread
is when it accesses something, which `Working` says: `busy` is what `pc`, `im` and
`comp` entail. `AtomicInv` is `RaceInv` and two more conjuncts: `OrdersDone`, a thread
has left no order of its share behind that is not complete, and `FftsDone`, the same for
components. With the barrier, what each thread has left behind is all there is when the
call returns, and an FFT begins when all of its rows are there. The refinement follows:
`Begin` and `Return` are the two steps of the task, and all others leave it alone.

### AlgoTable_proofs
For any number of processes, sizes, requests, vectors and timings that satisfy
`AlgoAssumption` (types, VSIZE2 one of 1, 2, 4, 8, and a process 0):

- `TypeCorrect` (TypeOK), `NothingWasted` (NoWaste), `ReadAsWritten` (LoadedAsSaved),
  `SameForAll` (SameConfig);
- `MatricesThere` (MatricesPresent), assuming `NoneFooled`: no request of
  `sht_quick_init` that may load records of `sht_gauss` is computed on the fly. The run's
  constants satisfy it; where it fails, the code does too (`QuickLoadedRuns` below).

*The argument.* `TableInv` says of each entry of a table which algorithm it stands for:
the function of an algorithm that the grid has, and `mem` only if matrices were
allocated or the entry came from the file. `EntryOK` says the same of each record, for
the key it was saved under. A name read back is a function again only because the name
that `fprint_ftable` finds, the first with this function, is an algorithm which this
grid has and which has the same function (`NameStands`); that is what ties a loaded
table to the one saved. `LoadedInv` keeps it while the file grows. For `SameConfig`, two processes
agree if both have read the file after process 0 was done with it: `BarrierInv` says who is
ahead of whom and that the number of threads depends on the request alone, and
`SettledInv` that the table of a process that is ready is what the file says *now* or, if
it says nothing, the default; while process 0 is timing, there is no record of its key, so
the one it appends is the first.

### LegendreSum_proofs
For every size of a transform, number of threads, blocks of latitudes and underflow, and any
calls that satisfy `SizesAssumption` and `JobsAssumption`, assuming `Callable`: `llim` is not
0, and the call is no analysis of a vector for one order above 0. In both cases the code is
wrong (section 3, `MCConstant` and `MCTop`).

- `TypeCorrect` (TypeOK), `SumsAreRight` (SumsRight), `OutputsAreRight` (OutputsRight).

*The argument.* `CoreInv` gives every register of a kernel as a function of the order and
of the degree reached: which two degrees `y0` and `y1` are of, where `al` is in the table,
what has been added up (`SumOK` in the loops of pairs, `SkipOK` while values underflow,
`StoredOK` and `Stored0OK` after the tail). It is an invariant because the offset of a row
is what the code's products and halves make it: `AlmRow` of an order from that of the
order before, `Pos` of two orders never the same (`OrdersApart`), all of which needs
`(i (i - 1)) / 2` to be what a triangular number is. `OutInv` is for analysis: `Filled` says when the
call has passed an order, by any thread before this one or by this one, and what it has passed `Holds`
its result; a store for one order leaves the other orders alone, and clearing the orders
beyond the truncation leaves those before. `EndInv` says that the last thread has passed
the last of its orders, and orders are shared out by remainders: so all are `Filled` when
the call ends. That remainders exhaust the numbers is an induction: `SetInduction` of
the module states it for a set, where the library's theorem has an operator, and proves
it from finite cardinalities.

### FourierRows_proofs
For any calls that satisfy `CallsAssumption` (every call is one that `CallExists`), so for
every grid size, order, polar limit, number of vectors in a block, vector extension,
layout and kernel:

- `RowsInvariant`: `Spec => [](RowsInv /\ WeightsInv /\ RoundTrip)`; `RowsAreRight`
  (RowsRight), `RowsTyped` (TypeOK, with it that no store is outside the two rows),
  `PartsComeBack` (RoundTrip), assuming `NoneMisplaced`: every call is one that
  `StoresWell`. The run's calls are; the macros are wrong in the others;
- `AllWeightsRead` (WeightsRead), assuming `NarrowSums`: an analysis takes at most 8
  vectors at a time, for which `grid_weights` pads the weights. The run's calls do; with
  more, the code reads past the padding (`MCWide`).

*The argument.* `Expected` is what a double of either row has to hold, and `Fill(c, D)` the
store of that at the addresses D. Each macro is such a store. That is shown lane by lane
(`Crossed`, `Turned`, `Plain`: the vectors the shuffles yield are `Near` and `Far` values
from some address on), then macro by macro (`WritesRight`): two of them agree wherever they
overlap, so neither the order of the stores nor a block that runs over the equator and
stores its mirror images again matters (`FillOver`, `BlocksRight`). Where a macro stores is a
`Band`: the latitudes from u to v - 1 and their mirror images. This is one definition for all
layouts, and bands one after another are a band (`BandJoin`). `RowsState` is then simple: after some
blocks the array is `Filled`, the band of those blocks over zeros for the polar band; for
`mic` it is empty and the local arrays hold that range of latitudes. It is inductive only
with what `PolarFacts` and `BlocksStored` say of the ends: the first block starts at or
before the end of the zeros, the last one passes the equator but not the grid. In the packed layout
both ends are even, so that the two latitudes of a complex number are stored, or skipped,
together (`CellsTogether`). A position that is in no band has a latitude before the
polar limit (`LatitudeCovered`): that is `RowsRight`. For `RoundTrip`, the sums and
differences that analysis takes of two rows give back twice a latitude (`SumsOfForms`), and those of
a latitude and its mirror image twice a part (`PartsOfForms`); equality of linear forms
is equality of their coefficients (`FormsEqual`).

### GpuStreams_proofs
For any configurations (`GpuAssumption` asks that they have the sizes of `Config` and that
their calls are calls of the 20 transforms, in memory pinned or not) and any `MaxCalls`:

- `StreamTypes`: `Spec => []TypeOK`, whatever the calls. With it, every copy, kernel and FFT
  of every transform is within `gpu_mem`, `xfft_cpu` and the arrays of the caller
  (`ProgramsIn`), for each size and layout;
- `StreamInvariant` (`IInv`), `RacesAbsent` (NoRace), `ResultsFound` (ResultsRight),
  `NothingLeft` (NothingPending), assuming `ProgramsOrdered` of the configuration at the
  start. The run `gpu_streams` finds it true of all its calls in its six configurations; the
  calls of `gpu_pinned` do not have it, and there the code is wrong.

So concurrency is proved once, for any interleaving of the host with the streams, any upload
that fails, and any number of calls; what is left for each transform is a statement
about its text.

*The argument.* An operation in a queue is one of the first h instructions of the program,
where h is how far the host has come (`FromProgram`), and queues keep the order of the
program (`InOrder`, `NoneSkipped`): so what is not done is a suffix of each stream. An event is
that of its last record before h (`EventsRight`), as the program alone tells (`RecordFor`);
hence a stream that is past a wait has what was recorded behind it (`WaitsDone`), and so
has the host (`AwaitedDone`, `Drained`). These turn the static order into facts
(`WaitedDone`, `CompleteDone`): what `Waited` or `Complete` put before an instruction is done
when that instruction runs. `MemoryRight` ties memory to it: a cell has what the last
instruction done has written, provided that no later writer is done. It is inductive
because writers of one cell conflict, hence are done in order. `Ordered` then excludes that
anything at the head of a queue meets what the host or the other stream does (`RaceFree`), and with
`Fed` every instruction finds its data (`StreamReads`, `HostFinds`), so its `Outcome` is
never junk.

Between calls, a transform of host data leaves nothing (`AllDone`). One of device data may leave
operations in `comp_stream`, which touch memory of the device only (`IsLeft`). The next call
runs behind them in the same stream, and uses the other only after it has waited for
this one (`CompWaited`). No call follows one that has failed.

### GpuKernels_proofs
For any truncation, number of latitudes, orders and fields, and any shape of blocks and
warps, that satisfy `SizesAssumption` and `LaunchAssumption`:

- `KernelInvariant`: `Spec => []IInv`; `GpuTypes` (TypeOK, with it all accesses to shared
  memory within the arrays), `NoRaces` (NoRace), `BarriersAreMet` (BarriersMet).

*The argument.* `Owner` cuts every shared array into one part for each warp. `AccessInv`
says of the accesses since the last barrier: what was written is in the part of who wrote
it, and what was read is in the reader's part or in an array that nobody writes at that
time (`WrittenIn`). Two accesses that collide then have one owner, whatever the warps'
order. But `Owner` and `WrittenIn` depend on how many barriers have been passed, so the
invariant has to tie a warp's place in the program to that number: `WarpOK` gives the
step, the degree `l` and the offsets `k` and `kq` as functions of `bar[w]`, one definition
for each kernel (`M0At`, `LowAt`, `HighAt`, `IlegAt`, `OnceAt`). `leg_m0` is the hard one: a first block
of the table is two numbers shorter than the others, the refill comes when `k + 6` reaches the block's
size, and the last coefficients must still be in shared memory when the degrees end with a
single one (`M0RunMath`, `M0LastMath`). For `BarriersMet` the same functions say whether
there is another barrier: `Comes` is what the loop's condition decides, from the number of
barriers alone. It holds of all numbers below one of which it holds (`ComesToAll`, by
`SetInduction`), and of none above the last of a warp that is done (`DoneMeans`); so the warp that is least far
of those still running (`LeastExists`) waits for nobody.

### GridFree_proofs
For every size (`LMAX` at least 2), vector size and block of vectors, number of negligible
degrees and program of calls that satisfy `GridFreeAssumption` (a copy is a new
configuration, and rotations are called where all orders are there, as `SH_rotK90` requires):

- `GridFreeTypes` (TypeOK), `OperatorsAreRight` (OperatorsRight), `RotationsAreRight`
  (RotationRight);
- `LocalIsRight` (LocalRight), assuming `CarefulJobs`: every program is `Careful`. The
  programs of `grid_free` are; without it the code is wrong (`grid_stale`, and copies in
  section 3).

*The argument.* All four rest on the packed tables: `PlaceFacts` says that `LiM` numbers the
degrees of the orders without gap or overlap, whatever the multiplicity, hence that `Coef`
undoes it (`CoefIs`), and `Climbs` that the recurrence meets its own coefficients.
`ProgOK` says that the call being executed is the next one of the program, and `CacheOK`
that a configuration has a block, a latitude, a number of longitudes and a plan, or none of
them.

For local fields `KeepOK` adds what is *in* the cache: for a configuration at a latitude
there is an earlier call for this latitude whose functions the block holds (`KeptOK`), and
since which nobody moved the configuration elsewhere; its plan has its length and exists
(`PlansOK`); and without copies nobody else points to the block or the plan (`ApartOK`). A
careful program's next call wants no more than that one, so what it sums is there. `FillAt`
and `SumAt` count the same places in two ways, which is a lemma about triangular numbers.

For rotations, `RotOK` bounds the indices, and `Between` says what a rotation has done so
far: `RingIs`, every point of the blocks of latitudes done so far has the field `Circle`
asks for, by the choice of negligible degrees of its own block; `StoreIs`, the result has
the orders done so far, one after the other. The steps: the two
buffers, even and odd in the order, have the products of these latitudes and nothing
of earlier ones (`BufferIs`); a point is one of the four of its latitude, and a block writes
the points of its latitudes only (`PointFound`, `RingCovers`), with the sign of their
quadrant (`SignIs`). `ResultRight` keeps the result until the next call.

*Only model-checked.* `ResetEnds` and `Returns` (liveness is out of the prover's
reach).
Of `GpuKernels`, `SumsRight` and `ResultsRight`: they need what is in shared memory, not
only who may touch it. Of `GpuStreams`, `ProgramsOrdered`, the condition of its theorems: it is
checked for every transform at the sizes of the run, and depends on the sizes only through
where regions end. `StoredMatrices`: not proved.


## 5. What is left

1. `GpuLifecycle`: owners of device memory and streams over init, clone,
   set_streams, release and destroy, composed with the registry's copies; then the
   streams a user may give. `GpuStreams` is no refinement of `AtomicTransform`, because
   calls on device data return before they are done; it would be of a specification
   with a begin, a return and a completion.
2. `CfgHeader`: the words of the header under `shtns_create_with_grid`, after which
   `ShtRegistry` stops. The tags of Fortran, with addresses that `malloc` reuses.
3. The pure functions of sizes (`choose_nlat`, `fft_int`, the partition of
   `memzero_omp`) against reference definitions over bounded inputs.
4. Proofs: `TypeOK` and `ProductsRight` of `StoredMatrices`; `SumsRight` of `GpuKernels`, on
   top of `KernelInvariant`; `ProgramsOrdered` for any sizes, region by region.


## 6. Not modelled

*Left out of the modules.* Floating-point values and accuracy: Legendre functions,
quadrature nodes, FFTs and their contents are data.
- Kernels: the number of rescalings before a degree counts is a choice; the last round
  of a row reads recurrence coefficients of the next row, or past the last one, and
  never uses them. The DCT branches are never compiled (`SHT_NO_DCT`). Matrices
  are those of Gauss grids. The macros for QPX and VSX are not translated.
- GPU kernels: one launch at a time, blocks one after another, the lanes of a warp in
  lockstep, `llim` at least 1; the branches for sizes of block that no launch uses
  are left out, and so is `transpose_cplx`, which is never called. Both directions of cuFFT are
  `CUFFT_INVERSE`, hence row `im` is order `-im` in analysis.
- GPU: `cu_SHsphtor_to_spat` and `cu_SHqst_to_spat` (`sht_gpu.cu` 451 passes the distance
  of fields and mmax in each other's place), the owners of device memory, streams given
  by the user.
- Functions without grid: one caller at a time; `legendre_sphPlm` for one degree, the
  `_hp` variants, `SH_cplx_*` and fields of complex numbers are left out. How many degrees are negligible is one number for each latitude and
  order. Rotations have `lmax` of at least 2.
- Registry: what happens after `shtns_create_with_grid` has overwritten the header; the
  four tags of Fortran (any configuration of the chain may be loaded).

*Whole components.* The FFTW library and its wisdom file, printing, the dispatch of
`sht_com.c` (one call through the table), the Python and Java bindings (argument checks
and wrappers), the timing and example programs, the build files.

## 7. How to run

In `tla/`, `tlc -config X.cfg M` with

| cfg | module |
|---|---|
| `MCRegistry.cfg` | `MCRegistryPrograms` |
| `MCRegistryGrid.cfg` | `MCShtRegistry` |
| `MCAlgo.cfg` | `MCAlgoTable` |
| `MCTransform.cfg` | `MCParallelTransform` |
| `MCGpuStreams.cfg`, `MCGpuPinned.cfg` | `MCGpuStreams` |
| `MCGridFree.cfg`, `MCGridStale.cfg` | `MCGridFree` |
| the others | of the same name |

and `tlapm M.tla` for the modules `..._proofs`.
