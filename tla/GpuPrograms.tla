----------------------------- MODULE GpuPrograms ----------------------------
(***************************************************************************)
(* The transforms of sht_gpu.cu, as programs of the host thread that calls *)
(* them.  An instruction launches a kernel, starts a copy, records an      *)
(* event or waits for one, or computes on the host.  It says which data it *)
(* expects where, and which data it leaves where: sums and FFTs are        *)
(* abstracted to the names of what they take and yield.                    *)
(*                                                                         *)
(* Memory is cut into cells.  A spatial or Fourier field has one cell for  *)
(* the orders up to mmax, and one for those in the middle if there are     *)
(* any; a set of coefficients has cfg.nlm cells.                           *)
(***************************************************************************)
EXTENDS Integers, Sequences

VARIABLE cfg    \* the configuration that is used

Config ==
  [native : BOOLEAN,             \* SHT_NATIVE_LAYOUT, else theta-contiguous
   nlat_2 : Nat, nphi : Nat, mmax : Nat,
   nlm : Nat \ {0}]              \* nlm_stride, in cells

(* init_cuda_buffer_fft and planFFT: out of place on the host, transposed  *)
(* on the device.                                                          *)
OutOfPlace == cfg.native
Transposed == cfg.native /\ cfg.nphi % 16 = 0 /\ cfg.nlat_2 % 16 = 0

FieldSize == IF cfg.nphi > 2 * cfg.mmax + 1 THEN 2 ELSE 1
nlm_stride == cfg.nlm

(* dual_stride: two fields must also hold two sets of coefficients. *)
spat_stride == IF FieldSize < nlm_stride THEN nlm_stride ELSE FieldSize

MGpuMemSize == 2 * nlm_stride + 3 * FieldSize
GpuMemSize == 2 * nlm_stride + 2 * spat_stride + FieldSize

(* Regions are sequences of cells. *)
Region(a, base, n) == [i \in 1..n |-> <<a, base + i>>]
Spectrum(base) == Region("gpu_mem", base, nlm_stride)
Field(base) == Region("gpu_mem", base, FieldSize)

Spectra == {"Q", "S", "T"}
Fields == {"Vr", "Vt", "Vp"}
Array(a) == Region(a, 0, IF a \in Spectra THEN nlm_stride ELSE FieldSize)

(* The caller's arrays for the transforms of data on the device. *)
OnDevice == [Q |-> "d_Q", S |-> "d_S", T |-> "d_T",
             Vr |-> "d_Vr", Vt |-> "d_Vt", Vp |-> "d_Vp"]
DeviceArray(a) ==
  Region(OnDevice[a], 0, IF a \in Spectra THEN nlm_stride ELSE FieldSize)

(* The rows of the orders up to mmax, and the others. *)
Kept(region) == SubSeq(region, 1, 1)
Middle(region) == SubSeq(region, 2, Len(region))

Data(region, v) == [at |-> region, is |-> v]

-----------------------------------------------------------------------------
(* Instructions, as sequences of one.                                      *)

Launch(in, out) == <<[kind |-> "launch", in |-> in, out |-> out]>>

(* cudaMemcpy on the default stream, cudaMemcpyAsync on the other. *)
Upload(how, from, to, v) ==
  <<[kind |-> "copy", dir |-> "up", how |-> how,
     in |-> <<Data(from, v)>>, out |-> <<Data(to, v)>>]>>
Download(how, from, to, v) ==
  <<[kind |-> "copy", dir |-> "down", how |-> how,
     in |-> <<Data(from, v)>>, out |-> <<Data(to, v)>>]>>

Record(e, s) == <<[kind |-> "record", event |-> e, stream |-> s]>>
Wait(s, e) == <<[kind |-> "wait", event |-> e, stream |-> s]>>
Synchronize(e) == <<[kind |-> "synchronize", event |-> e]>>
HostWork(in, out) == <<[kind |-> "host", in |-> in, out |-> out]>>

-----------------------------------------------------------------------------
(* What the transforms are made of.  A component is named after its field. *)

Scalar == [Vr |-> "Q", Vt |-> "V", Vp |-> "W"]

(* The plan of cuFFT leaves meridians together unless it transposes; the   *)
(* native layout of the host, that of planFFT, has parallels together.     *)
Strided == [Vr |-> "Vr_strided", Vt |-> "Vt_strided", Vp |-> "Vp_strided"]
DeviceLayout(a) ==
  IF a \in Fields /\ cfg.native /\ ~Transposed THEN Strided[a] ELSE a

Fourier == [Vr |-> "Fr", Vt |-> "Ft", Vp |-> "Fp"]

legendre(c, ql, q) ==
  Launch(<<Data(ql, Scalar[c])>>, <<Data(Kept(q), Fourier[c])>>)

ilegendre(c, q, ql) ==
  Launch(<<>>, <<Data(ql, "zero")>>)
  \o Launch(<<Data(Kept(q), Fourier[c]), Data(ql, "zero")>>,
            <<Data(ql, Scalar[c])>>)

sphtor2scal_gpu(s, t, v, w) ==
  Launch(<<Data(s, "S"), Data(t, "T")>>, <<Data(v, "V"), Data(w, "W")>>)

scal2sphtor_gpu(v, w, s, t) ==
  Launch(<<Data(v, "V"), Data(w, "W")>>, <<Data(s, "S"), Data(t, "T")>>)

(* The orders above mmax are cleared first, if there are any, or while     *)
(* transposing.                                                            *)
fourier_to_spat_gpu(c, q) ==
  LET x == IF Transposed THEN Array("xfft") ELSE q
  IN  (IF Transposed
       THEN Launch(<<Data(Kept(q), Fourier[c])>>,
                   <<Data(Kept(x), Fourier[c]), Data(Middle(x), "zero")>>)
       ELSE IF 2 * (cfg.mmax + 1) <= cfg.nphi
       THEN Launch(<<>>, <<Data(Middle(q), "zero")>>) ELSE <<>>)
      \o Launch(<<Data(Kept(x), Fourier[c]), Data(Middle(x), "zero")>>,
                <<Data(q, DeviceLayout(c))>>)

spat_to_fourier_gpu(c, q) ==
  IF Transposed
  THEN Launch(<<Data(q, DeviceLayout(c))>>,
              <<Data(Array("xfft"), Fourier[c])>>)
       \o Launch(<<Data(Kept(Array("xfft")), Fourier[c])>>,
                 <<Data(Kept(q), Fourier[c])>>)
  ELSE Launch(<<Data(q, DeviceLayout(c))>>, <<Data(q, Fourier[c])>>)

fourier_to_spat_host(c, qf, q) ==
  HostWork(<<Data(Kept(qf), Fourier[c]), Data(Middle(qf), "zero")>>,
           <<Data(q, c)>>)

spat_to_fourier_host(c, q, qf) ==
  HostWork(<<Data(q, c)>>, <<Data(qf, Fourier[c])>>)

memzero_omp(arrays) ==
  HostWork(<<>>, [i \in DOMAIN arrays |-> Data(Middle(arrays[i]), "zero")])

cuda_SH_to_spat(c, ql, q) == legendre(c, ql, q) \o fourier_to_spat_gpu(c, q)
cuda_spat_to_SH(c, q, ql) == spat_to_fourier_gpu(c, q) \o ilegendre(c, q, ql)

(* legendre<1,2> and so on: two components at once. *)
legendre_2(ql, q) ==
  legendre("Vt", Spectrum(ql), Field(q))
  \o legendre("Vp", Spectrum(ql + nlm_stride), Field(q + spat_stride))

cuda_SH_to_spat_2(ql, q) ==
  legendre_2(ql, q) \o fourier_to_spat_gpu("Vt", Field(q))
  \o fourier_to_spat_gpu("Vp", Field(q + spat_stride))

cuda_spat_to_SH_2(qt, qp, ql) ==
  spat_to_fourier_gpu("Vt", qt) \o spat_to_fourier_gpu("Vp", qp)
  \o ilegendre("Vt", qt, Spectrum(ql))
  \o ilegendre("Vp", qp, Spectrum(ql + nlm_stride))
=============================================================================
