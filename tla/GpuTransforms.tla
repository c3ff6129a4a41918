---------------------------- MODULE GpuTransforms ---------------------------
(***************************************************************************)
(* The transforms offered to the program: those that take data of the      *)
(* host (the table fgpu, and SHqst_to_spat_gpu_hostfft, which the table    *)
(* leaves out), and those that take data of the device.  Every one is      *)
(* named as in sht_gpu.cu, and works in the block gpu_mem of its           *)
(* configuration at the offsets used there.                                *)
(***************************************************************************)
EXTENDS GpuPrograms

(* d_vwlm or d_qvwlm, and d_vtp or d_vrtp, of most vector transforms. *)
vw == 0
vtp == 2 * nlm_stride

(* Where the Fourier data of the host go when the FFT is out of place: one *)
(* array is free at each time, and the last one goes to xfft_cpu.          *)
VrF == Array(IF OutOfPlace THEN "Vt" ELSE "Vr")
VtF == Array(IF OutOfPlace THEN "Vp" ELSE "Vt")
VpF == Array(IF OutOfPlace THEN "xfft_cpu" ELSE "Vp")
ScalarF == Array(IF OutOfPlace THEN "xfft_cpu" ELSE "Vr")

(* Is it worth copying the orders up to mmax only? *)
TwoParts == 12 * (cfg.mmax + 1) < 5 * cfg.nphi

SH_to_spat_gpu ==
  Upload("sync", Array("Q"), Spectrum(0), "Q")
  \o cuda_SH_to_spat("Vr", Spectrum(0), Field(nlm_stride))
  \o Download("sync", Field(nlm_stride), Array("Vr"), "Vr")

spat_to_SH_gpu ==
  Upload("sync", Array("Vr"), Field(nlm_stride), "Vr")
  \o cuda_spat_to_SH("Vr", Field(nlm_stride), Spectrum(0))
  \o Download("sync", Spectrum(0), Array("Q"), "Q")

MSH_to_spat_gpu_hostfft ==
  Upload("sync", Array("Q"), Spectrum(0), "Q")
  \o legendre("Vr", Spectrum(0), Field(nlm_stride))
  \o Download("sync", Kept(Field(nlm_stride)), Kept(ScalarF), "Fr")
  \o fourier_to_spat_host("Vr", ScalarF, Array("Vr"))

SH_to_spat_gpu_hostfft ==
  LET q == Field(nlm_stride)
  IN  Upload("sync", Array("Q"), Spectrum(0), "Q")
      \o legendre("Vr", Spectrum(0), q)
      \o (IF TwoParts THEN memzero_omp(<<ScalarF>>)
          ELSE Download("sync", Middle(q), Middle(ScalarF), "zero"))
      \o Download("sync", Kept(q), Kept(ScalarF), "Fr")
      \o fourier_to_spat_host("Vr", ScalarF, Array("Vr"))

spat_to_SH_gpu_hostfft ==
  LET q == Field(nlm_stride)
  IN  spat_to_fourier_host("Vr", Array("Vr"), ScalarF)
      \o (IF TwoParts THEN Upload("sync", Kept(ScalarF), Kept(q), "Fr")
          ELSE Upload("sync", ScalarF, q, "Fr"))
      \o ilegendre("Vr", q, Spectrum(0))
      \o Download("sync", Spectrum(0), Array("Q"), "Q")

-----------------------------------------------------------------------------
(* Vector synthesis.                                                       *)

(* Both sets of coefficients, and their conversion to scalar ones. *)
UploadST(how) ==
  Upload(how, Array("S"), Spectrum(vtp), "S")
  \o Upload(how, Array("T"), Spectrum(vtp + nlm_stride), "T")
ScalarsOfST ==
  sphtor2scal_gpu(Spectrum(vtp), Spectrum(vtp + nlm_stride),
                  Spectrum(vw), Spectrum(vw + nlm_stride))

SHsphtor_to_spat_gpu ==
  UploadST("sync") \o ScalarsOfST
  \o cuda_SH_to_spat("Vt", Spectrum(vw), Field(vtp))
  \o Record("sht", "comp")
  \o cuda_SH_to_spat("Vp", Spectrum(vw + nlm_stride), Field(vtp + spat_stride))
  \o Wait("xfer", "sht")
  \o Download("async", Field(vtp), Array("Vt"), "Vt")
  \o Download("sync", Field(vtp + spat_stride), Array("Vp"), "Vp")

SHsphtor_to_spat_gpu2 ==
  UploadST("sync") \o ScalarsOfST \o cuda_SH_to_spat_2(vw, vtp)
  \o Download("sync", Field(vtp), Array("Vt"), "Vt")
  \o Download("sync", Field(vtp + spat_stride), Array("Vp"), "Vp")

(* Fourier data of components theta and phi to the host, with the events   *)
(* the host waits for.                                                     *)
DownloadFt ==
  Download("async", Kept(Field(vtp)), Kept(VtF), "Ft")
DownloadFp ==
  Download("async", Kept(Field(vtp + spat_stride)), Kept(VpF), "Fp")
TailFft ==
  Synchronize("sht") \o fourier_to_spat_host("Vt", VtF, Array("Vt"))
  \o Synchronize("sht2") \o fourier_to_spat_host("Vp", VpF, Array("Vp"))

SHsphtor_to_spat_gpu_hostfft ==
  UploadST("sync") \o ScalarsOfST
  \o legendre("Vt", Spectrum(vw), Field(vtp)) \o Record("sht", "comp")
  \o legendre("Vp", Spectrum(vw + nlm_stride), Field(vtp + spat_stride))
  \o Record("sht2", "comp")
  \o Wait("xfer", "sht") \o DownloadFt \o Record("sht", "xfer")
  \o Wait("xfer", "sht2") \o DownloadFp \o Record("sht2", "xfer")
  \o memzero_omp(<<Array("Vt"), Array("Vp")>>)
  \o TailFft

SHsphtor_to_spat_gpu2_hostfft ==
  UploadST("sync") \o ScalarsOfST
  \o legendre_2(vw, vtp) \o Record("sht", "comp")
  \o Wait("xfer", "sht") \o DownloadFt \o Record("sht", "xfer")
  \o DownloadFp \o Record("sht2", "xfer")
  \o memzero_omp(<<Array("Vt"), Array("Vp")>>)
  \o TailFft

-----------------------------------------------------------------------------
(* Synthesis of three components: the radial one is computed while the     *)
(* coefficients of the others are uploaded.                                *)

Vr_at == vtp + 2 * spat_stride

MUploadBehind ==
  UploadST("async") \o Record("sht0", "comp") \o Record("up", "xfer")

UploadBehind ==
  UploadST("async") \o Record("sht0", "comp") \o Record("up", "xfer")
  \o Wait("comp", "up")

SHqst_to_spat_gpu ==
  Upload("sync", Array("Q"), Spectrum(vw), "Q")
  \o cuda_SH_to_spat("Vr", Spectrum(vw), Field(Vr_at))
  \o UploadBehind \o ScalarsOfST
  \o cuda_SH_to_spat("Vt", Spectrum(vw), Field(vtp)) \o Record("sht", "comp")
  \o cuda_SH_to_spat("Vp", Spectrum(vw + nlm_stride), Field(vtp + spat_stride))
  \o Wait("xfer", "sht0")
  \o Download("async", Field(Vr_at), Array("Vr"), "Vr")
  \o Wait("xfer", "sht")
  \o Download("async", Field(vtp), Array("Vt"), "Vt")
  \o Download("sync", Field(vtp + spat_stride), Array("Vp"), "Vp")

SHqst_to_spat_gpu2 ==
  Upload("sync", Array("Q"), Spectrum(vw), "Q")
  \o cuda_SH_to_spat("Vr", Spectrum(vw), Field(Vr_at))
  \o UploadBehind \o ScalarsOfST
  \o cuda_SH_to_spat_2(vw, vtp)
  \o Wait("xfer", "sht0")
  \o Download("async", Field(Vr_at), Array("Vr"), "Vr")
  \o Download("sync", Field(vtp), Array("Vt"), "Vt")
  \o Download("sync", Field(vtp + spat_stride), Array("Vp"), "Vp")

(* The beginning of both transforms with FFTs on the host, and its end. *)
RadialFirst ==
  Upload("sync", Array("Q"), Spectrum(vw), "Q")
  \o legendre("Vr", Spectrum(vw), Field(Vr_at))
  \o UploadBehind \o ScalarsOfST
DownloadFr ==
  Wait("xfer", "sht0")
  \o Download("async", Kept(Field(Vr_at)), Kept(VrF), "Fr")
  \o Record("sht0", "xfer")
RadialFft ==
  memzero_omp(<<Array("Vr"), Array("Vt"), Array("Vp")>>)
  \o Synchronize("sht0") \o fourier_to_spat_host("Vr", VrF, Array("Vr"))

SHqst_to_spat_gpu_hostfft ==
  RadialFirst
  \o legendre("Vt", Spectrum(vw), Field(vtp)) \o Record("sht", "comp")
  \o legendre("Vp", Spectrum(vw + nlm_stride), Field(vtp + spat_stride))
  \o Record("sht2", "comp")
  \o DownloadFr
  \o Wait("xfer", "sht") \o DownloadFt \o Record("sht", "xfer")
  \o Wait("xfer", "sht2") \o DownloadFp \o Record("sht2", "xfer")
  \o RadialFft \o TailFft

SHqst_to_spat_gpu2_hostfft ==
  RadialFirst
  \o legendre_2(vw, vtp) \o Record("sht", "comp")
  \o DownloadFr
  \o Wait("xfer", "sht") \o DownloadFt \o Record("sht", "xfer")
  \o DownloadFp \o Record("sht2", "xfer")
  \o RadialFft \o TailFft

-----------------------------------------------------------------------------
(* Analysis.  The transforms of two components place the fields first.     *)

vtp_first == 0
vw_last == 2 * spat_stride

(* The coefficients of S and T, written over the fields at base. *)
CoefficientsST(scalars, base) ==
  scal2sphtor_gpu(Spectrum(scalars), Spectrum(scalars + nlm_stride),
                  Spectrum(base), Spectrum(base + nlm_stride))
DownloadST(how, base) ==
  Download(how, Spectrum(base), Array("S"), "S")
  \o Download(how, Spectrum(base + nlm_stride), Array("T"), "T")

(* Component phi is uploaded while theta is transformed. *)
ThetaThenPhi(fields, scalars) ==
  Upload("sync", Array("Vt"), Field(fields), "Vt")
  \o cuda_spat_to_SH("Vt", Field(fields), Spectrum(scalars))
  \o Upload("async", Array("Vp"), Field(fields + spat_stride), "Vp")
  \o Record("up", "xfer") \o Wait("comp", "up")
  \o cuda_spat_to_SH("Vp", Field(fields + spat_stride),
                     Spectrum(scalars + nlm_stride))
  \o CoefficientsST(scalars, fields)

ThetaAndPhi(fields, scalars) ==
  Upload("sync", Array("Vt"), Field(fields), "Vt")
  \o Upload("sync", Array("Vp"), Field(fields + spat_stride), "Vp")
  \o cuda_spat_to_SH_2(Field(fields), Field(fields + spat_stride), scalars)
  \o CoefficientsST(scalars, fields)

spat_to_SHsphtor_gpu ==
  ThetaThenPhi(vtp_first, vw_last) \o DownloadST("sync", vtp_first)

spat_to_SHsphtor_gpu2 ==
  ThetaAndPhi(vtp_first, vw_last) \o DownloadST("sync", vtp_first)

(* Then the radial component, uploaded behind the vector transform. *)
ThenRadial ==
  Record("sht2", "comp")
  \o Upload("async", Array("Vr"), Field(Vr_at), "Vr")
  \o Record("up2", "xfer") \o Wait("comp", "up2")
  \o cuda_spat_to_SH("Vr", Field(Vr_at), Spectrum(vw))
  \o Wait("xfer", "sht2") \o DownloadST("async", vtp)
  \o Download("sync", Spectrum(vw), Array("Q"), "Q")

spat_to_SHqst_gpu == ThetaThenPhi(vtp, vw) \o ThenRadial
spat_to_SHqst_gpu2 == ThetaAndPhi(vtp, vw) \o ThenRadial

-----------------------------------------------------------------------------
(* On the device: nothing is copied, and nobody waits.  The caller puts    *)
(* the data in place with a kernel of its own.                             *)

Given(arrays) ==
  Launch(<<>>, [i \in DOMAIN arrays |->
                  Data(DeviceArray(arrays[i]), DeviceLayout(arrays[i]))])

cu_SH_to_spat ==
  Given(<<"Q">>) \o cuda_SH_to_spat("Vr", DeviceArray("Q"), DeviceArray("Vr"))

AnalyseScalar ==
  cuda_spat_to_SH("Vr", DeviceArray("Vr"), DeviceArray("Q"))
AnalyseVector ==
  cuda_spat_to_SH_2(DeviceArray("Vt"), DeviceArray("Vp"), vw)
  \o scal2sphtor_gpu(Spectrum(vw), Spectrum(vw + nlm_stride),
                     DeviceArray("S"), DeviceArray("T"))

cu_spat_to_SH == Given(<<"Vr">>) \o AnalyseScalar
cu_spat_to_SHsphtor == Given(<<"Vt", "Vp">>) \o AnalyseVector
cu_spat_to_SHqst == Given(<<"Vr", "Vt", "Vp">>) \o AnalyseScalar \o AnalyseVector

-----------------------------------------------------------------------------
(* A transform by name: its program, and the arrays it takes and gives.    *)

T(program, in, out) == [program |-> program, in |-> in, out |-> out]

Transform(name) ==
  LET all == {"Vr", "Vt", "Vp"}
      vector == {"Vt", "Vp"}
      ST == {"S", "T"}
  IN  CASE name = "SH_to_spat_gpu" -> T(SH_to_spat_gpu, {"Q"}, {"Vr"})
        [] name = "SH_to_spat_gpu_hostfft" ->
             T(SH_to_spat_gpu_hostfft, {"Q"}, {"Vr"})
        [] name = "SHsphtor_to_spat_gpu" -> T(SHsphtor_to_spat_gpu, ST, vector)
        [] name = "SHsphtor_to_spat_gpu2" -> T(SHsphtor_to_spat_gpu2, ST, vector)
        [] name = "SHsphtor_to_spat_gpu_hostfft" ->
             T(SHsphtor_to_spat_gpu_hostfft, ST, vector)
        [] name = "SHsphtor_to_spat_gpu2_hostfft" ->
             T(SHsphtor_to_spat_gpu2_hostfft, ST, vector)
        [] name = "SHqst_to_spat_gpu" -> T(SHqst_to_spat_gpu, Spectra, all)
        [] name = "SHqst_to_spat_gpu2" -> T(SHqst_to_spat_gpu2, Spectra, all)
        [] name = "SHqst_to_spat_gpu_hostfft" ->
             T(SHqst_to_spat_gpu_hostfft, Spectra, all)
        [] name = "SHqst_to_spat_gpu2_hostfft" ->
             T(SHqst_to_spat_gpu2_hostfft, Spectra, all)
        [] name = "spat_to_SH_gpu" -> T(spat_to_SH_gpu, {"Vr"}, {"Q"})
        [] name = "spat_to_SH_gpu_hostfft" ->
             T(spat_to_SH_gpu_hostfft, {"Vr"}, {"Q"})
        [] name = "spat_to_SHsphtor_gpu" -> T(spat_to_SHsphtor_gpu, vector, ST)
        [] name = "spat_to_SHsphtor_gpu2" -> T(spat_to_SHsphtor_gpu2, vector, ST)
        [] name = "spat_to_SHqst_gpu" -> T(spat_to_SHqst_gpu, all, Spectra)
        [] name = "spat_to_SHqst_gpu2" -> T(spat_to_SHqst_gpu2, all, Spectra)
        [] name = "cu_SH_to_spat" -> T(cu_SH_to_spat, {"Q"}, {"Vr"})
        [] name = "cu_spat_to_SH" -> T(cu_spat_to_SH, {"Vr"}, {"Q"})
        [] name = "cu_spat_to_SHsphtor" -> T(cu_spat_to_SHsphtor, vector, ST)
        [] name = "cu_spat_to_SHqst" -> T(cu_spat_to_SHqst, all, Spectra)

DeviceTransforms ==
  {"cu_SH_to_spat", "cu_spat_to_SH", "cu_spat_to_SHsphtor", "cu_spat_to_SHqst"}

TransformNames ==
  {"SH_to_spat_gpu", "SH_to_spat_gpu_hostfft", "SHsphtor_to_spat_gpu",
   "SHsphtor_to_spat_gpu2", "SHsphtor_to_spat_gpu_hostfft",
   "SHsphtor_to_spat_gpu2_hostfft", "SHqst_to_spat_gpu", "SHqst_to_spat_gpu2",
   "SHqst_to_spat_gpu_hostfft", "SHqst_to_spat_gpu2_hostfft",
   "spat_to_SH_gpu", "spat_to_SH_gpu_hostfft", "spat_to_SHsphtor_gpu",
   "spat_to_SHsphtor_gpu2", "spat_to_SHqst_gpu", "spat_to_SHqst_gpu2"}
  \cup DeviceTransforms
=============================================================================
