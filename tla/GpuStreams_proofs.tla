------------------------- MODULE GpuStreams_proofs -------------------------
(***************************************************************************)
(* No race between the two streams and the host, and results that are      *)
(* right and complete when a transform returns, for any configurations of  *)
(* any size, any calls of the transforms, and any number of calls.         *)
(*                                                                         *)
(* The types hold in every case.  The rest rests on ProgramsOrdered, which *)
(* looks at the text of one program at a time: instructions which meet in  *)
(* memory are ordered by a stream, an event or a wait of the host.  The    *)
(* invariant says that the queues hold the instructions of the program     *)
(* which are not done, in order; that whatever the program orders before   *)
(* something that has happened is done; and that memory has what the last  *)
(* instruction done has written there.  An earlier transform of data on    *)
(* the device may leave operations on the device in comp_stream only.      *)
(***************************************************************************)
EXTENDS GpuOrder, TLAPS

-----------------------------------------------------------------------------
(* Every program is made of instructions on the memory there is. *)

(* Data in regions of memory, and instructions that use them. *)
Regions == Seq(AllCells)
Filled == {r \in Regions : r # <<>>}
Words ==
  {"Q", "S", "T", "V", "W", "Vr", "Vt", "Vp", "Vr_strided", "Vt_strided",
   "Vp_strided", "Fr", "Ft", "Fp", "zero", "junk"}
Datum == [at : Regions, is : Words]
Datas == Seq(Datum)
Instruction ==
  [kind : {"launch", "host"}, in : Datas, out : Datas]
  \cup [kind : {"copy"}, dir : {"up", "down"}, how : {"sync", "async"},
        in : Datas, out : Datas]
  \cup [kind : {"record", "wait"}, event : Events, stream : Streams]
  \cup [kind : {"synchronize"}, event : Events]
Code == Seq(Instruction)

(* The sizes of the arrays on the device. *)
LEMMA Sizes ==
  ASSUME cfg \in Config
  PROVE  /\ nlm_stride \in Nat \ {0}
         /\ FieldSize \in {1, 2}
         /\ spat_stride \in Nat /\ spat_stride >= nlm_stride /\ spat_stride >= FieldSize
         /\ GpuMemSize = 2 * nlm_stride + 2 * spat_stride + FieldSize
<1>1. nlm_stride \in Nat \ {0}
  BY DEF Config, nlm_stride
<1>2. FieldSize \in {1, 2}
  BY DEF FieldSize
<1>3. spat_stride \in Nat /\ spat_stride >= nlm_stride /\ spat_stride >= FieldSize
  BY <1>1, <1>2 DEF spat_stride
<1> QED BY <1>1, <1>2, <1>3 DEF GpuMemSize

(* A region is a sequence of cells. *)
LEMMA RegionIn ==
  ASSUME NEW S, NEW a, NEW b \in Nat, NEW n \in Nat, \A i \in 1..n : <<a, b + i>> \in S
  PROVE  /\ Region(a, b, n) \in Seq(S)
         /\ Len(Region(a, b, n)) = n
         /\ n # 0 => Region(a, b, n) # <<>>
BY DEF Region

(* The cells of a region. *)
LEMMA CellsOfRegion ==
  ASSUME NEW a, NEW b \in Nat, NEW n \in Nat
  PROVE  CellsOf(Region(a, b, n)) = {<<a, b + i>> : i \in 1..n}
BY DEF CellsOf, Region

(* A region that is not empty. *)
LEMMA RegionFilled ==
  ASSUME NEW a, NEW b \in Nat, NEW n \in Nat \ {0}, CellsOf(Region(a, b, n)) \subseteq AllCells
  PROVE  Region(a, b, n) \in Filled
<1>1. \A i \in 1..n : <<a, b + i>> \in AllCells
  BY CellsOfRegion
<1>2. Region(a, b, n) \in Seq(AllCells) /\ Region(a, b, n) # <<>>
  BY <1>1, RegionIn
<1> QED BY <1>2 DEF Filled, Regions

(* A part of the memory that was allocated on the device. *)
LEMMA InMemory ==
  ASSUME cfg \in Config, NEW b \in Nat, NEW n \in Nat \ {0}, b + n <= GpuMemSize
  PROVE  Region("gpu_mem", b, n) \in Filled
<1>1. GpuMemSize \in Nat
  BY Sizes
<1>2. \A a : CellsOf(Region(a, b, n)) \subseteq CellsOf(Region(a, 0, GpuMemSize))
  <2> TAKE a
  <2>1. CellsOf(Region(a, b, n)) = {<<a, b + i>> : i \in 1..n}
    BY DEF CellsOf, Region
  <2>2. CellsOf(Region(a, 0, GpuMemSize)) = {<<a, 0 + i>> : i \in 1..GpuMemSize}
    <3>1. \A g \in Nat : CellsOf(Region(a, 0, g)) = {<<a, 0 + i>> : i \in 1..g}
      <4> TAKE g \in Nat
      <4> QED BY DEF CellsOf, Region
    <3> QED BY <1>1, <3>1
  <2>3. \A i \in 1..n : b + i \in 1..GpuMemSize /\ 0 + (b + i) = b + i
    BY <1>1
  <2> QED BY <2>1, <2>2, <2>3
<1>3. CellsOf(Region("gpu_mem", 0, GpuMemSize)) \subseteq AllCells
  BY DEF AllCells
<1>4. CellsOf(Region("gpu_mem", b, n)) \subseteq AllCells
  BY <1>2, <1>3
<1>5. \A a : CellsOf(Region(a, b, n)) \subseteq AllCells => Region(a, b, n) \in Filled
  BY RegionFilled
<1> QED BY <1>4, <1>5

(* The coefficients on the device. *)
LEMMA SpectrumIn ==
  ASSUME cfg \in Config, NEW b \in Nat, b + nlm_stride <= GpuMemSize
  PROVE  Spectrum(b) \in Filled
BY Sizes, InMemory DEF Spectrum

(* The fields on the device. *)
LEMMA FieldIn ==
  ASSUME cfg \in Config, NEW b \in Nat, b + FieldSize <= GpuMemSize
  PROVE  Field(b) \in Filled
BY Sizes, InMemory DEF Field

(* The arrays of the host. *)
LEMMA ArrayIn ==
  ASSUME cfg \in Config
  PROVE  /\ \A a \in Spectra \cup Fields : Array(a) \in Filled /\ DeviceArray(a) \in Filled
         /\ Array("xfft") \in Filled /\ Array("xfft_cpu") \in Filled
<1> DEFINE size(a) == IF a \in Spectra THEN nlm_stride ELSE FieldSize
<1>1. \A a : size(a) \in Nat \ {0}
  BY Sizes
<1>2. \A a \in Spectra \cup Fields :
        CellsOf(Array(a)) \subseteq AllCells /\ CellsOf(DeviceArray(a)) \subseteq AllCells
  BY DEF AllCells
<1>3. CellsOf(Array("xfft")) \subseteq AllCells /\ CellsOf(Array("xfft_cpu")) \subseteq AllCells
  BY DEF AllCells
<1>4. \A a : Array(a) = Region(a, 0, size(a)) /\ DeviceArray(a) = Region(OnDevice[a], 0, size(a))
  BY DEF Array, DeviceArray
<1> HIDE DEF size
<1>5. \A a : CellsOf(Array(a)) \subseteq AllCells => Array(a) \in Filled
  BY <1>1, <1>4, RegionFilled
<1>6. \A a : CellsOf(DeviceArray(a)) \subseteq AllCells => DeviceArray(a) \in Filled
  BY <1>1, <1>4, RegionFilled
<1> QED BY <1>2, <1>3, <1>5, <1>6

(* Pieces of a program. *)
LEMMA PartsIn ==
  ASSUME NEW r \in Filled
  PROVE  Kept(r) \in Regions /\ Middle(r) \in Regions /\ Kept(r) # <<>>
BY DEF Filled, Regions, Kept, Middle

(* Pieces of a program, one after the other. *)
LEMMA Joined ==
  ASSUME NEW a \in Code, NEW b \in Code
  PROVE  a \o b \in Code
BY DEF Code

(* Data in a region. *)
LEMMA DatumIn ==
  ASSUME NEW r \in Regions, NEW v \in Words
  PROVE  Data(r, v) \in Datum
BY DEF Data, Datum

(* The launch of a kernel. *)
LEMMA LaunchIn ==
  ASSUME NEW in \in Datas, NEW out \in Datas
  PROVE  Launch(in, out) \in Code /\ HostWork(in, out) \in Code
BY DEF Launch, HostWork, Code, Instruction

(* A copy. *)
LEMMA CopyIn ==
  ASSUME NEW how \in {"sync", "async"}, NEW r \in Regions, NEW q \in Regions, NEW v \in Words
  PROVE  Upload(how, r, q, v) \in Code /\ Download(how, r, q, v) \in Code
<1>1. <<Data(r, v)>> \in Datas /\ <<Data(q, v)>> \in Datas
  BY DatumIn DEF Datas
<1> QED BY <1>1 DEF Upload, Download, Code, Instruction

(* The events. *)
LEMMA EventIn ==
  ASSUME NEW e \in Events, NEW s \in Streams
  PROVE  Record(e, s) \in Code /\ Wait(s, e) \in Code /\ Synchronize(e) \in Code
BY DEF Record, Wait, Synchronize, Code, Instruction

(* What the data may be. *)
LEMMA WordsIn ==
  /\ "Q" \in Words /\ "S" \in Words /\ "T" \in Words /\ "V" \in Words /\ "W" \in Words
  /\ "zero" \in Words /\ "junk" \in Words /\ "Fr" \in Words /\ "Ft" \in Words /\ "Fp" \in Words
  /\ "Vr" \in Words /\ "Vt" \in Words /\ "Vp" \in Words
BY DEF Words

(* The names of arrays are words. *)
LEMMA NamesIn ==
  ASSUME NEW c \in Fields
  PROVE  /\ c \in Words /\ Scalar[c] \in Words /\ Fourier[c] \in Words
         /\ DeviceLayout(c) \in Words
BY DEF Fields, Scalar, Fourier, DeviceLayout, Strided, Words

(* Legendre transforms. *)
LEMMA legendreIn ==
  ASSUME NEW c \in Fields, NEW ql \in Filled, NEW q \in Filled
  PROVE  legendre(c, ql, q) \in Code /\ ilegendre(c, q, ql) \in Code
<1>1. ql \in Regions /\ Kept(q) \in Regions
  BY PartsIn DEF Filled
<1>2. Data(ql, Scalar[c]) \in Datum /\ Data(Kept(q), Fourier[c]) \in Datum
      /\ Data(ql, "zero") \in Datum
  BY <1>1, NamesIn, WordsIn, DatumIn
<1>3. /\ <<Data(ql, Scalar[c])>> \in Datas /\ <<Data(Kept(q), Fourier[c])>> \in Datas
      /\ <<>> \in Datas /\ <<Data(ql, "zero")>> \in Datas
      /\ <<Data(Kept(q), Fourier[c]), Data(ql, "zero")>> \in Datas
  BY <1>2 DEF Datas
<1> QED BY <1>3, LaunchIn, Joined DEF legendre, ilegendre

(* Vector spherical harmonics to and from the fields. *)
LEMMA sphtorIn ==
  ASSUME NEW a \in Filled, NEW b \in Filled, NEW c \in Filled, NEW d \in Filled
  PROVE  sphtor2scal_gpu(a, b, c, d) \in Code /\ scal2sphtor_gpu(a, b, c, d) \in Code
<1>1. \A r \in {a, b, c, d}, v \in Words : Data(r, v) \in Datum
  BY DatumIn DEF Filled
<1>2. /\ <<Data(a, "S"), Data(b, "T")>> \in Datas /\ <<Data(c, "V"), Data(d, "W")>> \in Datas
      /\ <<Data(a, "V"), Data(b, "W")>> \in Datas /\ <<Data(c, "S"), Data(d, "T")>> \in Datas
  BY <1>1, WordsIn DEF Datas
<1> QED BY <1>2, LaunchIn DEF sphtor2scal_gpu, scal2sphtor_gpu

(* Fourier transforms on the device. *)
LEMMA fourierIn ==
  ASSUME cfg \in Config, NEW c \in Fields, NEW q \in Filled
  PROVE  fourier_to_spat_gpu(c, q) \in Code /\ spat_to_fourier_gpu(c, q) \in Code
<1> DEFINE x == Array("xfft")
<1>0. x \in Filled /\ q \in Regions /\ x \in Regions
  BY ArrayIn DEF Filled
<1>1. /\ Kept(q) \in Regions /\ Middle(q) \in Regions /\ Kept(x) \in Regions /\ Middle(x) \in Regions
  BY <1>0, PartsIn
<1> HIDE DEF x
<1>2. \A r \in {q, x, Kept(q), Middle(q), Kept(x), Middle(x)}, v \in Words : Data(r, v) \in Datum
  BY <1>0, <1>1, DatumIn
<1>3. \A d, e \in Datum : <<d>> \in Datas /\ <<d, e>> \in Datas /\ <<>> \in Datas
  BY DEF Datas
<1>4. <<>> \in Code
  BY DEF Code
<1>5. \A r, s, t, u \in {q, x, Kept(q), Middle(q), Kept(x), Middle(x)}, v, w, y, z \in Words :
        /\ Launch(<<Data(r, v)>>, <<Data(s, w)>>) \in Code
        /\ Launch(<<>>, <<Data(s, w)>>) \in Code
        /\ Launch(<<Data(r, v)>>, <<Data(s, w), Data(t, y)>>) \in Code
        /\ Launch(<<Data(r, v), Data(t, y)>>, <<Data(s, w)>>) \in Code
  BY <1>2, <1>3, LaunchIn
<1>6. Fourier[c] \in Words /\ DeviceLayout(c) \in Words /\ "zero" \in Words
  BY NamesIn, WordsIn
<1>7. spat_to_fourier_gpu(c, q) \in Code
  <2>1. CASE Transposed
    BY <2>1, <1>5, <1>6, Joined DEF spat_to_fourier_gpu, x
  <2>2. CASE ~Transposed
    BY <2>2, <1>5, <1>6 DEF spat_to_fourier_gpu
  <2> QED BY <2>1, <2>2
<1>8. fourier_to_spat_gpu(c, q) \in Code
  <2>1. CASE Transposed
    BY <2>1, <1>5, <1>6, Joined DEF fourier_to_spat_gpu, x
  <2>2. CASE ~Transposed
    <3>1. Launch(<<>>, <<Data(Middle(q), "zero")>>) \in Code
      BY <1>2, <1>3, WordsIn, LaunchIn
    <3>2. Launch(<<Data(Kept(q), Fourier[c]), Data(Middle(q), "zero")>>,
                 <<Data(q, DeviceLayout(c))>>) \in Code
      BY <1>5, <1>6
    <3> QED BY <2>2, <3>1, <3>2, <1>4, Joined DEF fourier_to_spat_gpu
  <2> QED BY <2>1, <2>2
<1> QED BY <1>7, <1>8

(* Fourier transforms on the host. *)
LEMMA hostIn ==
  ASSUME NEW c \in Fields, NEW q \in Filled, NEW qf \in Filled
  PROVE  fourier_to_spat_host(c, qf, q) \in Code /\ spat_to_fourier_host(c, q, qf) \in Code
<1>1. q \in Regions /\ qf \in Regions /\ Kept(qf) \in Regions /\ Middle(qf) \in Regions
  BY PartsIn DEF Filled
<1>2. \A r \in {q, qf, Kept(qf), Middle(qf)}, v \in Words : Data(r, v) \in Datum
  BY <1>1, DatumIn
<1>3. \A d, e \in Datum : <<d>> \in Datas /\ <<d, e>> \in Datas
  BY DEF Datas
<1>4. Fourier[c] \in Words /\ c \in Words /\ "zero" \in Words
  BY NamesIn, WordsIn
<1>5. /\ <<Data(Kept(qf), Fourier[c]), Data(Middle(qf), "zero")>> \in Datas
      /\ <<Data(q, c)>> \in Datas /\ <<Data(qf, Fourier[c])>> \in Datas
  BY <1>2, <1>3, <1>4
<1> QED BY <1>5, LaunchIn DEF fourier_to_spat_host, spat_to_fourier_host

(* What is cleared. *)
LEMMA memzeroIn ==
  ASSUME NEW a \in Seq(Filled)
  PROVE  memzero_omp(a) \in Code
<1>1. \A i \in DOMAIN a : Data(Middle(a[i]), "zero") \in Datum
  BY PartsIn, DatumIn, WordsIn
<1>2. [i \in DOMAIN a |-> Data(Middle(a[i]), "zero")] \in Datas
  BY <1>1 DEF Datas
<1>3. <<>> \in Datas
  BY DEF Datas
<1> QED BY <1>2, <1>3, LaunchIn DEF memzero_omp

(* Where the arrays are in the memory of the device. *)
LEMMA PlacesIn ==
  ASSUME cfg \in Config
  PROVE  /\ \A b \in {0, nlm_stride, vw, vw + nlm_stride, vtp, vtp + nlm_stride, vw_last,
                      vw_last + nlm_stride, vtp_first, vtp_first + nlm_stride} :
              Spectrum(b) \in Filled
         /\ \A b \in {nlm_stride, vtp, vtp + spat_stride, Vr_at, vtp_first,
                      vtp_first + spat_stride} :
              Field(b) \in Filled
<1> USE DEF vw, vtp, vw_last, vtp_first, Vr_at
<1>1. \A b \in {0, nlm_stride, vw, vw + nlm_stride, vtp, vtp + nlm_stride, vw_last,
                vw_last + nlm_stride, vtp_first, vtp_first + nlm_stride} :
        b \in Nat /\ b + nlm_stride <= GpuMemSize
  BY Sizes
<1>2. \A b \in {nlm_stride, vtp, vtp + spat_stride, Vr_at, vtp_first, vtp_first + spat_stride} :
        b \in Nat /\ b + FieldSize <= GpuMemSize
  BY Sizes
<1> QED BY <1>1, <1>2, SpectrumIn, FieldIn

(* Scalar transforms of data on the device. *)
LEMMA ScalarIn ==
  ASSUME cfg \in Config, NEW c \in Fields, NEW ql \in Filled, NEW q \in Filled
  PROVE  cuda_SH_to_spat(c, ql, q) \in Code /\ cuda_spat_to_SH(c, q, ql) \in Code
BY legendreIn, fourierIn, Joined DEF cuda_SH_to_spat, cuda_spat_to_SH

(* Two components and three. *)
LEMMA TwoIn ==
  ASSUME cfg \in Config
  PROVE  /\ legendre_2(vw, vtp) \in Code /\ cuda_SH_to_spat_2(vw, vtp) \in Code
         /\ \A qt, qp \in Filled : \A b \in {vw, vw_last} : cuda_spat_to_SH_2(qt, qp, b) \in Code
<1>1. "Vt" \in Fields /\ "Vp" \in Fields
  BY DEF Fields
<1>2. legendre_2(vw, vtp) \in Code
  BY <1>1, PlacesIn, legendreIn, Joined DEF legendre_2
<1>3. cuda_SH_to_spat_2(vw, vtp) \in Code
  BY <1>1, <1>2, PlacesIn, fourierIn, Joined DEF cuda_SH_to_spat_2
<1>4. ASSUME NEW qt \in Filled, NEW qp \in Filled, NEW b \in {vw, vw_last}
      PROVE  cuda_spat_to_SH_2(qt, qp, b) \in Code
  <2>1. Spectrum(b) \in Filled /\ Spectrum(b + nlm_stride) \in Filled
    BY PlacesIn
  <2>2. spat_to_fourier_gpu("Vt", qt) \in Code /\ spat_to_fourier_gpu("Vp", qp) \in Code
    BY <1>1, fourierIn
  <2>3. ilegendre("Vt", qt, Spectrum(b)) \in Code
        /\ ilegendre("Vp", qp, Spectrum(b + nlm_stride)) \in Code
    BY <1>1, <2>1, legendreIn
  <2> QED BY <2>2, <2>3, Joined DEF cuda_spat_to_SH_2
<1> QED BY <1>2, <1>3, <1>4

(* All that is copied from an array and back. *)
LEMMA CopiesIn ==
  ASSUME NEW r \in Filled, NEW q \in Filled, NEW how \in {"sync", "async"}, NEW v \in Words
  PROVE  /\ Upload(how, r, q, v) \in Code /\ Download(how, r, q, v) \in Code
         /\ Upload(how, Kept(r), Kept(q), v) \in Code
         /\ Download(how, Kept(r), Kept(q), v) \in Code
         /\ Download(how, Middle(r), Middle(q), v) \in Code
<1>1. r \in Regions /\ q \in Regions
  BY DEF Filled
<1>2. Kept(r) \in Regions /\ Kept(q) \in Regions /\ Middle(r) \in Regions /\ Middle(q) \in Regions
  BY PartsIn
<1> QED BY <1>1, <1>2, CopyIn

(* The arrays that transforms of host data copy. *)
LEMMA ArraysIn ==
  ASSUME cfg \in Config
  PROVE  /\ \A a \in {"Q", "S", "T", "Vr", "Vt", "Vp", "xfft", "xfft_cpu"} : Array(a) \in Filled
         /\ \A a \in {"Q", "S", "T", "Vr", "Vt", "Vp"} : DeviceArray(a) \in Filled
         /\ VrF \in Filled /\ VtF \in Filled /\ VpF \in Filled /\ ScalarF \in Filled
         /\ "Vr" \in Fields /\ "Vt" \in Fields /\ "Vp" \in Fields
<1>1. /\ \A a \in {"Q", "S", "T", "Vr", "Vt", "Vp", "xfft", "xfft_cpu"} : Array(a) \in Filled
      /\ \A a \in {"Q", "S", "T", "Vr", "Vt", "Vp"} : DeviceArray(a) \in Filled
  BY ArrayIn DEF Spectra, Fields
<1>2. VrF \in Filled /\ VtF \in Filled /\ VpF \in Filled /\ ScalarF \in Filled
  BY <1>1 DEF VrF, VtF, VpF, ScalarF
<1> QED BY <1>1, <1>2 DEF Fields

(* Scalar transforms of host data. *)
LEMMA ScalarProgramsIn ==
  ASSUME cfg \in Config
  PROVE  /\ SH_to_spat_gpu \in Code /\ spat_to_SH_gpu \in Code
         /\ SH_to_spat_gpu_hostfft \in Code /\ spat_to_SH_gpu_hostfft \in Code
<1>1. Spectrum(0) \in Filled /\ Field(nlm_stride) \in Filled
  BY PlacesIn
<1>2. Array("Q") \in Filled /\ Array("Vr") \in Filled /\ ScalarF \in Filled /\ "Vr" \in Fields
  BY ArraysIn
<1>3. SH_to_spat_gpu \in Code
  <2>1. Upload("sync", Array("Q"), Spectrum(0), "Q") \in Code
        /\ Download("sync", Field(nlm_stride), Array("Vr"), "Vr") \in Code
    BY <1>1, <1>2, WordsIn, CopiesIn
  <2> QED BY <1>1, <1>2, <2>1, ScalarIn, Joined DEF SH_to_spat_gpu
<1>4. spat_to_SH_gpu \in Code
  <2>1. Upload("sync", Array("Vr"), Field(nlm_stride), "Vr") \in Code
        /\ Download("sync", Spectrum(0), Array("Q"), "Q") \in Code
    BY <1>1, <1>2, WordsIn, CopiesIn
  <2> QED BY <1>1, <1>2, <2>1, ScalarIn, Joined DEF spat_to_SH_gpu
<1>5. memzero_omp(<<ScalarF>>) \in Code
  <2>1. <<ScalarF>> \in Seq(Filled)
    BY <1>2
  <2> QED BY <2>1, memzeroIn
<1>6. SH_to_spat_gpu_hostfft \in Code
  <2>1. Upload("sync", Array("Q"), Spectrum(0), "Q") \in Code
        /\ Download("sync", Middle(Field(nlm_stride)), Middle(ScalarF), "zero") \in Code
        /\ Download("sync", Kept(Field(nlm_stride)), Kept(ScalarF), "Fr") \in Code
    BY <1>1, <1>2, WordsIn, CopiesIn
  <2>2. legendre("Vr", Spectrum(0), Field(nlm_stride)) \in Code
    BY <1>1, <1>2, legendreIn
  <2>3. fourier_to_spat_host("Vr", ScalarF, Array("Vr")) \in Code
    BY <1>2, hostIn
  <2> QED BY <1>5, <2>1, <2>2, <2>3, Joined DEF SH_to_spat_gpu_hostfft
<1>7. spat_to_SH_gpu_hostfft \in Code
  <2>1. Upload("sync", ScalarF, Field(nlm_stride), "Fr") \in Code
        /\ Upload("sync", Kept(ScalarF), Kept(Field(nlm_stride)), "Fr") \in Code
        /\ Download("sync", Spectrum(0), Array("Q"), "Q") \in Code
    BY <1>1, <1>2, WordsIn, CopiesIn
  <2>2. ilegendre("Vr", Field(nlm_stride), Spectrum(0)) \in Code
    BY <1>1, <1>2, legendreIn
  <2>3. spat_to_fourier_host("Vr", Array("Vr"), ScalarF) \in Code
    BY <1>2, hostIn
  <2> QED BY <2>1, <2>2, <2>3, Joined DEF spat_to_SH_gpu_hostfft
<1> QED BY <1>3, <1>4, <1>6, <1>7

(* Events and waits. *)
LEMMA EventsIn ==
  /\ \A e \in {"up", "up2", "sht", "sht0", "sht2"} : \A q \in {"comp", "xfer"} :
       Record(e, q) \in Code /\ Wait(q, e) \in Code
  /\ \A e \in {"up", "up2", "sht", "sht0", "sht2"} : Synchronize(e) \in Code
BY EventIn DEF Events, Streams

(* What the vector transforms are made of. *)
LEMMA PiecesIn ==
  ASSUME cfg \in Config
  PROVE  /\ UploadST("sync") \in Code /\ UploadST("async") \in Code /\ ScalarsOfST \in Code
         /\ DownloadFt \in Code /\ DownloadFp \in Code /\ TailFft \in Code
         /\ UploadBehind \in Code /\ RadialFirst \in Code /\ DownloadFr \in Code
         /\ RadialFft \in Code
         /\ memzero_omp(<<Array("Vt"), Array("Vp")>>) \in Code
<1>1. /\ Spectrum(vw) \in Filled /\ Spectrum(vw + nlm_stride) \in Filled
      /\ Spectrum(vtp) \in Filled /\ Spectrum(vtp + nlm_stride) \in Filled
      /\ Field(vtp) \in Filled /\ Field(vtp + spat_stride) \in Filled /\ Field(Vr_at) \in Filled
  BY PlacesIn
<1>2. /\ Array("Q") \in Filled /\ Array("S") \in Filled /\ Array("T") \in Filled
      /\ Array("Vr") \in Filled /\ Array("Vt") \in Filled /\ Array("Vp") \in Filled
      /\ VrF \in Filled /\ VtF \in Filled /\ VpF \in Filled
      /\ "Vr" \in Fields /\ "Vt" \in Fields /\ "Vp" \in Fields
  BY ArraysIn
<1>3. \A how \in {"sync", "async"} : UploadST(how) \in Code
  BY <1>1, <1>2, WordsIn, CopiesIn, Joined DEF UploadST
<1>4. ScalarsOfST \in Code
  BY <1>1, sphtorIn DEF ScalarsOfST
<1>5. DownloadFt \in Code /\ DownloadFp \in Code
  BY <1>1, <1>2, WordsIn, CopiesIn DEF DownloadFt, DownloadFp
<1>6. \A a, b, c \in Filled : memzero_omp(<<a, b>>) \in Code /\ memzero_omp(<<a, b, c>>) \in Code
  <2> TAKE a, b, c \in Filled
  <2>1. <<a, b>> \in Seq(Filled) /\ <<a, b, c>> \in Seq(Filled)
    OBVIOUS
  <2> QED BY <2>1, memzeroIn
<1>7. TailFft \in Code
  <2>1. fourier_to_spat_host("Vt", VtF, Array("Vt")) \in Code
        /\ fourier_to_spat_host("Vp", VpF, Array("Vp")) \in Code
    BY <1>2, hostIn
  <2> QED BY <2>1, EventsIn, Joined DEF TailFft
<1>8. UploadBehind \in Code
  BY <1>3, EventsIn, Joined DEF UploadBehind
<1>9. RadialFirst \in Code
  <2>1. Upload("sync", Array("Q"), Spectrum(vw), "Q") \in Code
    BY <1>1, <1>2, WordsIn, CopiesIn
  <2>2. legendre("Vr", Spectrum(vw), Field(Vr_at)) \in Code
    BY <1>1, <1>2, legendreIn
  <2> QED BY <2>1, <2>2, <1>4, <1>8, Joined DEF RadialFirst
<1>10. DownloadFr \in Code
  <2>1. Download("async", Kept(Field(Vr_at)), Kept(VrF), "Fr") \in Code
    BY <1>1, <1>2, WordsIn, CopiesIn
  <2> QED BY <2>1, EventsIn, Joined DEF DownloadFr
<1>11. RadialFft \in Code
  <2>1. fourier_to_spat_host("Vr", VrF, Array("Vr")) \in Code
    BY <1>2, hostIn
  <2> QED BY <2>1, <1>2, <1>6, EventsIn, Joined DEF RadialFft
<1> QED BY <1>2, <1>3, <1>4, <1>5, <1>6, <1>7, <1>8, <1>9, <1>10, <1>11

(* Synthesis of vectors with two components. *)
LEMMA VectorSynthesisIn ==
  ASSUME cfg \in Config
  PROVE  /\ SHsphtor_to_spat_gpu \in Code /\ SHsphtor_to_spat_gpu2 \in Code
         /\ SHsphtor_to_spat_gpu_hostfft \in Code /\ SHsphtor_to_spat_gpu2_hostfft \in Code
<1>1. /\ Spectrum(vw) \in Filled /\ Spectrum(vw + nlm_stride) \in Filled
      /\ Field(vtp) \in Filled /\ Field(vtp + spat_stride) \in Filled
  BY PlacesIn
<1>2. Array("Vt") \in Filled /\ Array("Vp") \in Filled /\ "Vt" \in Fields /\ "Vp" \in Fields
  BY ArraysIn
<1>3. /\ UploadST("sync") \in Code /\ ScalarsOfST \in Code /\ DownloadFt \in Code
      /\ DownloadFp \in Code /\ TailFft \in Code /\ memzero_omp(<<Array("Vt"), Array("Vp")>>) \in Code
  BY PiecesIn
<1>4. \A how \in {"sync", "async"} :
        /\ Download(how, Field(vtp), Array("Vt"), "Vt") \in Code
        /\ Download(how, Field(vtp + spat_stride), Array("Vp"), "Vp") \in Code
  BY <1>1, <1>2, WordsIn, CopiesIn
<1>5. /\ cuda_SH_to_spat("Vt", Spectrum(vw), Field(vtp)) \in Code
      /\ cuda_SH_to_spat("Vp", Spectrum(vw + nlm_stride), Field(vtp + spat_stride)) \in Code
  BY <1>1, <1>2, ScalarIn
<1>6. /\ legendre("Vt", Spectrum(vw), Field(vtp)) \in Code
      /\ legendre("Vp", Spectrum(vw + nlm_stride), Field(vtp + spat_stride)) \in Code
  BY <1>1, <1>2, legendreIn
<1>7. SHsphtor_to_spat_gpu \in Code
  BY <1>3, <1>4, <1>5, EventsIn, Joined DEF SHsphtor_to_spat_gpu
<1>8. SHsphtor_to_spat_gpu2 \in Code
  BY <1>3, <1>4, TwoIn, Joined DEF SHsphtor_to_spat_gpu2
<1>9. SHsphtor_to_spat_gpu_hostfft \in Code
  BY <1>3, <1>6, EventsIn, Joined DEF SHsphtor_to_spat_gpu_hostfft
<1>10. SHsphtor_to_spat_gpu2_hostfft \in Code
  BY <1>3, TwoIn, EventsIn, Joined DEF SHsphtor_to_spat_gpu2_hostfft
<1> QED BY <1>7, <1>8, <1>9, <1>10

(* Synthesis of vectors with three components. *)
LEMMA ThreeSynthesisIn ==
  ASSUME cfg \in Config
  PROVE  /\ SHqst_to_spat_gpu \in Code /\ SHqst_to_spat_gpu2 \in Code
         /\ SHqst_to_spat_gpu_hostfft \in Code /\ SHqst_to_spat_gpu2_hostfft \in Code
<1>1. /\ Spectrum(vw) \in Filled /\ Spectrum(vw + nlm_stride) \in Filled /\ Field(Vr_at) \in Filled
      /\ Field(vtp) \in Filled /\ Field(vtp + spat_stride) \in Filled
  BY PlacesIn
<1>2. /\ Array("Vt") \in Filled /\ Array("Vp") \in Filled /\ "Vt" \in Fields /\ "Vp" \in Fields
      /\ Array("Q") \in Filled /\ Array("Vr") \in Filled /\ "Vr" \in Fields
  BY ArraysIn
<1>3. /\ UploadBehind \in Code /\ ScalarsOfST \in Code /\ DownloadFt \in Code
      /\ DownloadFp \in Code /\ TailFft \in Code /\ RadialFirst \in Code /\ DownloadFr \in Code
      /\ RadialFft \in Code
  BY PiecesIn
<1>4. \A how \in {"sync", "async"} :
        /\ Download(how, Field(vtp), Array("Vt"), "Vt") \in Code
        /\ Download(how, Field(vtp + spat_stride), Array("Vp"), "Vp") \in Code
        /\ Download(how, Field(Vr_at), Array("Vr"), "Vr") \in Code
        /\ Upload(how, Array("Q"), Spectrum(vw), "Q") \in Code
  BY <1>1, <1>2, WordsIn, CopiesIn
<1>5. /\ cuda_SH_to_spat("Vt", Spectrum(vw), Field(vtp)) \in Code
      /\ cuda_SH_to_spat("Vp", Spectrum(vw + nlm_stride), Field(vtp + spat_stride)) \in Code
      /\ cuda_SH_to_spat("Vr", Spectrum(vw), Field(Vr_at)) \in Code
  BY <1>1, <1>2, ScalarIn
<1>6. /\ legendre("Vt", Spectrum(vw), Field(vtp)) \in Code
      /\ legendre("Vp", Spectrum(vw + nlm_stride), Field(vtp + spat_stride)) \in Code
  BY <1>1, <1>2, legendreIn
<1>7. SHqst_to_spat_gpu \in Code
  BY <1>3, <1>4, <1>5, EventsIn, Joined DEF SHqst_to_spat_gpu
<1>8. SHqst_to_spat_gpu2 \in Code
  BY <1>3, <1>4, <1>5, TwoIn, EventsIn, Joined DEF SHqst_to_spat_gpu2
<1>9. SHqst_to_spat_gpu_hostfft \in Code
  BY <1>3, <1>6, EventsIn, Joined DEF SHqst_to_spat_gpu_hostfft
<1>10. SHqst_to_spat_gpu2_hostfft \in Code
  BY <1>3, TwoIn, EventsIn, Joined DEF SHqst_to_spat_gpu2_hostfft
<1> QED BY <1>7, <1>8, <1>9, <1>10

(* Pieces of the analysis of vectors. *)
LEMMA AnalysisPiecesIn ==
  ASSUME cfg \in Config
  PROVE  /\ ThetaThenPhi(vtp, vw) \in Code /\ ThetaThenPhi(vtp_first, vw_last) \in Code
         /\ ThetaAndPhi(vtp, vw) \in Code /\ ThetaAndPhi(vtp_first, vw_last) \in Code
         /\ DownloadST("sync", vtp_first) \in Code /\ ThenRadial \in Code
<1>1. \A b \in {vw, vw_last, vtp, vtp_first} :
        Spectrum(b) \in Filled /\ Spectrum(b + nlm_stride) \in Filled
  BY PlacesIn
<1>2. \A b \in {vtp, vtp_first} : Field(b) \in Filled /\ Field(b + spat_stride) \in Filled
  BY PlacesIn
<1>3. /\ Array("Q") \in Filled /\ Array("S") \in Filled /\ Array("T") \in Filled
      /\ Array("Vr") \in Filled /\ Array("Vt") \in Filled /\ Array("Vp") \in Filled
      /\ "Vr" \in Fields /\ "Vt" \in Fields /\ "Vp" \in Fields
  BY ArraysIn
<1>4. \A b \in {vtp, vtp_first} : \A how \in {"sync", "async"} :
        /\ Upload(how, Array("Vt"), Field(b), "Vt") \in Code
        /\ Upload(how, Array("Vp"), Field(b + spat_stride), "Vp") \in Code
  BY <1>2, <1>3, WordsIn, CopiesIn
<1>5. \A s \in {vw, vw_last}, b \in {vtp, vtp_first} : CoefficientsST(s, b) \in Code
  BY <1>1, sphtorIn DEF CoefficientsST
<1>6. \A how \in {"sync", "async"}, b \in {vtp, vtp_first} : DownloadST(how, b) \in Code
  BY <1>1, <1>3, WordsIn, CopiesIn, Joined DEF DownloadST
<1>7. \A b \in {vtp, vtp_first}, s \in {vw, vw_last} : ThetaThenPhi(b, s) \in Code
  <2> TAKE b \in {vtp, vtp_first}, s \in {vw, vw_last}
  <2>1. cuda_spat_to_SH("Vt", Field(b), Spectrum(s)) \in Code
        /\ cuda_spat_to_SH("Vp", Field(b + spat_stride), Spectrum(s + nlm_stride)) \in Code
    BY <1>1, <1>2, <1>3, ScalarIn
  <2> QED BY <2>1, <1>4, <1>5, EventsIn, Joined DEF ThetaThenPhi
<1>8. \A b \in {vtp, vtp_first}, s \in {vw, vw_last} : ThetaAndPhi(b, s) \in Code
  <2> TAKE b \in {vtp, vtp_first}, s \in {vw, vw_last}
  <2>1. cuda_spat_to_SH_2(Field(b), Field(b + spat_stride), s) \in Code
    BY <1>2, TwoIn
  <2> QED BY <2>1, <1>4, <1>5, Joined DEF ThetaAndPhi
<1>9. ThenRadial \in Code
  <2>1. Field(Vr_at) \in Filled
    BY PlacesIn
  <2>2. /\ Upload("async", Array("Vr"), Field(Vr_at), "Vr") \in Code
        /\ Download("sync", Spectrum(vw), Array("Q"), "Q") \in Code
    BY <1>1, <1>3, <2>1, WordsIn, CopiesIn
  <2>3. cuda_spat_to_SH("Vr", Field(Vr_at), Spectrum(vw)) \in Code
    BY <1>1, <1>3, <2>1, ScalarIn
  <2> QED BY <2>2, <2>3, <1>6, EventsIn, Joined DEF ThenRadial
<1> QED BY <1>6, <1>7, <1>8, <1>9

(* Analysis of vectors. *)
LEMMA AnalysisIn ==
  ASSUME cfg \in Config
  PROVE  /\ spat_to_SHsphtor_gpu \in Code /\ spat_to_SHsphtor_gpu2 \in Code
         /\ spat_to_SHqst_gpu \in Code /\ spat_to_SHqst_gpu2 \in Code
BY AnalysisPiecesIn, Joined
   DEF spat_to_SHsphtor_gpu, spat_to_SHsphtor_gpu2, spat_to_SHqst_gpu, spat_to_SHqst_gpu2

(* Transforms of data on the device. *)
LEMMA DeviceProgramsIn ==
  ASSUME cfg \in Config
  PROVE  /\ cu_SH_to_spat \in Code /\ cu_spat_to_SH \in Code
         /\ cu_spat_to_SHsphtor \in Code /\ cu_spat_to_SHqst \in Code
<1>1. /\ \A a \in {"Q", "S", "T", "Vr", "Vt", "Vp"} : DeviceArray(a) \in Filled
      /\ "Vr" \in Fields /\ "Vt" \in Fields /\ "Vp" \in Fields
      /\ Spectrum(vw) \in Filled /\ Spectrum(vw + nlm_stride) \in Filled
  BY ArraysIn, PlacesIn
<1>2. \A a \in {"Q", "Vr", "Vt", "Vp"} : DeviceLayout(a) \in Words
  BY NamesIn, WordsIn DEF DeviceLayout, Fields
<1>3. \A a \in {"Q", "Vr", "Vt", "Vp"} : Data(DeviceArray(a), DeviceLayout(a)) \in Datum
  BY <1>1, <1>2, DatumIn DEF Filled
<1>4. \A n \in Nat : \A a \in [1..n -> {"Q", "Vr", "Vt", "Vp"}] : Given(a) \in Code
  <2> TAKE n \in Nat
  <2> TAKE a \in [1..n -> {"Q", "Vr", "Vt", "Vp"}]
  <2>1. [i \in DOMAIN a |-> Data(DeviceArray(a[i]), DeviceLayout(a[i]))] \in Datas
    BY <1>3 DEF Datas
  <2>2. <<>> \in Datas
    BY DEF Datas
  <2> QED BY <2>1, <2>2, LaunchIn DEF Given
<1>5. /\ Given(<<"Q">>) \in Code /\ Given(<<"Vr">>) \in Code /\ Given(<<"Vt", "Vp">>) \in Code
      /\ Given(<<"Vr", "Vt", "Vp">>) \in Code
  <2>1. <<"Q">> \in [1..1 -> {"Q", "Vr", "Vt", "Vp"}] /\ <<"Vr">> \in [1..1 -> {"Q", "Vr", "Vt", "Vp"}]
        /\ <<"Vt", "Vp">> \in [1..2 -> {"Q", "Vr", "Vt", "Vp"}]
        /\ <<"Vr", "Vt", "Vp">> \in [1..3 -> {"Q", "Vr", "Vt", "Vp"}]
    OBVIOUS
  <2> QED BY <2>1, <1>4
<1>6. AnalyseScalar \in Code
  BY <1>1, ScalarIn DEF AnalyseScalar
<1>7. AnalyseVector \in Code
  <2>1. cuda_spat_to_SH_2(DeviceArray("Vt"), DeviceArray("Vp"), vw) \in Code
    BY <1>1, TwoIn
  <2> QED BY <1>1, <2>1, sphtorIn, Joined DEF AnalyseVector
<1>8. cuda_SH_to_spat("Vr", DeviceArray("Q"), DeviceArray("Vr")) \in Code
  BY <1>1, ScalarIn
<1> QED BY <1>5, <1>6, <1>7, <1>8, Joined
        DEF cu_SH_to_spat, cu_spat_to_SH, cu_spat_to_SHsphtor, cu_spat_to_SHqst

(* Every program is made of instructions on the memory there is. *)
LEMMA ProgramsIn ==
  ASSUME cfg \in Config, NEW name \in TransformNames
  PROVE  Transform(name).program \in Code
<1> USE DEF Transform, T
<1> QED BY ScalarProgramsIn, VectorSynthesisIn, ThreeSynthesisIn, AnalysisIn, DeviceProgramsIn
        DEF TransformNames, DeviceTransforms

-----------------------------------------------------------------------------
(* The programs depend on the configuration only. *)

(* The sizes. *)
LEMMA SameSizes ==
  ASSUME cfg' = cfg
  PROVE  nlm_stride' = nlm_stride /\ FieldSize' = FieldSize /\ spat_stride' = spat_stride
         /\ GpuMemSize' = GpuMemSize /\ (OutOfPlace <=> OutOfPlace') /\ (Transposed <=> Transposed')
         /\ vtp' = vtp /\ Vr_at' = Vr_at /\ vw_last' = vw_last /\ (TwoParts <=> TwoParts')
BY DEF nlm_stride, FieldSize, spat_stride, GpuMemSize, OutOfPlace, Transposed, vtp, Vr_at, vw_last, TwoParts

(* The places. *)
LEMMA SamePlaces ==
  ASSUME cfg' = cfg
  PROVE  /\ \A b : Spectrum(b)' = Spectrum(b) /\ Field(b)' = Field(b)
         /\ \A a : Array(a)' = Array(a) /\ DeviceArray(a)' = DeviceArray(a) /\ DeviceLayout(a)' = DeviceLayout(a)
         /\ VrF' = VrF /\ VtF' = VtF /\ VpF' = VpF /\ ScalarF' = ScalarF
<1>1. \A b : Spectrum(b)' = Spectrum(b) /\ Field(b)' = Field(b)
  BY SameSizes DEF Spectrum, Field
<1>2. \A a : Array(a)' = Array(a) /\ DeviceArray(a)' = DeviceArray(a)
  BY SameSizes DEF Array, DeviceArray
<1>3. \A a : DeviceLayout(a)' = DeviceLayout(a)
  BY SameSizes DEF DeviceLayout
<1> QED BY <1>1, <1>2, <1>3, SameSizes DEF VrF, VtF, VpF, ScalarF

(* The pieces. *)
LEMMA SamePieces ==
  ASSUME cfg' = cfg
  PROVE  /\ \A c, q : fourier_to_spat_gpu(c, q)' = fourier_to_spat_gpu(c, q)
         /\ \A c, q : spat_to_fourier_gpu(c, q)' = spat_to_fourier_gpu(c, q)
         /\ \A c, q, ql : cuda_SH_to_spat(c, ql, q)' = cuda_SH_to_spat(c, ql, q)
         /\ \A c, q, ql : cuda_spat_to_SH(c, q, ql)' = cuda_spat_to_SH(c, q, ql)
<1>1. \A c, q : fourier_to_spat_gpu(c, q)' = fourier_to_spat_gpu(c, q)
  BY SameSizes, SamePlaces DEF fourier_to_spat_gpu
<1>2. \A c, q : spat_to_fourier_gpu(c, q)' = spat_to_fourier_gpu(c, q)
  BY SameSizes, SamePlaces DEF spat_to_fourier_gpu
<1> QED BY <1>1, <1>2 DEF cuda_SH_to_spat, cuda_spat_to_SH

(* Parts of the transforms of host data. *)
LEMMA SameParts ==
  ASSUME cfg' = cfg
  PROVE  /\ \A how : UploadST(how)' = UploadST(how)
         /\ ScalarsOfST' = ScalarsOfST /\ DownloadFt' = DownloadFt /\ DownloadFp' = DownloadFp
         /\ TailFft' = TailFft /\ UploadBehind' = UploadBehind /\ RadialFirst' = RadialFirst
         /\ DownloadFr' = DownloadFr /\ RadialFft' = RadialFft
         /\ legendre_2(vw, vtp)' = legendre_2(vw, vtp)
         /\ cuda_SH_to_spat_2(vw, vtp)' = cuda_SH_to_spat_2(vw, vtp)
<1> USE SameSizes, SamePlaces, SamePieces DEF Spectrum, Field, Array, vw
<1>1. /\ \A how : UploadST(how)' = UploadST(how)
      /\ ScalarsOfST' = ScalarsOfST /\ DownloadFt' = DownloadFt /\ DownloadFp' = DownloadFp
  BY DEF UploadST, ScalarsOfST, DownloadFt, DownloadFp
<1>2. TailFft' = TailFft /\ DownloadFr' = DownloadFr /\ RadialFft' = RadialFft
  BY DEF TailFft, DownloadFr, RadialFft
<1>3. UploadBehind' = UploadBehind
  BY <1>1 DEF UploadBehind
<1>4. RadialFirst' = RadialFirst
  BY <1>1, <1>3 DEF RadialFirst
<1>5. legendre_2(vw, vtp)' = legendre_2(vw, vtp)
  BY DEF legendre_2
<1>6. cuda_SH_to_spat_2(vw, vtp)' = cuda_SH_to_spat_2(vw, vtp)
  BY <1>5 DEF cuda_SH_to_spat_2, legendre_2
<1> QED BY <1>1, <1>2, <1>3, <1>4, <1>5, <1>6

(* Synthesis. *)
LEMMA SameSynthesis ==
  ASSUME cfg' = cfg
  PROVE  /\ SH_to_spat_gpu' = SH_to_spat_gpu /\ SH_to_spat_gpu_hostfft' = SH_to_spat_gpu_hostfft
         /\ SHsphtor_to_spat_gpu' = SHsphtor_to_spat_gpu
         /\ SHsphtor_to_spat_gpu2' = SHsphtor_to_spat_gpu2
         /\ SHsphtor_to_spat_gpu_hostfft' = SHsphtor_to_spat_gpu_hostfft
         /\ SHsphtor_to_spat_gpu2_hostfft' = SHsphtor_to_spat_gpu2_hostfft
         /\ SHqst_to_spat_gpu' = SHqst_to_spat_gpu
         /\ SHqst_to_spat_gpu2' = SHqst_to_spat_gpu2
         /\ SHqst_to_spat_gpu_hostfft' = SHqst_to_spat_gpu_hostfft
         /\ SHqst_to_spat_gpu2_hostfft' = SHqst_to_spat_gpu2_hostfft
<1> USE SameSizes, SamePlaces, SamePieces, SameParts DEF Spectrum, Field, Array, vw
<1>1. SH_to_spat_gpu' = SH_to_spat_gpu
  BY DEF SH_to_spat_gpu
<1>2. SH_to_spat_gpu_hostfft' = SH_to_spat_gpu_hostfft
  BY DEF SH_to_spat_gpu_hostfft
<1>3. SHsphtor_to_spat_gpu' = SHsphtor_to_spat_gpu /\ SHsphtor_to_spat_gpu2' = SHsphtor_to_spat_gpu2
  BY DEF SHsphtor_to_spat_gpu, SHsphtor_to_spat_gpu2
<1>4. SHsphtor_to_spat_gpu_hostfft' = SHsphtor_to_spat_gpu_hostfft
  BY DEF SHsphtor_to_spat_gpu_hostfft
<1>5. SHsphtor_to_spat_gpu2_hostfft' = SHsphtor_to_spat_gpu2_hostfft
  BY DEF SHsphtor_to_spat_gpu2_hostfft
<1>6. SHqst_to_spat_gpu' = SHqst_to_spat_gpu /\ SHqst_to_spat_gpu2' = SHqst_to_spat_gpu2
  BY DEF SHqst_to_spat_gpu, SHqst_to_spat_gpu2
<1>7. SHqst_to_spat_gpu_hostfft' = SHqst_to_spat_gpu_hostfft
  BY DEF SHqst_to_spat_gpu_hostfft
<1>8. SHqst_to_spat_gpu2_hostfft' = SHqst_to_spat_gpu2_hostfft
  BY DEF SHqst_to_spat_gpu2_hostfft
<1> QED BY <1>1, <1>2, <1>3, <1>4, <1>5, <1>6, <1>7, <1>8

(* Analysis. *)
LEMMA SameAnalysis ==
  ASSUME cfg' = cfg
  PROVE  /\ spat_to_SH_gpu' = spat_to_SH_gpu /\ spat_to_SH_gpu_hostfft' = spat_to_SH_gpu_hostfft
         /\ spat_to_SHsphtor_gpu' = spat_to_SHsphtor_gpu
         /\ spat_to_SHsphtor_gpu2' = spat_to_SHsphtor_gpu2
         /\ spat_to_SHqst_gpu' = spat_to_SHqst_gpu
         /\ spat_to_SHqst_gpu2' = spat_to_SHqst_gpu2
<1> USE SameSizes, SamePlaces, SamePieces DEF Spectrum, Field, Array, vw, vtp_first
<1>1. spat_to_SH_gpu' = spat_to_SH_gpu
  BY DEF spat_to_SH_gpu
<1>2. spat_to_SH_gpu_hostfft' = spat_to_SH_gpu_hostfft
  BY DEF spat_to_SH_gpu_hostfft
<1>3. \A s, b : CoefficientsST(s, b)' = CoefficientsST(s, b)
  BY DEF CoefficientsST
<1>4. \A how, b : DownloadST(how, b)' = DownloadST(how, b)
  BY DEF DownloadST
<1>5. \A qt, qp, ql : cuda_spat_to_SH_2(qt, qp, ql)' = cuda_spat_to_SH_2(qt, qp, ql)
  BY DEF cuda_spat_to_SH_2
<1>6. \A f, s : ThetaThenPhi(f, s)' = ThetaThenPhi(f, s)
  BY <1>3 DEF ThetaThenPhi
<1>7. \A f, s : ThetaAndPhi(f, s)' = ThetaAndPhi(f, s)
  BY <1>3, <1>5 DEF ThetaAndPhi
<1>8. ThenRadial' = ThenRadial
  BY <1>4 DEF ThenRadial
<1>9. spat_to_SHsphtor_gpu' = spat_to_SHsphtor_gpu /\ spat_to_SHsphtor_gpu2' = spat_to_SHsphtor_gpu2
  BY <1>4, <1>6, <1>7 DEF spat_to_SHsphtor_gpu, spat_to_SHsphtor_gpu2
<1>10. spat_to_SHqst_gpu' = spat_to_SHqst_gpu /\ spat_to_SHqst_gpu2' = spat_to_SHqst_gpu2
  BY <1>6, <1>7, <1>8 DEF spat_to_SHqst_gpu, spat_to_SHqst_gpu2
<1> QED BY <1>1, <1>2, <1>9, <1>10

(* Transforms of data on the device. *)
LEMMA SameOnDevice ==
  ASSUME cfg' = cfg
  PROVE  /\ cu_SH_to_spat' = cu_SH_to_spat /\ cu_spat_to_SH' = cu_spat_to_SH
         /\ cu_spat_to_SHsphtor' = cu_spat_to_SHsphtor /\ cu_spat_to_SHqst' = cu_spat_to_SHqst
<1> USE SameSizes, SamePlaces, SamePieces DEF Spectrum, vw
<1>1. \A a : Given(a)' = Given(a)
  <2> TAKE a
  <2>1. [i \in DOMAIN a |-> Data(DeviceArray(a[i]), DeviceLayout(a[i]))]'
        = [i \in DOMAIN a |-> Data(DeviceArray(a[i]), DeviceLayout(a[i]))]
    OBVIOUS
  <2> QED BY <2>1 DEF Given
<1>2. AnalyseScalar' = AnalyseScalar
  BY DEF AnalyseScalar, DeviceArray
<1>3. \A qt, qp, ql : cuda_spat_to_SH_2(qt, qp, ql)' = cuda_spat_to_SH_2(qt, qp, ql)
  BY DEF cuda_spat_to_SH_2
<1>4. AnalyseVector' = AnalyseVector
  BY <1>3 DEF AnalyseVector, DeviceArray
<1>5. cu_SH_to_spat' = cu_SH_to_spat
  BY <1>1 DEF cu_SH_to_spat, DeviceArray
<1> QED BY <1>1, <1>2, <1>4, <1>5 DEF cu_spat_to_SH, cu_spat_to_SHsphtor, cu_spat_to_SHqst

(* The programs only depend on the configuration. *)
LEMMA SamePrograms ==
  ASSUME cfg' = cfg
  PROVE  \A n \in TransformNames : Transform(n)' = Transform(n)
<1> USE DEF Transform, T
<1> QED BY SameSynthesis, SameAnalysis, SameOnDevice DEF TransformNames, DeviceTransforms

-----------------------------------------------------------------------------
(* The types. *)

(* Operations in a queue, with their identifiers. *)
Ids == Nat \X Nat
Operations == [id : Ids, in : Datas, out : Datas, after : Ids \cup {<<>>}]

(* The types; the memory is TypeOK's, and the program that is left is     *)
(* made of instructions.                                                  *)
TInv ==
  /\ cfg \in Configs
  /\ call \in {Idle, Failed} \/ call \in Call
  /\ number \in 0..MaxCalls
  /\ todo \in Code
  /\ event \in [Events -> Ids \cup {<<>>}]
  /\ queue \in [Streams -> Seq(Operations)]
  /\ DOMAIN mem = AllCells

(* The fields of an instruction. *)
LEMMA InstructionFields ==
  ASSUME NEW x \in Instruction
  PROVE  /\ x.kind \in {"launch", "host", "copy", "record", "wait", "synchronize"}
         /\ x.kind \in {"launch", "host", "copy"} => x.in \in Datas /\ x.out \in Datas
         /\ x.kind = "copy" => x.how \in {"sync", "async"}
         /\ x.kind \in {"record", "wait"} => x.stream \in Streams
         /\ x.kind \in {"record", "wait", "synchronize"} => x.event \in Events
BY DEF Instruction

(* The next instruction. *)
LEMMA HeadIn ==
  ASSUME todo \in Code, todo # <<>>
  PROVE  Head(todo) \in Instruction /\ Tail(todo) \in Code /\ Len(todo) \in Nat
BY DEF Code

(* Data touch cells that exist. *)
LEMMA TouchedIn ==
  ASSUME NEW data, \A j \in DOMAIN data : data[j].at \in Regions
  PROVE  Touched(data) \subseteq AllCells
<1> SUFFICES ASSUME NEW j \in DOMAIN data PROVE CellsOf(data[j].at) \subseteq AllCells
  BY DEF Touched
<1> QED BY DEF Regions, CellsOf

(* The parts of data. *)
LEMMA DatasParts ==
  ASSUME NEW data \in Datas, NEW j \in DOMAIN data
  PROVE  data[j] \in Datum /\ data[j].at \in Regions
<1>1. data[j] \in Datum
  BY DEF Datas
<1> QED BY <1>1 DEF Datum

(* Data of a program touch cells that exist. *)
LEMMA DatasTouched ==
  ASSUME NEW data \in Datas
  PROVE  Touched(data) \subseteq AllCells
<1>1. \A j \in DOMAIN data : data[j].at \in Regions
  BY DatasParts
<1> QED BY <1>1, TouchedIn

(* What an instruction yields, be it junk, is data. *)
LEMMA OutcomeIn ==
  ASSUME NEW in, NEW out \in Datas, NEW n
  PROVE  Outcome(in, out, n) \in Datas
<1>1. \A j \in DOMAIN out : Data(out[j].at, "junk") \in Datum
  BY WordsIn, DatasParts, DatumIn
<1>2. [j \in DOMAIN out |-> Data(out[j].at, "junk")] \in Datas
  BY <1>1 DEF Datas
<1> QED BY <1>2 DEF Outcome

(* Stores keep the cells. *)
LEMMA StoreIn ==
  ASSUME DOMAIN mem = AllCells, NEW data, NEW n, Touched(data) \subseteq AllCells, Store(data, n)
  PROVE  DOMAIN mem' = AllCells
BY DEF Store

(* An instruction that is performed keeps the cells. *)
LEMMA PerformIn ==
  ASSUME DOMAIN mem = AllCells, NEW in, NEW out \in Datas, NEW n, Perform(in, out, n)
  PROVE  DOMAIN mem' = AllCells
BY OutcomeIn, DatasTouched, StoreIn DEF Perform

(* A step that changes nothing. *)
LEMMA SameTypes ==
  ASSUME cfg' = cfg
  PROVE  /\ AllCells' = AllCells /\ Datas' = Datas /\ Code' = Code
         /\ Operations' = Operations
<1>1. AllCells' = AllCells
  <2>1. \A a : CellsOf(Array(a))' = CellsOf(Array(a)) /\ CellsOf(DeviceArray(a))' = CellsOf(DeviceArray(a))
    BY SamePlaces
  <2>2. {CellsOf(Array(a)) \cup CellsOf(DeviceArray(a)) : a \in Spectra \cup Fields}'
        = {CellsOf(Array(a)) \cup CellsOf(DeviceArray(a)) : a \in Spectra \cup Fields}
    BY <2>1
  <2> QED BY <2>2, SamePlaces, SameSizes DEF AllCells, Array
<1>2. Regions' = Regions
  BY <1>1 DEF Regions
<1>3. Datas' = Datas
  BY <1>2 DEF Datas, Datum
<1>4. Instruction' = Instruction
  BY <1>3 DEF Instruction
<1> QED BY <1>1, <1>3, <1>4 DEF Code, Operations

(* The configuration and its calls. *)
LEMMA CfgIn ==
  ASSUME cfg \in Configs
  PROVE  cfg \in Config /\ Calls(cfg) \subseteq Call
BY GpuAssumption

(* The types at first. *)
LEMMA TInitial == Init => TInv
<1> SUFFICES ASSUME Init PROVE TInv
  OBVIOUS
<1>1. 0 \in 0..MaxCalls
  BY GpuAssumption
<1>2. <<>> \in Code /\ <<>> \in Seq(Operations)
  BY DEF Code
<1> QED BY <1>1, <1>2 DEF Init, TInv

(* An operation at the end of a queue. *)
LEMMA EnqueueIn ==
  ASSUME TInv, NEW s \in Streams, NEW op \in Operations, Enqueue(s, op)
  PROVE  queue' \in [Streams -> Seq(Operations)]
BY DEF TInv, Enqueue

(* The types after each step. *)
LEMMA TStep ==
  ASSUME TInv, [Next]_vars
  PROVE  TInv'
<1>0. cfg \in Config /\ Calls(cfg) \subseteq Call
  BY CfgIn DEF TInv
<1>1. CASE CallTransform
  <2> USE <1>1
  <2>1. cfg' = cfg /\ queue' = queue
    BY DEF CallTransform
  <2>2. number' \in 0..MaxCalls
    BY GpuAssumption DEF CallTransform, TInv
  <2>3. event' \in [Events -> Ids \cup {<<>>}]
    BY DEF CallTransform
  <2>4. PICK c \in Calls(cfg) :
          LET t == Transform(c.name)
              given == IF c.name \in DeviceTransforms THEN {} ELSE t.in
          IN  /\ call' = c
              /\ todo' = t.program
              /\ Store([a \in given |-> Data(Array(a), a)], number + 1)
    BY DEF CallTransform
  <2>5. c \in Call /\ c.name \in TransformNames
    BY <1>0 DEF Call
  <2>6. todo' \in Code
    BY <1>0, <2>4, <2>5, ProgramsIn
  <2>7. DOMAIN mem' = AllCells
    <3> DEFINE given == IF c.name \in DeviceTransforms THEN {} ELSE Transform(c.name).in
               data == [a \in given |-> Data(Array(a), a)]
    <3>1. Transform(c.name).in \subseteq Spectra \cup Fields
      BY <2>5 DEF Transform, T, TransformNames, DeviceTransforms, Spectra, Fields
    <3>2. \A a \in DOMAIN data : data[a].at \in Regions
      BY <1>0, <3>1, ArrayIn DEF Data, Filled
    <3>3. Touched(data) \subseteq AllCells
      BY <3>2, TouchedIn
    <3>4. Store(data, number + 1)
      BY <2>4
    <3> QED BY <3>3, <3>4, StoreIn DEF TInv
  <2> QED BY <2>1, <2>2, <2>3, <2>4, <2>5, <2>6, <2>7, SameTypes DEF TInv
<1>2. ASSUME Advance, todo # <<>>, queue' \in [Streams -> Seq(Operations)],
             event' \in [Events -> Ids \cup {<<>>}], DOMAIN mem' = AllCells
      PROVE  TInv'
  BY <1>2, HeadIn, SameTypes DEF Advance, TInv
<1>3. todo # <<>> => /\ Head(todo) \in Instruction /\ <<number, Len(todo)>> \in Ids
  BY HeadIn DEF TInv, Ids
<1>4. <<>> \in Datas
  BY DEF Datas
<1>5. CASE LaunchKernel
  <2> USE <1>5
  <2>1. todo # <<>> /\ Head(todo).in \in Datas /\ Head(todo).out \in Datas
    BY <1>3, InstructionFields DEF LaunchKernel, Next_is
  <2>2. Operation(Head(todo).in, Head(todo).out, <<>>) \in Operations
    BY <1>3, <2>1 DEF Operation, Operations
  <2>3. queue' \in [Streams -> Seq(Operations)]
    BY <2>2, EnqueueIn DEF LaunchKernel, Streams
  <2> QED BY <1>2, <2>1, <2>3 DEF LaunchKernel, TInv
<1>6. CASE Copy
  <2> USE <1>6
  <2> DEFINE x == Head(todo)
             op == IF Staged(call, x) THEN Operation(<<>>, Outcome(x.in, x.out, number), <<>>)
                   ELSE Operation(x.in, x.out, <<>>)
  <2>1. todo # <<>> /\ x.in \in Datas /\ x.out \in Datas
    BY <1>3, InstructionFields DEF Copy, Next_is
  <2>2. op \in Operations
    BY <1>3, <1>4, <2>1, OutcomeIn DEF Operation, Operations
  <2>3. Enqueue(CopyStream(x), op)
    BY DEF Copy
  <2>4. queue' \in [Streams -> Seq(Operations)]
    BY <2>2, <2>3, EnqueueIn DEF CopyStream, Streams
  <2> QED BY <1>2, <2>1, <2>4 DEF Copy, TInv
<1>7. CASE Abort
  <2>1. <<>> \in Code
    BY DEF Code
  <2> QED BY <1>7, <2>1, SameTypes DEF Abort, TInv
<1>8. CASE RecordEvent
  <2> USE <1>8
  <2>1. todo # <<>> /\ Head(todo).stream \in Streams /\ Head(todo).event \in Events
    BY <1>3, InstructionFields DEF RecordEvent, Next_is
  <2>2. Operation(<<>>, <<>>, <<>>) \in Operations
    BY <1>3, <1>4, <2>1 DEF Operation, Operations
  <2>3. queue' \in [Streams -> Seq(Operations)]
    BY <2>1, <2>2, EnqueueIn DEF RecordEvent
  <2>4. event' \in [Events -> Ids \cup {<<>>}]
    BY <1>3, <2>1 DEF RecordEvent, Operation, TInv
  <2> QED BY <1>2, <2>1, <2>3, <2>4 DEF RecordEvent, TInv
<1>9. CASE WaitEvent
  <2> USE <1>9
  <2>1. todo # <<>> /\ Head(todo).stream \in Streams /\ Head(todo).event \in Events
    BY <1>3, InstructionFields DEF WaitEvent, Next_is
  <2>2. Operation(<<>>, <<>>, event[Head(todo).event]) \in Operations
    BY <1>3, <1>4, <2>1 DEF Operation, Operations, TInv
  <2>3. queue' \in [Streams -> Seq(Operations)]
    BY <2>1, <2>2, EnqueueIn DEF WaitEvent
  <2> QED BY <1>2, <2>1, <2>3 DEF WaitEvent, TInv
<1>10. CASE SynchronizeEvent
  BY <1>2, <1>10 DEF SynchronizeEvent, Next_is, TInv
<1>11. CASE ComputeOnHost
  <2> USE <1>11
  <2>1. todo # <<>> /\ Head(todo).out \in Datas
    BY <1>3, InstructionFields DEF ComputeOnHost, Next_is
  <2>2. DOMAIN mem' = AllCells
    BY <2>1, PerformIn DEF ComputeOnHost, TInv
  <2> QED BY <1>2, <2>1, <2>2 DEF ComputeOnHost, TInv
<1>12. ASSUME NEW s \in Streams, Execute(s) PROVE TInv'
  <2> USE <1>12
  <2>1. queue[s] \in Seq(Operations) /\ queue[s] # <<>>
    BY DEF Execute, Ready, TInv
  <2>2. Head(queue[s]) \in Operations /\ Tail(queue[s]) \in Seq(Operations)
    BY <2>1
  <2>3. DOMAIN mem' = AllCells
    BY <2>2, PerformIn DEF Execute, TInv, Operations
  <2>4. queue' \in [Streams -> Seq(Operations)]
    BY <2>2 DEF Execute, TInv
  <2> QED BY <2>3, <2>4, SameTypes DEF Execute, TInv
<1>13. CASE UNCHANGED vars
  BY <1>13, SameTypes DEF vars, TInv
<1> QED BY <1>1, <1>5, <1>6, <1>7, <1>8, <1>9, <1>10, <1>11, <1>12, <1>13 DEF Next

(* In every state the configuration, the call, its instructions, the      *)
(* queues and the events have their types, and every instruction that a   *)
(* transform of sht_gpu.cu gives to a stream stays within gpu_mem,        *)
(* xfft_cpu and the arrays of the caller.                                 *)
THEOREM StreamTypes == Spec => []TypeOK
<1>1. TInv => TypeOK
  BY DEF TInv, TypeOK
<1> QED BY <1>1, TInitial, TStep, PTL DEF Spec

-----------------------------------------------------------------------------
(* The inductive invariant. *)

(* The identifier that instruction i gets in the n-th call, and its       *)
(* operation in a queue: instructions are counted from the end.           *)
IdAt(n, P, i) == <<n, Len(P) + 1 - i>>
OpAt(n, P, c, i) ==
  [id |-> IdAt(n, P, i), in |-> StreamIn(c, P[i]), out |-> StreamOut(P[i]),
   after |-> IF P[i].kind = "wait" /\ RecordFor(P, i) # 0
             THEN IdAt(n, P, RecordFor(P, i)) ELSE <<>>]

(* An operation that an earlier call has left. *)
IsLeft(op, n) == op.id[1] \in 1..(n - 1) /\ OnDeviceOnly(op.in) /\ OnDeviceOnly(op.out)

(* The order of operations: of calls, and of the instructions of a call. *)
Earlier(a, b) == a[1] < b[1] \/ (a[1] = b[1] /\ a[2] > b[2])

(* Instruction i is not in a queue, or not any more. *)
Done(P, i) == ~Pending(IdAt(number, P, i))

(* An operation in a queue is one of the first h instructions of the      *)
(* program, or was left in comp_stream by an earlier transform of device  *)
(* data.                                                                  *)
FromProgram(P, c, h) ==
  \A s \in Streams : \A p \in DOMAIN queue[s] :
    \/ s = "comp" /\ IsLeft(queue[s][p], number)
    \/ \E i \in 1..h : StreamOf(P[i]) = s /\ queue[s][p] = OpAt(number, P, c, i)

(* A queue is in the order of the program. *)
InOrder ==
  \A s \in Streams : \A p, q \in DOMAIN queue[s] :
    p < q => Earlier(queue[s][p].id, queue[s][q].id)

(* Behind an operation that is not done, none of the same stream is done. *)
NoneSkipped(P, h) ==
  \A s \in Streams : \A p \in DOMAIN queue[s] : \A i \in 1..h :
    StreamOf(P[i]) = s /\ Earlier(queue[s][p].id, IdAt(number, P, i)) => ~Done(P, i)

(* An event is that of its last record, if any. *)
EventsRight(P, h) ==
  \A e \in Events :
    \/ event[e] = <<>> /\ Records(P, e, h + 1) = {}
    \/ \E r \in Records(P, e, h + 1) :
         IsLast(r, Records(P, e, h + 1)) /\ event[e] = IdAt(number, P, r)

(* A stream is past a wait only if what was recorded is done. *)
WaitsDone(P, h) ==
  \A w \in 1..h :
    P[w].kind = "wait" /\ RecordFor(P, w) # 0 /\ Done(P, w) => Done(P, RecordFor(P, w))

(* What the host has waited for is done, unless it is still waiting. *)
AwaitedDone(P, c, h) ==
  \A p \in 1..h : AwaitedBy(P, c, p) # 0 =>
    \/ Done(P, AwaitedBy(P, c, p))
    \/ p = h /\ awaited = IdAt(number, P, AwaitedBy(P, c, p))

(* The uploads that wait for comp_stream have found it empty. *)
Drained(P, c, h) ==
  \A p \in 1..h : Drains(c, P[p]) =>
    /\ \A i \in 1..(p - 1) : StreamOf(P[i]) = "comp" => Done(P, i)
    /\ \A q \in DOMAIN queue["comp"] : queue["comp"][q].id[1] = number

(* The cells which a program or its caller writes. *)
CellsTouched(P, given) ==
  Touched(given) \cup UNION {Touched(Output(P[i])) : i \in DOMAIN P}

(* A cell has what the last instruction done has written there, unless a  *)
(* later one of the same call has begun to; before any, what the caller   *)
(* gave.                                                                  *)
MemoryRight(P, given, h) ==
  \A x \in CellsTouched(P, given) :
    /\ \A i \in Writers(P, x, h + 1) : Done(P, i) =>
         /\ x \in DOMAIN mem
         /\ (\A j \in Writers(P, x, h + 1) : j > i => ~Done(P, j)) =>
              mem[x] = Stored(Output(P[i]), number, x)
    /\ (\A i \in Writers(P, x, h + 1) : ~Done(P, i)) /\ x \in Touched(given) =>
         x \in DOMAIN mem /\ mem[x] = Stored(given, number, x)

(* The queues, and what has been waited for. *)
Queued(P, c, h) == FromProgram(P, c, h) /\ InOrder /\ NoneSkipped(P, h)
Waits_(P, c, h) == WaitsDone(P, h) /\ AwaitedDone(P, c, h) /\ Drained(P, c, h)

(* No call has been made. *)
Quiet == call = Idle /\ number = 0 /\ todo = <<>> /\ queue = [s \in Streams |-> <<>>]

(* Call c has given the first h instructions of program P. *)
Core(P, c, given, h) ==
  /\ number \in 1..MaxCalls
  /\ \/ call = c /\ todo = SubSeq(P, h + 1, Len(P))
     \/ call = Failed /\ todo = <<>>
  /\ Queued(P, c, h) /\ EventsRight(P, h) /\ Waits_(P, c, h)
  /\ MemoryRight(P, given, h)

(* The last of a set of instructions. *)
LEMMA LastIsLast ==
  ASSUME NEW S \in SUBSET Nat
  PROVE  /\ Last(S) # 0 => IsLast(Last(S), S)
         /\ \A i \in S : IsLast(i, S) => (i # 0 => Last(S) = i)
         /\ S = {} => Last(S) = 0
<1>1. (\E i \in S : IsLast(i, S)) => Last(S) \in S /\ IsLast(Last(S), S)
  BY DEF Last
<1>2. ~(\E i \in S : IsLast(i, S)) => Last(S) = 0
  BY DEF Last
<1>3. \A i, j \in S : IsLast(i, S) /\ IsLast(j, S) => i = j
  BY DEF IsLast
<1> QED BY <1>1, <1>2, <1>3

(* The record for a wait is before it. *)
LEMMA RecordForIs ==
  ASSUME NEW P, NEW j \in Nat, RecordFor(P, j) # 0
  PROVE  /\ RecordFor(P, j) \in 1..(j - 1)
         /\ P[RecordFor(P, j)].kind = "record"
<1>1. Records(P, P[j].event, j) \in SUBSET Nat
  BY DEF Records
<1>2. RecordFor(P, j) \in Records(P, P[j].event, j)
  BY <1>1, LastIsLast DEF RecordFor, IsLast
<1> QED BY <1>2 DEF Records

(* What the host waits for is before, or the copy itself. *)
LEMMA AwaitedByIs ==
  ASSUME NEW P, NEW c, NEW j \in Nat \ {0}, AwaitedBy(P, c, j) # 0
  PROVE  /\ AwaitedBy(P, c, j) \in 1..j
         /\ P[AwaitedBy(P, c, j)].kind \in {"record", "copy"}
<1>1. CASE AwaitedBy(P, c, j) = j /\ P[j].kind = "copy"
  BY <1>1
<1>2. CASE AwaitedBy(P, c, j) = RecordFor(P, j)
  BY <1>2, RecordForIs
<1> QED BY <1>1, <1>2 DEF AwaitedBy

(* Instructions have different identifiers, in the order of the program. *)
LEMMA Identifiers ==
  ASSUME NEW n, NEW P \in Code, NEW i \in 1..Len(P), NEW j \in 1..Len(P)
  PROVE  /\ IdAt(n, P, i) = IdAt(n, P, j) => i = j
         /\ n \in Nat => (Earlier(IdAt(n, P, i), IdAt(n, P, j)) <=> i < j)
         /\ IdAt(n, P, i)[1] = n
         /\ IdAt(n, P, i) # <<>>
<1>1. Len(P) \in Nat
  BY DEF Code
<1> QED BY <1>1 DEF IdAt, Earlier

(* The stream of an instruction follows from its kind. *)
LEMMA InstructionStream ==
  ASSUME NEW P \in Code, NEW i \in 1..Len(P)
  PROVE  /\ P[i] \in Instruction
         /\ StreamOf(P[i]) \in Streams \cup {"host"}
         /\ P[i].kind \in {"launch", "copy", "record", "wait"} => StreamOf(P[i]) \in Streams
         /\ P[i].kind \in {"host", "synchronize"} => StreamOf(P[i]) = "host"
<1>1. P[i] \in Instruction
  BY DEF Code
<1>2. P[i].kind \in {"launch", "host", "copy", "record", "wait", "synchronize"}
      /\ (P[i].kind \in {"record", "wait"} => P[i].stream \in Streams)
  BY <1>1, InstructionFields
<1> HIDE DEF Instruction
<1> QED BY <1>1, <1>2 DEF StreamOf, CopyStream, Streams

(* Data of another call differ in the number of the call only. *)
LEMMA Shift ==
  ASSUME NEW data, NEW x, NEW v, NEW k, NEW n,
         Stored(data, 1, x) = Content(v, 1, k)
  PROVE  Stored(data, n, x) = Content(v, n, k)
<1>1. \A u, i : Content(u, 1, i) = Content(v, 1, k) => Content(u, n, i) = Content(v, n, k)
  BY DEF Content
<1> QED BY <1>1 DEF Stored

(* The fields of an operation. *)
LEMMA OpFields ==
  ASSUME NEW n, NEW P, NEW c, NEW i
  PROVE  /\ OpAt(n, P, c, i).id = IdAt(n, P, i)
         /\ OpAt(n, P, c, i).in = StreamIn(c, P[i])
         /\ OpAt(n, P, c, i).out = StreamOut(P[i])
         /\ P[i].kind = "wait" /\ RecordFor(P, i) # 0 =>
              OpAt(n, P, c, i).after = IdAt(n, P, RecordFor(P, i))
BY DEF OpAt

-----------------------------------------------------------------------------
(* What is ordered before something done is done. *)

(* An instruction that is not done is in the queue of its stream. *)
LEMMA InQueue ==
  ASSUME NEW P \in Code, NEW c, NEW h \in 0..Len(P), FromProgram(P, c, h), number \in Nat,
         NEW i \in 1..Len(P), ~Done(P, i)
  PROVE  /\ i <= h /\ StreamOf(P[i]) \in Streams
         /\ \E p \in DOMAIN queue[StreamOf(P[i])] :
              queue[StreamOf(P[i])][p] = OpAt(number, P, c, i)
<1>0. Len(P) \in Nat
  BY DEF Code
<1>a. PICK s \in Streams : \E p \in DOMAIN queue[s] : queue[s][p].id = IdAt(number, P, i)
  BY DEF Done, Pending
<1>1. PICK p \in DOMAIN queue[s] : queue[s][p].id = IdAt(number, P, i)
  BY <1>a
<1>2. ~IsLeft(queue[s][p], number)
  <2>1. queue[s][p].id[1] = number
    BY <1>1, Identifiers
  <2> QED BY <2>1 DEF IsLeft
<1>3. PICK j \in 1..h : StreamOf(P[j]) = s /\ queue[s][p] = OpAt(number, P, c, j)
  BY <1>2 DEF FromProgram
<1>4. IdAt(number, P, j) = IdAt(number, P, i)
  BY <1>1, <1>3, OpFields
<1>5. j \in 1..Len(P)
  BY <1>0
<1>6. j = i
  BY <1>4, <1>5, Identifiers
<1> QED BY <1>3, <1>6

(* A stream executes its instructions in order. *)
LEMMA StreamOrder ==
  ASSUME NEW P \in Code, NEW c, NEW h \in 0..Len(P), Queued(P, c, h), number \in Nat,
         NEW i \in 1..h, NEW j \in 1..h, i <= j, StreamOf(P[i]) = StreamOf(P[j]), Done(P, j)
  PROVE  Done(P, i)
<1>0. Len(P) \in Nat
  BY DEF Code
<1> SUFFICES ASSUME ~Done(P, i), i < j PROVE FALSE
  OBVIOUS
<1>1. PICK p \in DOMAIN queue[StreamOf(P[i])] :
        queue[StreamOf(P[i])][p] = OpAt(number, P, c, i)
  BY <1>0, InQueue DEF Queued
<1>2. StreamOf(P[i]) \in Streams
  BY <1>0, InQueue DEF Queued
<1>3. Earlier(IdAt(number, P, i), IdAt(number, P, j))
  BY <1>0, Identifiers
<1> QED BY <1>1, <1>2, <1>3, OpFields DEF Queued, NoneSkipped

(* Nothing is left of an earlier call once an instruction of comp is done. *)
LEMMA NoneLeft ==
  ASSUME NEW P \in Code, NEW c, NEW h \in 0..Len(P), Queued(P, c, h), number \in Nat,
         NEW i \in 1..h, StreamOf(P[i]) = "comp", Done(P, i)
  PROVE  \A p \in DOMAIN queue["comp"] : ~IsLeft(queue["comp"][p], number)
<1>0. Len(P) \in Nat /\ "comp" \in Streams
  BY DEF Code, Streams
<1> SUFFICES ASSUME NEW p \in DOMAIN queue["comp"], IsLeft(queue["comp"][p], number)
             PROVE  FALSE
  OBVIOUS
<1>1. Earlier(queue["comp"][p].id, IdAt(number, P, i))
  <2>1. IdAt(number, P, i)[1] = number
    BY DEF IdAt
  <2>2. queue["comp"][p].id[1] < number
    BY DEF IsLeft
  <2> QED BY <2>1, <2>2 DEF Earlier
<1> QED BY <1>0, <1>1 DEF Queued, NoneSkipped

(* What an instruction waits for is done once the instruction is. *)
LEMMA WaitedDone ==
  ASSUME NEW P \in Code, NEW c, NEW h \in 0..Len(P), Queued(P, c, h), WaitsDone(P, h),
         number \in Nat, NEW i \in 1..h, NEW j \in 1..h, Waited(P, i, j), Done(P, j)
  PROVE  Done(P, i)
<1>0. Len(P) \in Nat
  BY DEF Code
<1>1. CASE StreamOf(P[i]) = StreamOf(P[j]) /\ i <= j
  BY <1>1, StreamOrder
<1>2. CASE ~(StreamOf(P[i]) = StreamOf(P[j]) /\ i <= j)
  <2>1. PICK w \in 1..j :
          /\ StreamOf(P[w]) = StreamOf(P[j])
          /\ P[w].kind = "wait"
          /\ RecordFor(P, w) # 0
          /\ StreamOf(P[RecordFor(P, w)]) = StreamOf(P[i])
          /\ i <= RecordFor(P, w)
    BY <1>2 DEF Waited
  <2>2. RecordFor(P, w) \in 1..h
    BY <2>1, RecordForIs
  <2>3. Done(P, w)
    BY <2>1, StreamOrder
  <2>4. Done(P, RecordFor(P, w))
    BY <2>1, <2>3 DEF WaitsDone
  <2> QED BY <2>1, <2>2, <2>4, StreamOrder
<1> QED BY <1>1, <1>2

(* The same when j is the next operation of its stream. *)
LEMMA WaitedAtHead ==
  ASSUME NEW P \in Code, NEW c, NEW h \in 0..Len(P), Queued(P, c, h), WaitsDone(P, h),
         number \in Nat, NEW i \in 1..h, NEW j \in 1..h, i # j, Waited(P, i, j),
         NEW s \in Streams, StreamOf(P[j]) = s, queue[s] \in Seq(Operations),
         Ready(s), Head(queue[s]) = OpAt(number, P, c, j)
  PROVE  Done(P, i)
<1>0. Len(P) \in Nat /\ 1 \in DOMAIN queue[s] /\ queue[s][1] = OpAt(number, P, c, j)
  BY DEF Code, Ready
<1>1. ASSUME NEW k \in 1..h, StreamOf(P[k]) = s, k < j PROVE Done(P, k)
  <2> SUFFICES ASSUME ~Done(P, k) PROVE FALSE
    OBVIOUS
  <2>1. PICK p \in DOMAIN queue[s] : queue[s][p] = OpAt(number, P, c, k)
    BY <1>0, <1>1, InQueue DEF Queued
  <2>2. p # 1
    <3>1. j \in 1..Len(P) /\ k \in 1..Len(P) /\ j # k
      BY <1>0, <1>1
    <3>2. IdAt(number, P, j) # IdAt(number, P, k)
      BY <3>1, Identifiers
    <3>3. OpAt(number, P, c, j) # OpAt(number, P, c, k)
      BY <3>2, OpFields
    <3> QED BY <1>0, <2>1, <3>3
  <2>3. 1 < p
    BY <2>1, <2>2
  <2>4. Earlier(IdAt(number, P, j), IdAt(number, P, k))
    BY <1>0, <2>1, <2>3, OpFields DEF Queued, InOrder
  <2>5. j \in 1..Len(P) /\ k \in 1..Len(P)
    BY <1>0
  <2>6. Earlier(IdAt(number, P, j), IdAt(number, P, k)) <=> j < k
    BY <2>5, Identifiers
  <2>7. j < k
    BY <2>4, <2>6
  <2> QED BY <1>1, <2>7
<1>2. CASE StreamOf(P[i]) = s
  <2>1. i <= j
    BY <1>2, RecordForIs DEF Waited
  <2> QED BY <1>1, <1>2, <2>1
<1>3. CASE StreamOf(P[i]) # s
  <2>1. PICK w \in 1..j :
          /\ StreamOf(P[w]) = s
          /\ P[w].kind = "wait"
          /\ RecordFor(P, w) # 0
          /\ StreamOf(P[RecordFor(P, w)]) = StreamOf(P[i])
          /\ i <= RecordFor(P, w)
    BY <1>3 DEF Waited
  <2>2. RecordFor(P, w) \in 1..h
    BY <2>1, RecordForIs
  <2>3. Done(P, RecordFor(P, w))
    <3>1. CASE w < j
      BY <3>1, <1>1, <2>1 DEF WaitsDone
    <3>2. CASE w = j
      <4>1. OpAt(number, P, c, j).after = IdAt(number, P, RecordFor(P, w))
        BY <3>2, <2>1 DEF OpAt
      <4> QED BY <4>1 DEF Ready, Done
    <3> QED BY <3>1, <3>2
  <2> QED BY <2>1, <2>2, <2>3, StreamOrder
<1> QED BY <1>2, <1>3

(* The host has gone past instruction q. *)
Past(q, h) == q < h \/ (q = h /\ Running)

(* The host is past its wait. *)
LEMMA AwaitedIsDone ==
  ASSUME NEW P \in Code, NEW c, NEW h \in 0..Len(P), AwaitedDone(P, c, h),
         NEW q \in 0..h, Past(q, h), NEW p \in 1..q, AwaitedBy(P, c, p) # 0
  PROVE  AwaitedBy(P, c, p) \in 1..h /\ Done(P, AwaitedBy(P, c, p))
<1>0. Len(P) \in Nat
  BY DEF Code
<1>1. AwaitedBy(P, c, p) \in 1..p
  BY AwaitedByIs
<1> QED BY <1>0, <1>1 DEF AwaitedDone, Past, Running, Done

(* What is complete is done. *)
LEMMA CompleteDone ==
  ASSUME NEW P \in Code, NEW c, NEW h \in 0..Len(P), Queued(P, c, h), Waits_(P, c, h),
         number \in Nat, NEW q \in 0..h, Past(q, h), NEW i \in 1..h, Complete(P, c, i, q)
  PROVE  Done(P, i)
<1>0. Len(P) \in Nat
  BY DEF Code
<1>1. CASE \E p \in 1..q : AwaitedBy(P, c, p) # 0 /\ Waited(P, i, AwaitedBy(P, c, p))
  <2>1. PICK p \in 1..q : AwaitedBy(P, c, p) # 0 /\ Waited(P, i, AwaitedBy(P, c, p))
    BY <1>1
  <2>2. AwaitedBy(P, c, p) \in 1..h /\ Done(P, AwaitedBy(P, c, p))
    BY <2>1, AwaitedIsDone DEF Waits_
  <2> QED BY <2>1, <2>2, WaitedDone DEF Waits_
<1>2. CASE StreamOf(P[i]) = "comp" /\ \E p \in (i + 1)..q : Drains(c, P[p])
  <2>1. PICK p \in (i + 1)..q : Drains(c, P[p])
    BY <1>2
  <2>2. p \in 1..h /\ i \in 1..(p - 1)
    BY <1>0
  <2> QED BY <1>2, <2>1, <2>2 DEF Waits_, Drained
<1> QED BY <1>1, <1>2 DEF Complete

(* Once the host has waited for comp_stream, nothing of an earlier call   *)
(* is left.                                                               *)
LEMMA CompWaitedNoneLeft ==
  ASSUME NEW P \in Code, NEW c, NEW h \in 0..Len(P), Queued(P, c, h), Waits_(P, c, h),
         number \in Nat, NEW q \in 0..h, Past(q, h), CompWaited(P, c, q)
  PROVE  \A p \in DOMAIN queue["comp"] : ~IsLeft(queue["comp"][p], number)
<1>0. Len(P) \in Nat
  BY DEF Code
<1>1. PICK r \in 1..q : \/ Drains(c, P[r])
                        \/ AwaitedBy(P, c, r) # 0 /\ StreamOf(P[AwaitedBy(P, c, r)]) = "comp"
  BY DEF CompWaited
<1>2. CASE Drains(c, P[r])
  <2>1. \A p \in DOMAIN queue["comp"] : queue["comp"][p].id[1] = number
    BY <1>0, <1>2 DEF Waits_, Drained
  <2> QED BY <2>1 DEF IsLeft
<1>3. CASE AwaitedBy(P, c, r) # 0 /\ StreamOf(P[AwaitedBy(P, c, r)]) = "comp"
  <2>1. AwaitedBy(P, c, r) \in 1..h /\ Done(P, AwaitedBy(P, c, r))
    BY <1>3, AwaitedIsDone DEF Waits_
  <2> QED BY <1>3, <2>1, NoneLeft
<1> QED BY <1>1, <1>2, <1>3

-----------------------------------------------------------------------------
(* What is free of conflicts is read as it was written. *)

(* The next instruction of the host. *)
LEMMA Position ==
  ASSUME NEW P \in Code, NEW h \in 0..Len(P), todo = SubSeq(P, h + 1, Len(P)), todo # <<>>
  PROVE  /\ h < Len(P) /\ h + 1 \in 1..Len(P)
         /\ Head(todo) = P[h + 1]
         /\ Tail(todo) = SubSeq(P, h + 2, Len(P))
         /\ <<number, Len(todo)>> = IdAt(number, P, h + 1)
<1>1. Len(P) \in Nat /\ P \in Seq(Instruction)
  BY DEF Code
<1> HIDE DEF Instruction
<1>2. h < Len(P)
  BY <1>1
<1>3. Len(todo) = Len(P) - h
  BY <1>1, <1>2
<1>4. Head(todo) = P[h + 1]
  BY <1>1, <1>2
<1>5. Tail(todo) = SubSeq(P, h + 2, Len(P))
  BY <1>1, <1>2
<1>6. <<number, Len(todo)>> = IdAt(number, P, h + 1)
  BY <1>1, <1>2, <1>3 DEF IdAt
<1> QED BY <1>1, <1>2, <1>4, <1>5, <1>6

(* The program is at its end. *)
LEMMA AtEnd ==
  ASSUME NEW P \in Code, NEW h \in 0..Len(P), SubSeq(P, h + 1, Len(P)) = <<>>
  PROVE  h = Len(P)
<1>1. Len(P) \in Nat /\ P \in Seq(Instruction)
  BY DEF Code
<1>2. h < Len(P) => Len(SubSeq(P, h + 1, Len(P))) = Len(P) - h
  BY <1>1
<1> QED BY <1>1, <1>2

(* The host leaves nothing in a queue. *)
LEMMA HostDone ==
  ASSUME NEW P \in Code, NEW c, NEW h \in 0..Len(P), FromProgram(P, c, h), number \in Nat,
         NEW i \in 1..Len(P), StreamOf(P[i]) \notin Streams
  PROVE  Done(P, i)
BY InQueue

(* What the host has not reached is not done by a stream. *)
LEMMA NotYet ==
  ASSUME NEW P \in Code, NEW c, NEW h \in 0..Len(P), FromProgram(P, c, h), number \in Nat,
         NEW i \in 1..Len(P), i > h
  PROVE  Done(P, i)
BY InQueue DEF Code

(* A datum that a program finds when it runs alone is in memory when just  *)
(* the writers before q are done.                                          *)
LEMMA Reads ==
  ASSUME NEW P \in Code, NEW given, NEW h \in 0..Len(P), MemoryRight(P, given, h),
         NEW q \in 1..(h + 1), NEW x, NEW v, NEW k, Before(P, given, x, q) = Content(v, 1, k),
         \A i \in Writers(P, x, h + 1) : Done(P, i) <=> i < q
  PROVE  x \in DOMAIN mem /\ mem[x] = Content(v, number, k)
<1> DEFINE W == Writers(P, x, q)
           all == Writers(P, x, h + 1)
<1>0. Len(P) \in Nat
  BY DEF Code
<1>1. W \subseteq all /\ W \in SUBSET Nat /\ all \subseteq 1..h /\ 0 \notin W
  BY <1>0 DEF Writers
<1>2. \A i \in all : i < q => i \in W
  BY <1>0 DEF Writers
<1>3. \A i \in W : i < q
  BY <1>0 DEF Writers
<1>4. \A i \in all : x \in Touched(Output(P[i])) /\ i \in DOMAIN P
  <2>1. DOMAIN P = 1..Len(P)
    BY DEF Code
  <2> QED BY <1>0, <2>1 DEF Writers
<1>5. \A u, i : Content(u, 1, i) # <<>>
  BY DEF Content
<1>6. CASE Last(W) # 0
  <2> DEFINE i == Last(W)
  <2>1. i \in W /\ \A j \in W : j <= i
    BY <1>1, <1>6, LastIsLast DEF IsLast
  <2> HIDE DEF i
  <2>2. x \in CellsTouched(P, given)
    BY <1>1, <1>4, <2>1 DEF CellsTouched
  <2>3. Done(P, i) /\ i \in all
    BY <1>1, <1>3, <2>1
  <2>4. \A j \in all : j > i => ~Done(P, j)
    <3> SUFFICES ASSUME NEW j \in all, j > i, Done(P, j) PROVE FALSE
      OBVIOUS
    <3>1. j \in W
      BY <1>2
    <3> QED BY <2>1, <3>1, <1>1
  <2>5. x \in DOMAIN mem /\ mem[x] = Stored(Output(P[i]), number, x)
    BY <2>2, <2>3, <2>4 DEF MemoryRight
  <2>6. Stored(Output(P[i]), 1, x) = Content(v, 1, k)
    BY <1>6 DEF Before, i
  <2>7. Stored(Output(P[i]), number, x) = Content(v, number, k)
    BY <2>6, Shift
  <2> QED BY <2>5, <2>7
<1>7. CASE Last(W) = 0
  <2>1. W = {} /\ x \in Touched(given) /\ Stored(given, 1, x) = Content(v, 1, k)
    BY <1>5, <1>7 DEF Before
  <2>2. \A i \in all : ~Done(P, i)
    BY <1>2, <2>1
  <2>3. x \in CellsTouched(P, given)
    BY <2>1 DEF CellsTouched
  <2>4. x \in DOMAIN mem /\ mem[x] = Stored(given, number, x)
    BY <2>1, <2>2, <2>3 DEF MemoryRight
  <2>5. Stored(given, number, x) = Content(v, number, k)
    BY <2>1, Shift
  <2> QED BY <2>4, <2>5
<1> QED BY <1>6, <1>7

(* What writes is in a stream or on the host. *)
LEMMA OutputIs ==
  ASSUME NEW P \in Code, NEW c, NEW i \in 1..Len(P)
  PROVE  /\ StreamOf(P[i]) \in Streams => Output(P[i]) = StreamOut(P[i])
         /\ StreamOf(P[i]) \notin Streams =>
              Output(P[i]) = HostOut(P[i]) /\ StreamOut(P[i]) = <<>> /\ StreamIn(c, P[i]) = <<>>
<1>1. P[i].kind \in {"launch", "host", "copy", "record", "wait", "synchronize"}
  BY InstructionStream, InstructionFields
<1>2. "host" \notin Streams
  BY DEF Streams
<1>3. /\ P[i].kind \in {"launch", "copy", "record", "wait"} => StreamOf(P[i]) \in Streams
      /\ P[i].kind \in {"host", "synchronize"} => StreamOf(P[i]) = "host"
  BY InstructionStream
<1> QED BY <1>1, <1>2, <1>3 DEF Output, Works, StreamOut, StreamIn, HostOut

-----------------------------------------------------------------------------
(* The data that an instruction finds. *)

(* A cell of data is touched. *)
LEMMA TouchedCell ==
  ASSUME NEW data, NEW j \in DOMAIN data, NEW k \in DOMAIN data[j].at
  PROVE  data[j].at[k] \in Touched(data)
BY DEF Touched, CellsOf

(* The writers of a cell that the next operation of a stream uses: those   *)
(* before it are done, and those after it are not.                         *)
LEMMA WritersAtHead ==
  ASSUME NEW P \in Code, NEW c, NEW h \in 0..Len(P), Queued(P, c, h), Waits_(P, c, h),
         number \in Nat, Ordered(P, c), NEW j \in 1..h, NEW s \in Streams, StreamOf(P[j]) = s,
         queue[s] \in Seq(Operations), Ready(s), Head(queue[s]) = OpAt(number, P, c, j),
         NEW x, x \in Touched(StreamIn(c, P[j])) \cup Touched(StreamOut(P[j])),
         NEW i \in Writers(P, x, h + 1), i # j
  PROVE  Done(P, i) <=> i < j
<1>0. Len(P) \in Nat /\ i \in 1..h /\ i \in 1..Len(P) /\ j \in 1..Len(P) /\ x \in Touched(Output(P[i]))
      /\ i \in DOMAIN P /\ j \in DOMAIN P
  BY DEF Code, Writers
<1>1. ~Done(P, j)
  BY OpFields DEF Ready, Done, Pending
<1>2. ASSUME i < j PROVE Done(P, i)
  <2>1. CASE StreamOf(P[i]) \notin Streams
    BY <1>0, <2>1, HostDone DEF Queued
  <2>2. CASE StreamOf(P[i]) \in Streams
    <3>1. x \in Touched(StreamOut(P[i]))
      BY <1>0, <2>2, OutputIs
    <3>2. Conflict(StreamIn(c, P[i]), StreamOut(P[i]), StreamIn(c, P[j]), StreamOut(P[j]))
      BY <3>1 DEF Conflict
    <3>3. Complete(P, c, i, j - 1) \/ Waited(P, i, j)
      BY <1>0, <1>2, <3>2 DEF Ordered
    <3>4. CASE Complete(P, c, i, j - 1)
      <4>1. j - 1 \in 0..h /\ Past(j - 1, h)
        BY <1>0 DEF Past
      <4> QED BY <1>0, <3>4, <4>1, CompleteDone
    <3>5. CASE Waited(P, i, j)
      BY <1>0, <3>5, WaitedAtHead DEF Waits_
    <3> QED BY <3>3, <3>4, <3>5
  <2> QED BY <2>1, <2>2
<1>3. ASSUME j < i, Done(P, i) PROVE FALSE
  <2>1. CASE StreamOf(P[i]) \notin Streams
    <3>1. x \in Touched(HostOut(P[i]))
      BY <1>0, <2>1, OutputIs
    <3>2. Conflict(StreamIn(c, P[j]), StreamOut(P[j]), HostIn(c, P[i]), HostOut(P[i]))
      BY <3>1 DEF Conflict
    <3>3. Complete(P, c, j, i - 1)
      BY <1>0, <1>3, <3>2 DEF Ordered
    <3>4. i - 1 \in 0..h /\ Past(i - 1, h)
      BY <1>0 DEF Past
    <3> QED BY <1>0, <1>1, <3>3, <3>4, CompleteDone
  <2>2. CASE StreamOf(P[i]) \in Streams
    <3>1. x \in Touched(StreamOut(P[i]))
      BY <1>0, <2>2, OutputIs
    <3>2. Conflict(StreamIn(c, P[j]), StreamOut(P[j]), StreamIn(c, P[i]), StreamOut(P[i]))
      BY <3>1 DEF Conflict
    <3>3. Complete(P, c, j, i - 1) \/ Waited(P, j, i)
      BY <1>0, <1>3, <3>2 DEF Ordered
    <3>4. CASE Complete(P, c, j, i - 1)
      <4>1. i - 1 \in 0..h /\ Past(i - 1, h)
        BY <1>0 DEF Past
      <4> QED BY <1>0, <1>1, <3>4, <4>1, CompleteDone
    <3>5. CASE Waited(P, j, i)
      <4>1. Done(P, j)
        BY <1>0, <1>3, <3>5, WaitedDone DEF Waits_
      <4> QED BY <1>1, <4>1
    <3> QED BY <3>3, <3>4, <3>5
  <2> QED BY <2>1, <2>2
<1> QED BY <1>0, <1>2, <1>3

(* The next operation of a stream finds the data it expects. *)
LEMMA StreamReads ==
  ASSUME NEW P \in Code, NEW c, NEW given, NEW results_, NEW h \in 0..Len(P),
         Queued(P, c, h), Waits_(P, c, h), MemoryRight(P, given, h), number \in Nat,
         Ordered(P, c), Fed(P, given, results_),
         NEW j \in 1..h, NEW s \in Streams, StreamOf(P[j]) = s,
         queue[s] \in Seq(Operations), Ready(s), Head(queue[s]) = OpAt(number, P, c, j)
  PROVE  Outcome(StreamIn(c, P[j]), StreamOut(P[j]), number) = StreamOut(P[j])
<1>0. Len(P) \in Nat /\ j \in DOMAIN P /\ j \in 1..Len(P)
  BY DEF Code
<1> SUFFICES ASSUME NEW d \in DOMAIN StreamIn(c, P[j]) PROVE Holds(StreamIn(c, P[j])[d], number)
  BY DEF Outcome
<1>1. CASE StreamIn(c, P[j]) = <<>>
  BY <1>1
<1>2. CASE StreamIn(c, P[j]) # <<>>
  <2>1. StreamIn(c, P[j]) = P[j].in /\ Works(P[j])
    BY <1>2 DEF StreamIn, Works
  <2> DEFINE datum == P[j].in[d]
  <2>2. Expected(P, given, datum, j)
    BY <1>0, <2>1 DEF Fed
  <2>3. ASSUME NEW k \in DOMAIN datum.at
        PROVE  datum.at[k] \in DOMAIN mem /\ mem[datum.at[k]] = Content(datum.is, number, k)
    <3>1. datum.at[k] \in Touched(StreamIn(c, P[j]))
      BY <2>1, TouchedCell
    <3>2. Before(P, given, datum.at[k], j) = Content(datum.is, 1, k)
      BY <2>2 DEF Expected
    <3>3. ~Done(P, j)
      BY OpFields DEF Ready, Done, Pending
    <3>4. ASSUME NEW i \in Writers(P, datum.at[k], h + 1) PROVE Done(P, i) <=> i < j
      <4>1. CASE i = j
        BY <3>3, <4>1
      <4>2. CASE i # j
        BY <3>1, <4>2, WritersAtHead
      <4> QED BY <4>1, <4>2
    <3>5. j \in 1..(h + 1)
      BY <1>0
    <3> HIDE DEF datum
    <3> QED BY <3>2, <3>4, <3>5, Reads
  <2> QED BY <2>1, <2>3 DEF Holds
<1> QED BY <1>1, <1>2

(* So does the host, in its next instruction. *)
LEMMA HostFinds ==
  ASSUME NEW P \in Code, NEW c, NEW given, NEW results_, NEW h \in 0..Len(P), h < Len(P),
         Queued(P, c, h), Waits_(P, c, h), MemoryRight(P, given, h), number \in Nat,
         Ordered(P, c), Fed(P, given, results_), Running, NEW out
  PROVE  Outcome(HostIn(c, P[h + 1]), out, number) = out
<1>0. Len(P) \in Nat /\ h + 1 \in DOMAIN P /\ h + 1 \in 1..Len(P)
  BY DEF Code
<1> DEFINE in == HostIn(c, P[h + 1])
<1> SUFFICES ASSUME NEW d \in DOMAIN in PROVE Holds(in[d], number)
  BY DEF Outcome
<1>1. CASE in = <<>>
  BY <1>1
<1>2. CASE in # <<>>
  <2>1. in = P[h + 1].in /\ Works(P[h + 1])
    BY <1>2 DEF HostIn, IsStaged, Works
  <2> DEFINE datum == P[h + 1].in[d]
  <2>2. Expected(P, given, datum, h + 1)
    BY <1>0, <2>1 DEF Fed
  <2>3. ASSUME NEW k \in DOMAIN datum.at
        PROVE  datum.at[k] \in DOMAIN mem /\ mem[datum.at[k]] = Content(datum.is, number, k)
    <3>1. datum.at[k] \in Touched(in)
      BY <2>1, TouchedCell
    <3>2. Before(P, given, datum.at[k], h + 1) = Content(datum.is, 1, k)
      BY <2>2 DEF Expected
    <3>3. ASSUME NEW i \in Writers(P, datum.at[k], h + 1) PROVE Done(P, i) /\ i < h + 1
      <4>1. i \in 1..h /\ i \in 1..Len(P) /\ i \in DOMAIN P /\ datum.at[k] \in Touched(Output(P[i]))
        BY <1>0 DEF Writers, Code
      <4>2. CASE StreamOf(P[i]) \notin Streams
        BY <4>1, <4>2, HostDone DEF Queued
      <4>3. CASE StreamOf(P[i]) \in Streams
        <5>1. datum.at[k] \in Touched(StreamOut(P[i]))
          BY <4>1, <4>3, OutputIs
        <5>2. Conflict(StreamIn(c, P[i]), StreamOut(P[i]), HostIn(c, P[h + 1]), HostOut(P[h + 1]))
          BY <3>1, <5>1 DEF Conflict
        <5>3. Complete(P, c, i, (h + 1) - 1)
          BY <1>0, <4>1, <5>2 DEF Ordered
        <5>4. (h + 1) - 1 = h /\ Past(h, h) /\ h \in 0..h
          BY <1>0 DEF Past
        <5> QED BY <4>1, <5>3, <5>4, CompleteDone
      <4> QED BY <4>1, <4>2, <4>3
    <3> HIDE DEF datum
    <3> QED BY <1>0, <3>2, <3>3, Reads
  <2> QED BY <2>1, <2>3 DEF Holds
<1> QED BY <1>1, <1>2

(* And the program that called, when all is done. *)
LEMMA ResultFound ==
  ASSUME NEW P \in Code, NEW c, NEW given, NEW results_, NEW h \in 0..Len(P), h = Len(P),
         MemoryRight(P, given, h), number \in Nat, Fed(P, given, results_),
         \A i \in 1..h : Done(P, i), NEW d \in results_
  PROVE  Holds(d, number)
<1>0. Len(P) \in Nat
  BY DEF Code
<1>1. Expected(P, given, d, h + 1)
  BY DEF Fed
<1> SUFFICES ASSUME NEW k \in DOMAIN d.at
             PROVE  d.at[k] \in DOMAIN mem /\ mem[d.at[k]] = Content(d.is, number, k)
  BY DEF Holds
<1> DEFINE x == d.at[k]
<1>2. Before(P, given, x, h + 1) = Content(d.is, 1, k)
  BY <1>1 DEF Expected
<1>3. ASSUME NEW i \in Writers(P, x, h + 1)
      PROVE  Done(P, i) <=> i < h + 1
  <2>1. i \in 1..h
    BY <1>0 DEF Writers
  <2> QED BY <1>0, <2>1
<1>4. h + 1 \in 1..(h + 1)
  BY <1>0
<1> HIDE DEF x
<1>5. x \in DOMAIN mem /\ mem[x] = Content(d.is, number, k)
  BY <1>2, <1>3, <1>4, Reads
<1> QED BY <1>5 DEF x

-----------------------------------------------------------------------------
(* What the host puts into a queue. *)

(* What is in the queues after the host has put an operation there. *)
LEMMA AfterEnqueue ==
  ASSUME queue \in [Streams -> Seq(Operations)], NEW s \in Streams, NEW op \in Operations,
         Enqueue(s, op)
  PROVE  /\ \A t \in Streams : \A p \in DOMAIN queue'[t] :
              \/ p \in DOMAIN queue[t] /\ queue'[t][p] = queue[t][p]
              \/ t = s /\ p = Len(queue[s]) + 1 /\ queue'[t][p] = op
         /\ \A t \in Streams : \A p \in DOMAIN queue[t] :
              p \in DOMAIN queue'[t] /\ queue'[t][p] = queue[t][p]
         /\ Len(queue[s]) + 1 \in DOMAIN queue'[s] /\ queue'[s][Len(queue[s]) + 1] = op
         /\ Len(queue[s]) \in Nat
         /\ \A id : Pending(id)' <=> Pending(id) \/ id = op.id
<1>1. queue' = [queue EXCEPT ![s] = Append(queue[s], op)]
  BY DEF Enqueue
<1>2. queue'[s] = Append(queue[s], op) /\ \A t \in Streams : t # s => queue'[t] = queue[t]
  BY <1>1
<1>3. queue[s] \in Seq(Operations)
  OBVIOUS
<1> HIDE DEF Operations
<1>4. /\ \A p \in DOMAIN queue'[s] :
           \/ p \in DOMAIN queue[s] /\ queue'[s][p] = queue[s][p]
           \/ p = Len(queue[s]) + 1 /\ queue'[s][p] = op
      /\ \A p \in DOMAIN queue[s] : p \in DOMAIN queue'[s] /\ queue'[s][p] = queue[s][p]
      /\ Len(queue[s]) + 1 \in DOMAIN queue'[s] /\ queue'[s][Len(queue[s]) + 1] = op
      /\ Len(queue[s]) \in Nat
  BY <1>2, <1>3
<1>5. /\ \A t \in Streams : \A p \in DOMAIN queue'[t] :
           \/ p \in DOMAIN queue[t] /\ queue'[t][p] = queue[t][p]
           \/ t = s /\ p = Len(queue[s]) + 1 /\ queue'[t][p] = op
      /\ \A t \in Streams : \A p \in DOMAIN queue[t] :
           p \in DOMAIN queue'[t] /\ queue'[t][p] = queue[t][p]
  BY <1>2, <1>4
<1>6. \A id : Pending(id)' <=> Pending(id) \/ id = op.id
  BY <1>4, <1>5 DEF Pending
<1> QED BY <1>4, <1>5, <1>6

(* The queues after the host has put an instruction there. *)
LEMMA QueuedEnqueue ==
  ASSUME NEW P \in Code, NEW c, NEW h \in 0..Len(P), h < Len(P), Queued(P, c, h),
         number \in Nat, number' = number, queue \in [Streams -> Seq(Operations)],
         NEW s \in Streams, StreamOf(P[h + 1]) = s, NEW op \in Operations,
         op = OpAt(number, P, c, h + 1), Enqueue(s, op)
  PROVE  /\ Queued(P, c, h + 1)'
         /\ \A i \in 1..Len(P) : Done(P, i)' <=> Done(P, i) /\ i # h + 1
<1>0. Len(P) \in Nat /\ h + 1 \in 1..Len(P) /\ op.id = IdAt(number, P, h + 1)
  BY OpFields DEF Code
<1>1. /\ \A t \in Streams : \A p \in DOMAIN queue'[t] :
           \/ p \in DOMAIN queue[t] /\ queue'[t][p] = queue[t][p]
           \/ t = s /\ p = Len(queue[s]) + 1 /\ queue'[t][p] = op
      /\ \A t \in Streams : \A p \in DOMAIN queue[t] :
           p \in DOMAIN queue'[t] /\ queue'[t][p] = queue[t][p]
      /\ \A id : Pending(id)' <=> Pending(id) \/ id = op.id
  BY AfterEnqueue
<1>l. DOMAIN queue[s] = 1..Len(queue[s]) /\ Len(queue[s]) \in Nat
  OBVIOUS
<1>2. \A i \in 1..Len(P) : Done(P, i)' <=> Done(P, i) /\ i # h + 1
  <2> TAKE i \in 1..Len(P)
  <2>1. Done(P, i)' <=> Done(P, i) /\ IdAt(number, P, i) # IdAt(number, P, h + 1)
    BY <1>0, <1>1 DEF Done, IdAt
  <2> QED BY <1>0, <2>1, Identifiers
<1>3. FromProgram(P, c, h + 1)'
  <2> SUFFICES ASSUME NEW t \in Streams, NEW p \in DOMAIN queue'[t]
               PROVE  \/ t = "comp" /\ IsLeft(queue'[t][p], number)
                      \/ \E i \in 1..(h + 1) :
                           StreamOf(P[i]) = t /\ queue'[t][p] = OpAt(number, P, c, i)
    BY DEF FromProgram
  <2>1. CASE p \in DOMAIN queue[t] /\ queue'[t][p] = queue[t][p]
    BY <2>1 DEF Queued, FromProgram
  <2>2. CASE t = s /\ queue'[t][p] = op
    BY <2>2, <1>0
  <2> QED BY <1>1, <2>1, <2>2
<1>4. InOrder'
  <2> SUFFICES ASSUME NEW t \in Streams, NEW p \in DOMAIN queue'[t], NEW q \in DOMAIN queue'[t],
                      p < q
               PROVE  Earlier(queue'[t][p].id, queue'[t][q].id)
    BY DEF InOrder
  <2>0. DOMAIN queue[t] = 1..Len(queue[t]) /\ Len(queue[t]) \in Nat
    OBVIOUS
  <2>1. CASE /\ p \in DOMAIN queue[t] /\ queue'[t][p] = queue[t][p]
             /\ q \in DOMAIN queue[t] /\ queue'[t][q] = queue[t][q]
    BY <2>1 DEF Queued, InOrder
  <2>2. CASE /\ p \in DOMAIN queue[t] /\ queue'[t][p] = queue[t][p]
             /\ t = s /\ queue'[t][q] = op
    <3>1. CASE IsLeft(queue[t][p], number)
      <4>1. queue[t][p].id[1] < number
        BY <3>1 DEF IsLeft
      <4>2. op.id[1] = number
        BY <1>0, Identifiers
      <4> QED BY <2>2, <4>1, <4>2 DEF Earlier
    <3>2. ASSUME NEW i \in 1..h, queue[t][p] = OpAt(number, P, c, i)
          PROVE  Earlier(queue'[t][p].id, queue'[t][q].id)
      <4>1. i \in 1..Len(P) /\ i < h + 1
        BY <1>0
      <4>2. Earlier(IdAt(number, P, i), IdAt(number, P, h + 1))
        BY <1>0, <4>1, Identifiers
      <4> QED BY <1>0, <2>2, <3>2, <4>2, OpFields
    <3> QED BY <2>2, <3>1, <3>2 DEF Queued, FromProgram
  <2>3. CASE t = s /\ p = Len(queue[s]) + 1
    <3>1. q \in DOMAIN queue[s] \/ q = Len(queue[s]) + 1
      BY <1>1, <2>3
    <3> QED BY <2>3, <3>1, <1>l
  <2> QED BY <1>1, <2>1, <2>2, <2>3
<1>5. NoneSkipped(P, h + 1)'
  <2> SUFFICES ASSUME NEW t \in Streams, NEW p \in DOMAIN queue'[t], NEW i \in 1..(h + 1),
                      StreamOf(P[i]) = t, Earlier(queue'[t][p].id, IdAt(number, P, i))
               PROVE  ~Done(P, i)'
    BY DEF NoneSkipped
  <2>0. i \in 1..Len(P)
    BY <1>0
  <2>1. CASE i = h + 1
    BY <2>0, <2>1, <1>2
  <2>2. CASE i \in 1..h /\ p \in DOMAIN queue[t] /\ queue'[t][p] = queue[t][p]
    <3>1. ~Done(P, i)
      BY <2>2 DEF Queued, NoneSkipped
    <3> QED BY <2>0, <3>1, <1>2
  <2>3. CASE i \in 1..h /\ queue'[t][p] = op
    <3>1. Earlier(IdAt(number, P, h + 1), IdAt(number, P, i))
      BY <2>3, <1>0
    <3>2. h + 1 < i
      BY <1>0, <2>0, <3>1, Identifiers
    <3> QED BY <2>3, <3>2
  <2> QED BY <1>1, <2>1, <2>2, <2>3
<1> QED BY <1>2, <1>3, <1>4, <1>5 DEF Queued

(* The queues after an instruction of the host itself. *)
LEMMA QueuedSame ==
  ASSUME NEW P \in Code, NEW c, NEW h \in 0..Len(P), h < Len(P), Queued(P, c, h),
         number \in Nat, number' = number, queue' = queue, StreamOf(P[h + 1]) \notin Streams
  PROVE  /\ Queued(P, c, h + 1)'
         /\ \A i \in 1..Len(P) : Done(P, i)' <=> Done(P, i)
<1>1. \A i \in 1..Len(P) : Done(P, i)' <=> Done(P, i)
  BY DEF Done, Pending, IdAt
<1>2. FromProgram(P, c, h + 1)'
  BY DEF Queued, FromProgram, Code
<1>3. InOrder'
  BY DEF Queued, InOrder
<1>4. NoneSkipped(P, h + 1)'
  <2> SUFFICES ASSUME NEW t \in Streams, NEW p \in DOMAIN queue[t], NEW i \in 1..(h + 1),
                      StreamOf(P[i]) = t, Earlier(queue[t][p].id, IdAt(number, P, i))
               PROVE  ~Done(P, i)'
    BY DEF NoneSkipped
  <2>1. i # h + 1
    OBVIOUS
  <2>2. i \in 1..h /\ i \in 1..Len(P)
    BY <2>1 DEF Code
  <2>3. ~Done(P, i)
    BY <2>2 DEF Queued, NoneSkipped
  <2> QED BY <2>2, <2>3, <1>1
<1> QED BY <1>1, <1>2, <1>3, <1>4 DEF Queued

-----------------------------------------------------------------------------
(* What the host waits for, and what it has recorded. *)

(* What the host has waited for stays done when it goes on. *)
LEMMA NextWaits ==
  ASSUME NEW P \in Code, NEW c, NEW h \in 0..Len(P), h < Len(P), Queued(P, c, h),
         Waits_(P, c, h), number \in Nat, number' = number, Running,
         \A i \in 1..h : Done(P, i)' <=> Done(P, i),
         P[h + 1].kind = "wait" => ~Done(P, h + 1)',
         AwaitedBy(P, c, h + 1) # 0 => awaited' = IdAt(number, P, AwaitedBy(P, c, h + 1)),
         Drains(c, P[h + 1]) => queue["comp"] = <<>>,
         \A q \in DOMAIN queue'["comp"] :
           \/ queue'["comp"][q].id[1] = number
           \/ q \in DOMAIN queue["comp"] /\ queue'["comp"][q] = queue["comp"][q]
  PROVE  Waits_(P, c, h + 1)'
<1>0. Len(P) \in Nat /\ h \in Nat
  BY DEF Code
<1>1. WaitsDone(P, h + 1)'
  <2> SUFFICES ASSUME NEW w \in 1..(h + 1), P[w].kind = "wait", RecordFor(P, w) # 0, Done(P, w)'
               PROVE  Done(P, RecordFor(P, w))'
    BY DEF WaitsDone
  <2>1. w \in 1..h
    BY <1>0
  <2>2. RecordFor(P, w) \in 1..h
    BY <2>1, RecordForIs
  <2> QED BY <2>1, <2>2 DEF Waits_, WaitsDone
<1>2. AwaitedDone(P, c, h + 1)'
  <2> SUFFICES ASSUME NEW p \in 1..(h + 1), AwaitedBy(P, c, p) # 0
               PROVE  \/ Done(P, AwaitedBy(P, c, p))'
                      \/ p = h + 1 /\ awaited' = IdAt(number', P, AwaitedBy(P, c, p))
    BY DEF AwaitedDone
  <2>1. CASE p = h + 1
    BY <2>1
  <2>2. CASE p \in 1..h
    <3>1. Past(h, h) /\ h \in 0..h
      BY <1>0 DEF Past
    <3>2. AwaitedBy(P, c, p) \in 1..h /\ Done(P, AwaitedBy(P, c, p))
      BY <2>2, <3>1, AwaitedIsDone DEF Waits_
    <3> QED BY <3>2
  <2> QED BY <1>0, <2>1, <2>2
<1>3. Drained(P, c, h + 1)'
  <2> SUFFICES ASSUME NEW p \in 1..(h + 1), Drains(c, P[p])
               PROVE  /\ \A i \in 1..(p - 1) : StreamOf(P[i]) = "comp" => Done(P, i)'
                      /\ \A q \in DOMAIN queue'["comp"] : queue'["comp"][q].id[1] = number'
    BY DEF Drained
  <2>1. CASE p \in 1..h
    <3>1. /\ \A i \in 1..(p - 1) : StreamOf(P[i]) = "comp" => Done(P, i)
          /\ \A q \in DOMAIN queue["comp"] : queue["comp"][q].id[1] = number
      BY <2>1 DEF Waits_, Drained
    <3> QED BY <1>0, <2>1, <3>1
  <2>2. CASE p = h + 1
    <3>1. queue["comp"] = <<>>
      BY <2>2
    <3>2. ASSUME NEW i \in 1..h, StreamOf(P[i]) = "comp" PROVE Done(P, i)
      <4>1. i \in 1..Len(P)
        BY <1>0
      <4>2. ASSUME ~Done(P, i) PROVE FALSE
        <5>1. \E q \in DOMAIN queue["comp"] : queue["comp"][q] = OpAt(number, P, c, i)
          BY <3>2, <4>1, <4>2, InQueue DEF Queued
        <5> QED BY <3>1, <5>1
      <4> QED BY <4>2
    <3> QED BY <1>0, <2>2, <3>1, <3>2
  <2> QED BY <1>0, <2>1, <2>2
<1> QED BY <1>1, <1>2, <1>3 DEF Waits_

(* The records after one more instruction. *)
LEMMA RecordsNext ==
  ASSUME NEW P, NEW e, NEW h \in Nat
  PROVE  /\ P[h + 1].kind = "record" /\ P[h + 1].event = e =>
              Records(P, e, h + 2) = Records(P, e, h + 1) \cup {h + 1}
         /\ ~(P[h + 1].kind = "record" /\ P[h + 1].event = e) =>
              Records(P, e, h + 2) = Records(P, e, h + 1)
<1>1. 1..((h + 2) - 1) = 1..((h + 1) - 1) \cup {h + 1}
  OBVIOUS
<1> QED BY <1>1 DEF Records

(* The records made so far. *)
LEMMA NextEvents ==
  ASSUME NEW P \in Code, NEW h \in 0..Len(P), h < Len(P), EventsRight(P, h),
         number \in Nat, number' = number, event \in [Events -> Ids \cup {<<>>}],
         \/ P[h + 1].kind # "record" /\ event' = event
         \/ /\ P[h + 1].kind = "record"
            /\ event' = [event EXCEPT ![P[h + 1].event] = IdAt(number, P, h + 1)]
  PROVE  EventsRight(P, h + 1)'
<1>0. Len(P) \in Nat /\ h \in Nat /\ (h + 1) + 1 = h + 2
  BY DEF Code
<1> SUFFICES ASSUME NEW e \in Events
             PROVE  \/ event'[e] = <<>> /\ Records(P, e, h + 2) = {}
                    \/ \E r \in Records(P, e, h + 2) :
                         IsLast(r, Records(P, e, h + 2)) /\ event'[e] = IdAt(number, P, r)
  BY <1>0 DEF EventsRight, IdAt
<1>1. CASE P[h + 1].kind = "record" /\ P[h + 1].event = e
  <2>1. Records(P, e, h + 2) = Records(P, e, h + 1) \cup {h + 1}
    BY <1>0, <1>1, RecordsNext
  <2>2. IsLast(h + 1, Records(P, e, h + 2))
    BY <1>0, <2>1 DEF IsLast, Records
  <2>3. event'[e] = IdAt(number, P, h + 1)
    BY <1>1
  <2> QED BY <2>1, <2>2, <2>3
<1>2. CASE ~(P[h + 1].kind = "record" /\ P[h + 1].event = e)
  <2>1. Records(P, e, h + 2) = Records(P, e, h + 1)
    BY <1>0, <1>2, RecordsNext
  <2>2. event'[e] = event[e]
    BY <1>2
  <2> QED BY <2>1, <2>2 DEF EventsRight
<1> QED BY <1>1, <1>2

(* The record that an event stands for. *)
LEMMA EventFor ==
  ASSUME NEW P \in Code, NEW h \in 0..Len(P), h < Len(P), EventsRight(P, h),
         P[h + 1].event \in Events
  PROVE  event[P[h + 1].event]
         = IF RecordFor(P, h + 1) # 0 THEN IdAt(number, P, RecordFor(P, h + 1)) ELSE <<>>
<1>0. Len(P) \in Nat /\ h \in Nat
  BY DEF Code
<1> DEFINE e == P[h + 1].event
           R == Records(P, e, h + 1)
<1>1. R \in SUBSET Nat /\ 0 \notin R
  BY DEF Records
<1>2. CASE event[e] = <<>> /\ R = {}
  <2>1. RecordFor(P, h + 1) = 0
    BY <1>1, <1>2, LastIsLast DEF RecordFor
  <2> QED BY <1>2, <2>1
<1>3. ASSUME NEW r \in R, IsLast(r, R), event[e] = IdAt(number, P, r)
      PROVE  RecordFor(P, h + 1) = r /\ r # 0
  BY <1>1, <1>3, LastIsLast DEF RecordFor
<1> QED BY <1>2, <1>3 DEF EventsRight

(* The writers after one more instruction. *)
LEMMA WritersNext ==
  ASSUME NEW P, NEW x, NEW h \in Nat
  PROVE  /\ x \in Touched(Output(P[h + 1])) =>
              Writers(P, x, h + 2) = Writers(P, x, h + 1) \cup {h + 1}
         /\ x \notin Touched(Output(P[h + 1])) =>
              Writers(P, x, h + 2) = Writers(P, x, h + 1)
<1>1. 1..((h + 2) - 1) = 1..((h + 1) - 1) \cup {h + 1}
  OBVIOUS
<1> QED BY <1>1 DEF Writers

(* Nothing is written by an instruction that is not executed at once. *)
LEMMA NextMemory ==
  ASSUME NEW P \in Code, NEW given, NEW h \in 0..Len(P), h < Len(P), MemoryRight(P, given, h),
         number \in Nat, number' = number, mem' = mem,
         \A i \in 1..h : Done(P, i)' <=> Done(P, i),
         ~Done(P, h + 1)' \/ Output(P[h + 1]) = <<>>
  PROVE  MemoryRight(P, given, h + 1)'
<1>0. Len(P) \in Nat /\ h \in Nat /\ (h + 1) + 1 = h + 2
  BY DEF Code
<1> SUFFICES ASSUME NEW x \in CellsTouched(P, given)
             PROVE  /\ \A i \in Writers(P, x, h + 2) : Done(P, i)' =>
                         /\ x \in DOMAIN mem
                         /\ (\A j \in Writers(P, x, h + 2) : j > i => ~Done(P, j)') =>
                              mem[x] = Stored(Output(P[i]), number, x)
                    /\ (\A i \in Writers(P, x, h + 2) : ~Done(P, i)') /\ x \in Touched(given) =>
                         x \in DOMAIN mem /\ mem[x] = Stored(given, number, x)
  BY <1>0 DEF MemoryRight, CellsTouched
<1>1. Writers(P, x, h + 1) \subseteq 1..h
  BY <1>0 DEF Writers
<1>2. Touched(<<>>) = {}
  BY DEF Touched
<1>3. \/ Writers(P, x, h + 2) = Writers(P, x, h + 1)
      \/ /\ Writers(P, x, h + 2) = Writers(P, x, h + 1) \cup {h + 1}
         /\ ~Done(P, h + 1)'
  BY <1>0, <1>2, WritersNext
<1>4. /\ \A i \in Writers(P, x, h + 1) : Done(P, i) =>
           /\ x \in DOMAIN mem
           /\ (\A j \in Writers(P, x, h + 1) : j > i => ~Done(P, j)) =>
                mem[x] = Stored(Output(P[i]), number, x)
      /\ (\A i \in Writers(P, x, h + 1) : ~Done(P, i)) /\ x \in Touched(given) =>
           x \in DOMAIN mem /\ mem[x] = Stored(given, number, x)
  BY DEF MemoryRight
<1> QED BY <1>1, <1>3, <1>4

(* The host writes at once. *)
LEMMA HostMemory ==
  ASSUME NEW P \in Code, NEW given, NEW h \in 0..Len(P), h < Len(P), MemoryRight(P, given, h),
         number \in Nat, number' = number, Store(Output(P[h + 1]), number),
         \A i \in 1..h : Done(P, i)' <=> Done(P, i), Done(P, h + 1)'
  PROVE  MemoryRight(P, given, h + 1)'
<1>0. Len(P) \in Nat /\ h \in Nat /\ (h + 1) + 1 = h + 2
  BY DEF Code
<1> SUFFICES ASSUME NEW x \in CellsTouched(P, given)
             PROVE  /\ \A i \in Writers(P, x, h + 2) : Done(P, i)' =>
                         /\ x \in DOMAIN mem'
                         /\ (\A j \in Writers(P, x, h + 2) : j > i => ~Done(P, j)') =>
                              mem'[x] = Stored(Output(P[i]), number, x)
                    /\ (\A i \in Writers(P, x, h + 2) : ~Done(P, i)') /\ x \in Touched(given) =>
                         x \in DOMAIN mem' /\ mem'[x] = Stored(given, number, x)
  BY <1>0 DEF MemoryRight, CellsTouched
<1>1. Writers(P, x, h + 1) \subseteq 1..h
  BY <1>0 DEF Writers
<1>2. CASE x \in Touched(Output(P[h + 1]))
  <2>1. Writers(P, x, h + 2) = Writers(P, x, h + 1) \cup {h + 1}
    BY <1>0, <1>2, WritersNext
  <2>2. x \in DOMAIN mem' /\ mem'[x] = Stored(Output(P[h + 1]), number, x)
    BY <1>2 DEF Store
  <2> QED BY <1>0, <1>1, <2>1, <2>2
<1>3. CASE x \notin Touched(Output(P[h + 1]))
  <2>1. Writers(P, x, h + 2) = Writers(P, x, h + 1)
    BY <1>0, <1>3, WritersNext
  <2>2. x \in DOMAIN mem => x \in DOMAIN mem' /\ mem'[x] = mem[x]
    BY <1>3 DEF Store
  <2>3. /\ \A i \in Writers(P, x, h + 1) : Done(P, i) =>
             /\ x \in DOMAIN mem
             /\ (\A j \in Writers(P, x, h + 1) : j > i => ~Done(P, j)) =>
                  mem[x] = Stored(Output(P[i]), number, x)
        /\ (\A i \in Writers(P, x, h + 1) : ~Done(P, i)) /\ x \in Touched(given) =>
             x \in DOMAIN mem /\ mem[x] = Stored(given, number, x)
    BY DEF MemoryRight
  <2> QED BY <1>1, <2>1, <2>2, <2>3
<1> QED BY <1>2, <1>3

-----------------------------------------------------------------------------
(* A step of the host. *)

(* The host puts its next instruction in a stream. *)
LEMMA CoreEnqueue ==
  ASSUME TInv, NEW P \in Code, NEW c \in Call, NEW given, NEW h \in 0..Len(P),
         Core(P, c, given, h), call = c, todo = SubSeq(P, h + 1, Len(P)), todo # <<>>, Running,
         NEW s \in Streams, StreamOf(P[h + 1]) = s, NEW op \in Operations,
         op = OpAt(number, P, c, h + 1), Enqueue(s, op), Advance, mem' = mem,
         AwaitedBy(P, c, h + 1) # 0 => awaited' = IdAt(number, P, AwaitedBy(P, c, h + 1)),
         Drains(c, P[h + 1]) => queue["comp"] = <<>>,
         \/ P[h + 1].kind # "record" /\ event' = event
         \/ /\ P[h + 1].kind = "record"
            /\ event' = [event EXCEPT ![P[h + 1].event] = IdAt(number, P, h + 1)]
  PROVE  Core(P, c, given, h + 1)'
<1>0. Len(P) \in Nat /\ number \in Nat /\ number' = number /\ h < Len(P) /\ h + 1 \in 1..Len(P)
  BY Position DEF Code, TInv, Advance
<1>1. queue \in [Streams -> Seq(Operations)] /\ event \in [Events -> Ids \cup {<<>>}]
  BY DEF TInv
<1>c. Queued(P, c, h) /\ EventsRight(P, h) /\ Waits_(P, c, h) /\ MemoryRight(P, given, h)
      /\ number \in 1..MaxCalls
  BY DEF Core
<1>2. /\ Queued(P, c, h + 1)'
      /\ \A i \in 1..Len(P) : Done(P, i)' <=> Done(P, i) /\ i # h + 1
  BY <1>0, <1>1, <1>c, QueuedEnqueue
<1>3. /\ \A i \in 1..h : Done(P, i)' <=> Done(P, i)
      /\ ~Done(P, h + 1)'
  BY <1>0, <1>2
<1>4. \A q \in DOMAIN queue'["comp"] :
        \/ queue'["comp"][q].id[1] = number
        \/ q \in DOMAIN queue["comp"] /\ queue'["comp"][q] = queue["comp"][q]
  <2>1. op.id[1] = number
    <3>1. op.id = IdAt(number, P, h + 1)
      BY OpFields
    <3> QED BY <3>1 DEF IdAt
  <2>2. "comp" \in Streams
    BY DEF Streams
  <2>3. \A q \in DOMAIN queue'["comp"] :
          \/ q \in DOMAIN queue["comp"] /\ queue'["comp"][q] = queue["comp"][q]
          \/ queue'["comp"][q] = op
    BY <1>1, <2>2, AfterEnqueue
  <2> QED BY <2>1, <2>3
<1>5. Waits_(P, c, h + 1)'
  BY <1>0, <1>c, <1>3, <1>4, NextWaits
<1>6. EventsRight(P, h + 1)'
  BY <1>0, <1>1, <1>c, NextEvents
<1>7. MemoryRight(P, given, h + 1)'
  BY <1>0, <1>c, <1>3, NextMemory
<1>8. call' = c /\ todo' = SubSeq(P, (h + 1) + 1, Len(P))
  <2>1. (h + 1) + 1 = h + 2
    BY <1>0
  <2> QED BY <2>1, Position DEF Advance
<1> QED BY <1>0, <1>c, <1>2, <1>5, <1>6, <1>7, <1>8 DEF Core

(* Or goes on without. *)
LEMMA CoreSame ==
  ASSUME TInv, NEW P \in Code, NEW c \in Call, NEW given, NEW h \in 0..Len(P),
         Core(P, c, given, h), call = c, todo = SubSeq(P, h + 1, Len(P)), todo # <<>>, Running,
         StreamOf(P[h + 1]) \notin Streams, queue' = queue, Advance, event' = event,
         AwaitedBy(P, c, h + 1) # 0 => awaited' = IdAt(number, P, AwaitedBy(P, c, h + 1)),
         \/ mem' = mem /\ Output(P[h + 1]) = <<>>
         \/ Store(Output(P[h + 1]), number)
  PROVE  Core(P, c, given, h + 1)'
<1>0. Len(P) \in Nat /\ number \in Nat /\ number' = number /\ h < Len(P) /\ h + 1 \in 1..Len(P)
  BY Position DEF Code, TInv, Advance
<1>1. event \in [Events -> Ids \cup {<<>>}]
  BY DEF TInv
<1>c. Queued(P, c, h) /\ EventsRight(P, h) /\ Waits_(P, c, h) /\ MemoryRight(P, given, h)
      /\ number \in 1..MaxCalls
  BY DEF Core
<1>2. /\ Queued(P, c, h + 1)'
      /\ \A i \in 1..Len(P) : Done(P, i)' <=> Done(P, i)
  BY <1>0, <1>c, QueuedSame
<1>3. \A i \in 1..h : Done(P, i)' <=> Done(P, i)
  BY <1>0, <1>2
<1>4. P[h + 1].kind \notin {"launch", "copy", "record", "wait"}
  BY <1>0, InstructionStream
<1>5. Waits_(P, c, h + 1)'
  <2>1. ~Drains(c, P[h + 1])
    BY <1>4 DEF Drains, IsStaged
  <2> QED BY <1>0, <1>c, <1>3, <1>4, <2>1, NextWaits
<1>6. EventsRight(P, h + 1)'
  BY <1>0, <1>1, <1>c, <1>4, NextEvents
<1>7. MemoryRight(P, given, h + 1)'
  <2>1. CASE mem' = mem /\ Output(P[h + 1]) = <<>>
    BY <1>0, <1>c, <1>3, <2>1, NextMemory
  <2>2. CASE Store(Output(P[h + 1]), number)
    <3>1. Done(P, h + 1)
      BY <1>0, <1>c, HostDone DEF Queued
    <3>2. Done(P, h + 1)'
      BY <1>0, <1>2, <3>1
    <3> QED BY <1>0, <1>c, <1>3, <2>2, <3>2, HostMemory
  <2> QED BY <2>1, <2>2
<1>8. call' = c /\ todo' = SubSeq(P, (h + 1) + 1, Len(P))
  <2>1. (h + 1) + 1 = h + 2
    BY <1>0
  <2> QED BY <2>1, Position DEF Advance
<1> QED BY <1>0, <1>c, <1>2, <1>5, <1>6, <1>7, <1>8 DEF Core

(* The instructions of the host. *)
HostStep == LaunchKernel \/ Copy \/ RecordEvent \/ WaitEvent \/ SynchronizeEvent \/ ComputeOnHost

(* Each instruction of the host keeps what a call in progress satisfies. *)
LEMMA HostCore ==
  ASSUME TInv, NEW P \in Code, NEW c \in Call, NEW given, NEW results_, NEW h \in 0..Len(P),
         Core(P, c, given, h), Ordered(P, c), Fed(P, given, results_), HostStep
  PROVE  h < Len(P) /\ Core(P, c, given, h + 1)'
<1>a. todo # <<>> /\ Running
  BY DEF HostStep, LaunchKernel, Copy, RecordEvent, WaitEvent, SynchronizeEvent, ComputeOnHost,
         Next_is
<1>b. call = c /\ todo = SubSeq(P, h + 1, Len(P))
  BY <1>a DEF Core
<1> DEFINE x == P[h + 1]
<1>0. /\ Len(P) \in Nat /\ h < Len(P) /\ h + 1 \in 1..Len(P) /\ Head(todo) = x
      /\ <<number, Len(todo)>> = IdAt(number, P, h + 1)
  BY <1>a, <1>b, Position DEF Code
<1>1. x \in Instruction
  BY <1>0, InstructionStream
<1>h. ASSUME NEW out PROVE Outcome(HostIn(c, x), out, number) = out
  <2>1. Queued(P, c, h) /\ Waits_(P, c, h) /\ MemoryRight(P, given, h) /\ number \in Nat
    BY DEF Core, TInv
  <2> QED BY <1>a, <1>0, <2>1, HostFinds
<1> HIDE DEF x
<1>i. <<number, Len(todo)>> \in Ids /\ <<>> \in Datas
  BY HeadIn, <1>a DEF TInv, Ids, Datas
<1>o. ASSUME NEW in \in Datas, NEW out \in Datas, NEW after \in Ids \cup {<<>>}
      PROVE  Operation(in, out, after) \in Operations
  BY <1>i, <1>o DEF Operation, Operations
<1>2. CASE LaunchKernel
  <2> USE <1>2
  <2>1. x.kind = "launch" /\ x.in \in Datas /\ x.out \in Datas
    BY <1>0, <1>1, InstructionFields DEF LaunchKernel, Next_is
  <2> DEFINE op == Operation(x.in, x.out, <<>>)
  <2>2. op \in Operations
    BY <1>o, <2>1
  <2>3. op = OpAt(number, P, c, h + 1)
    BY <1>0, <2>1 DEF Operation, OpAt, StreamIn, StreamOut, x
  <2>4. StreamOf(x) = "comp" /\ "comp" \in Streams
    BY <2>1 DEF StreamOf, Streams
  <2>5. AwaitedBy(P, c, h + 1) = 0 /\ ~Drains(c, x)
    BY <2>1 DEF AwaitedBy, Drains, IsStaged, x
  <2>6. Enqueue("comp", op) /\ Advance /\ mem' = mem /\ event' = event
    BY <1>0 DEF LaunchKernel
  <2>7. x.kind # "record"
    BY <2>1
  <2> HIDE DEF op
  <2> QED BY <1>a, <1>b, <1>0, <2>2, <2>3, <2>4, <2>5, <2>6, <2>7, CoreEnqueue DEF x
<1>3. CASE Copy
  <2> USE <1>3
  <2>1. x.kind = "copy" /\ x.in \in Datas /\ x.out \in Datas /\ x.how \in {"sync", "async"}
    BY <1>0, <1>1, InstructionFields DEF Copy, Next_is
  <2> DEFINE op == IF Staged(c, x) THEN Operation(<<>>, Outcome(x.in, x.out, number), <<>>)
                   ELSE Operation(x.in, x.out, <<>>)
  <2>2. Staged(c, x) => Outcome(x.in, x.out, number) = x.out
    <3>1. Staged(c, x) => HostIn(c, x) = x.in
      BY <2>1 DEF HostIn, IsStaged
    <3>2. \A out : Outcome(HostIn(c, x), out, number) = out
      BY <1>h DEF x
    <3> QED BY <3>1, <3>2
  <2>3. op \in Operations
    BY <1>o, <1>i, <2>1, <2>2
  <2>4. op = OpAt(number, P, c, h + 1)
    BY <1>0, <2>1, <2>2 DEF Operation, OpAt, StreamIn, StreamOut, IsStaged, x
  <2>5. StreamOf(x) = CopyStream(x) /\ CopyStream(x) \in Streams
    BY <2>1 DEF StreamOf, CopyStream, Streams
  <2>6. Enqueue(CopyStream(x), op) /\ Advance /\ mem' = mem /\ event' = event
    BY <1>0, <1>b DEF Copy
  <2>7. AwaitedBy(P, c, h + 1) # 0 => awaited' = IdAt(number, P, AwaitedBy(P, c, h + 1))
    <3>1. AwaitedBy(P, c, h + 1) # 0 => AwaitedBy(P, c, h + 1) = h + 1 /\ Waits(c, x) /\ ~Staged(c, x)
      BY <2>1 DEF AwaitedBy, x
    <3>2. Waits(c, x) /\ ~Staged(c, x) => awaited' = op.id
      BY <1>0, <1>b DEF Copy
    <3>3. op.id = IdAt(number, P, h + 1)
      BY <2>4, OpFields
    <3> QED BY <3>1, <3>2, <3>3
  <2>8. Drains(c, x) => queue["comp"] = <<>>
    <3>1. Drains(c, x) => Staged(c, x) /\ x.how = "sync"
      BY <2>1, <2>5 DEF Drains, IsStaged, CopyStream
    <3> QED BY <1>0, <1>b, <3>1 DEF Copy
  <2>9. x.kind # "record"
    BY <2>1
  <2> HIDE DEF op
  <2> QED BY <1>a, <1>b, <1>0, <2>3, <2>4, <2>5, <2>6, <2>7, <2>8, <2>9, CoreEnqueue DEF x
<1>4. CASE RecordEvent
  <2> USE <1>4
  <2>1. x.kind = "record" /\ x.stream \in Streams /\ x.event \in Events
    BY <1>0, <1>1, InstructionFields DEF RecordEvent, Next_is
  <2> DEFINE op == Operation(<<>>, <<>>, <<>>)
  <2>2. op \in Operations
    BY <1>o, <1>i
  <2>3. op = OpAt(number, P, c, h + 1)
    BY <1>0, <2>1 DEF Operation, OpAt, StreamIn, StreamOut, x
  <2>4. StreamOf(x) = x.stream
    BY <2>1 DEF StreamOf
  <2>5. AwaitedBy(P, c, h + 1) = 0 /\ ~Drains(c, x)
    BY <2>1 DEF AwaitedBy, Drains, IsStaged, x
  <2>6. Enqueue(x.stream, op) /\ Advance /\ mem' = mem /\ event' = [event EXCEPT ![x.event] = op.id]
    BY <1>0 DEF RecordEvent
  <2>7. op.id = IdAt(number, P, h + 1)
    BY <2>3, OpFields
  <2> HIDE DEF op
  <2> QED BY <1>a, <1>b, <1>0, <2>1, <2>2, <2>3, <2>4, <2>5, <2>6, <2>7, CoreEnqueue DEF x
<1>5. CASE WaitEvent
  <2> USE <1>5
  <2>1. x.kind = "wait" /\ x.stream \in Streams /\ x.event \in Events
    BY <1>0, <1>1, InstructionFields DEF WaitEvent, Next_is
  <2> DEFINE op == Operation(<<>>, <<>>, event[x.event])
  <2>2. op \in Operations
    BY <1>o, <1>i, <2>1 DEF TInv
  <2>3. event[x.event] = IF RecordFor(P, h + 1) # 0 THEN IdAt(number, P, RecordFor(P, h + 1)) ELSE <<>>
    BY <1>0, <2>1, EventFor DEF Core, x
  <2>4. op = OpAt(number, P, c, h + 1)
    BY <1>0, <2>1, <2>3 DEF Operation, OpAt, StreamIn, StreamOut, x
  <2>5. StreamOf(x) = x.stream
    BY <2>1 DEF StreamOf
  <2>6. AwaitedBy(P, c, h + 1) = 0 /\ ~Drains(c, x)
    BY <2>1 DEF AwaitedBy, Drains, IsStaged, x
  <2>7. Enqueue(x.stream, op) /\ Advance /\ mem' = mem /\ event' = event
    BY <1>0 DEF WaitEvent
  <2>8. x.kind # "record"
    BY <2>1
  <2> HIDE DEF op
  <2> QED BY <1>a, <1>b, <1>0, <2>1, <2>2, <2>4, <2>5, <2>6, <2>7, <2>8, CoreEnqueue DEF x
<1>6. CASE SynchronizeEvent
  <2> USE <1>6
  <2>1. x.kind = "synchronize" /\ x.event \in Events
    BY <1>0, <1>1, InstructionFields DEF SynchronizeEvent, Next_is
  <2>2. event[x.event] = IF RecordFor(P, h + 1) # 0 THEN IdAt(number, P, RecordFor(P, h + 1)) ELSE <<>>
    BY <1>0, <2>1, EventFor DEF Core, x
  <2>3. AwaitedBy(P, c, h + 1) = RecordFor(P, h + 1)
    BY <2>1 DEF AwaitedBy, x
  <2>4. StreamOf(x) \notin Streams /\ Output(x) = <<>>
    BY <2>1 DEF StreamOf, Streams, Output, Works
  <2>5. awaited' = event[x.event] /\ Advance /\ queue' = queue /\ mem' = mem /\ event' = event
    BY <1>0 DEF SynchronizeEvent
  <2> QED BY <1>a, <1>b, <1>0, <2>2, <2>3, <2>4, <2>5, CoreSame DEF x
<1>7. CASE ComputeOnHost
  <2> USE <1>7
  <2>1. x.kind = "host"
    BY <1>0 DEF ComputeOnHost, Next_is
  <2>2. StreamOf(x) \notin Streams /\ Output(x) = x.out /\ HostIn(c, x) = x.in
        /\ AwaitedBy(P, c, h + 1) = 0
    BY <2>1 DEF StreamOf, Streams, Output, Works, HostIn, AwaitedBy, x
  <2>3. Outcome(x.in, x.out, number) = x.out
    <3>1. \A out : Outcome(HostIn(c, x), out, number) = out
      BY <1>h DEF x
    <3> QED BY <2>2, <3>1
  <2>4. Store(Output(x), number) /\ Advance /\ queue' = queue /\ event' = event
    BY <1>0, <2>2, <2>3 DEF ComputeOnHost, Perform
  <2> QED BY <1>a, <1>b, <1>0, <2>2, <2>4, CoreSame DEF x
<1> QED BY <1>0, <1>2, <1>3, <1>4, <1>5, <1>6, <1>7 DEF HostStep

-----------------------------------------------------------------------------
(* A queue without its first operation. *)

(* What a stream has left after its next operation. *)
LEMMA AfterExecute ==
  ASSUME queue \in [Streams -> Seq(Operations)], NEW s \in Streams, queue[s] # <<>>,
         queue' = [queue EXCEPT ![s] = Tail(queue[s])]
  PROVE  /\ \A t \in Streams : \A p \in DOMAIN queue'[t] :
              IF t = s THEN p + 1 \in DOMAIN queue[s] /\ queue'[s][p] = queue[s][p + 1]
                            /\ p \in Nat /\ 1 < p + 1
              ELSE p \in DOMAIN queue[t] /\ queue'[t] = queue[t]
         /\ 1 \in DOMAIN queue[s] /\ Head(queue[s]) = queue[s][1]
         /\ \A p \in DOMAIN queue[s] : p # 1 =>
              p - 1 \in DOMAIN queue'[s] /\ queue'[s][p - 1] = queue[s][p]
         /\ \A t \in Streams : t # s => queue'[t] = queue[t]
<1>1. queue[s] \in Seq(Operations)
  OBVIOUS
<1>2. queue'[s] = Tail(queue[s]) /\ \A t \in Streams : t # s => queue'[t] = queue[t]
  OBVIOUS
<1> HIDE DEF Operations
<1>3. /\ \A p \in DOMAIN Tail(queue[s]) :
           p + 1 \in DOMAIN queue[s] /\ Tail(queue[s])[p] = queue[s][p + 1] /\ p \in Nat /\ 1 < p + 1
      /\ 1 \in DOMAIN queue[s] /\ Head(queue[s]) = queue[s][1]
      /\ \A p \in DOMAIN queue[s] : p # 1 =>
           p - 1 \in DOMAIN Tail(queue[s]) /\ Tail(queue[s])[p - 1] = queue[s][p]
  BY <1>1
<1> QED BY <1>2, <1>3

(* The order of identifiers is strict. *)
LEMMA EarlierOnce ==
  ASSUME NEW a \in Ids, NEW b \in Ids, Earlier(a, b)
  PROVE  a # b /\ ~Earlier(b, a)
BY DEF Earlier, Ids

(* The queues after a stream has done its first operation. *)
LEMMA QueuedExecute ==
  ASSUME NEW P \in Code, NEW c, NEW h \in 0..Len(P), Queued(P, c, h),
         number \in Nat, number' = number, queue \in [Streams -> Seq(Operations)],
         NEW s \in Streams, queue[s] # <<>>, queue' = [queue EXCEPT ![s] = Tail(queue[s])]
  PROVE  /\ Queued(P, c, h)'
         /\ \A i \in 1..Len(P) :
              Done(P, i)' <=> Done(P, i) \/ Head(queue[s]).id = IdAt(number, P, i)
<1>0. Len(P) \in Nat /\ h \in Nat
  BY DEF Code
<1>1. /\ \A t \in Streams : \A p \in DOMAIN queue'[t] :
           IF t = s THEN p + 1 \in DOMAIN queue[s] /\ queue'[s][p] = queue[s][p + 1]
                         /\ p \in Nat /\ 1 < p + 1
           ELSE p \in DOMAIN queue[t] /\ queue'[t] = queue[t]
      /\ 1 \in DOMAIN queue[s] /\ Head(queue[s]) = queue[s][1]
      /\ \A p \in DOMAIN queue[s] : p # 1 =>
           p - 1 \in DOMAIN queue'[s] /\ queue'[s][p - 1] = queue[s][p]
      /\ \A t \in Streams : t # s => queue'[t] = queue[t]
  BY AfterExecute
<1>t. \A t \in Streams : \A p \in DOMAIN queue[t] : queue[t][p].id \in Ids
  <2> TAKE t \in Streams
  <2> TAKE p \in DOMAIN queue[t]
  <2>1. queue[t][p] \in Operations
    OBVIOUS
  <2> QED BY <2>1 DEF Operations
<1>2. FromProgram(P, c, h)'
  <2> SUFFICES ASSUME NEW t \in Streams, NEW p \in DOMAIN queue'[t]
               PROVE  \/ t = "comp" /\ IsLeft(queue'[t][p], number)
                      \/ \E i \in 1..h : StreamOf(P[i]) = t /\ queue'[t][p] = OpAt(number, P, c, i)
    BY DEF FromProgram
  <2>1. PICK q \in DOMAIN queue[t] : queue'[t][p] = queue[t][q]
    BY <1>1
  <2> QED BY <2>1 DEF Queued, FromProgram
<1>3. InOrder'
  <2> SUFFICES ASSUME NEW t \in Streams, NEW p \in DOMAIN queue'[t], NEW q \in DOMAIN queue'[t],
                      p < q
               PROVE  Earlier(queue'[t][p].id, queue'[t][q].id)
    BY DEF InOrder
  <2>1. CASE t = s
    <3>1. p + 1 < q + 1
      BY <1>1, <2>1
    <3> QED BY <1>1, <2>1, <3>1 DEF Queued, InOrder
  <2>2. CASE t # s
    BY <1>1, <2>2 DEF Queued, InOrder
  <2> QED BY <2>1, <2>2
<1>4. \A i \in 1..Len(P) :
        Done(P, i)' <=> Done(P, i) \/ Head(queue[s]).id = IdAt(number, P, i)
  <2> TAKE i \in 1..Len(P)
  <2>1. ASSUME ~Done(P, i), Head(queue[s]).id # IdAt(number, P, i) PROVE ~Done(P, i)'
    <3>1. PICK t \in Streams : \E p \in DOMAIN queue[t] : queue[t][p].id = IdAt(number, P, i)
      BY <2>1 DEF Done, Pending
    <3>2. PICK p \in DOMAIN queue[t] : queue[t][p].id = IdAt(number, P, i)
      BY <3>1
    <3>3. \E q \in DOMAIN queue'[t] : queue'[t][q] = queue[t][p]
      <4>1. CASE t = s
        <5>1. p # 1
          BY <1>1, <2>1, <3>2, <4>1
        <5> QED BY <1>1, <4>1, <5>1
      <4>2. CASE t # s
        BY <1>1, <4>2
      <4> QED BY <4>1, <4>2
    <3> QED BY <3>2, <3>3 DEF Done, Pending, IdAt
  <2>2. ASSUME Done(P, i) PROVE Done(P, i)'
    <3> SUFFICES ASSUME NEW t \in Streams, NEW p \in DOMAIN queue'[t],
                        queue'[t][p].id = IdAt(number, P, i)
                 PROVE  FALSE
      BY DEF Done, Pending, IdAt
    <3>1. PICK q \in DOMAIN queue[t] : queue'[t][p] = queue[t][q]
      BY <1>1
    <3> QED BY <2>2, <3>1 DEF Done, Pending
  <2>3. ASSUME Head(queue[s]).id = IdAt(number, P, i) PROVE Done(P, i)'
    <3> SUFFICES ASSUME NEW t \in Streams, NEW p \in DOMAIN queue'[t],
                        queue'[t][p].id = IdAt(number, P, i)
                 PROVE  FALSE
      BY DEF Done, Pending, IdAt
    <3>1. CASE t = s
      <4>1. queue[s][p + 1].id = IdAt(number, P, i) /\ p + 1 \in DOMAIN queue[s] /\ 1 < p + 1
        BY <1>1, <3>1
      <4>2. Earlier(queue[s][1].id, queue[s][p + 1].id)
        BY <1>1, <4>1 DEF Queued, InOrder
      <4> QED BY <1>1, <1>t, <2>3, <4>1, <4>2, EarlierOnce
    <3>2. CASE t # s
      <4>1. p \in DOMAIN queue[t] /\ queue[t][p].id = IdAt(number, P, i)
        BY <1>1, <3>2
      <4>2. ASSUME NEW u \in Streams, NEW q \in DOMAIN queue[u], queue[u][q].id = IdAt(number, P, i)
            PROVE  StreamOf(P[i]) = u
        <5>1. queue[u][q].id[1] = number
          BY <4>2 DEF IdAt
        <5>2. ~IsLeft(queue[u][q], number)
          BY <5>1 DEF IsLeft
        <5>3. PICK j \in 1..h : StreamOf(P[j]) = u /\ queue[u][q] = OpAt(number, P, c, j)
          BY <5>2 DEF Queued, FromProgram
        <5>4. j \in 1..Len(P) /\ IdAt(number, P, j) = IdAt(number, P, i)
          BY <1>0, <4>2, <5>3, OpFields
        <5> QED BY <5>3, <5>4, Identifiers
      <4>3. StreamOf(P[i]) = t
        BY <4>1, <4>2
      <4>4. StreamOf(P[i]) = s
        BY <1>1, <2>3, <4>2
      <4> QED BY <3>2, <4>3, <4>4
    <3> QED BY <3>1, <3>2
  <2> QED BY <2>1, <2>2, <2>3
<1>5. NoneSkipped(P, h)'
  <2> SUFFICES ASSUME NEW t \in Streams, NEW p \in DOMAIN queue'[t], NEW i \in 1..h,
                      StreamOf(P[i]) = t, Earlier(queue'[t][p].id, IdAt(number, P, i))
               PROVE  ~Done(P, i)'
    BY DEF NoneSkipped
  <2>0. i \in 1..Len(P)
    BY <1>0
  <2>1. PICK q \in DOMAIN queue[t] : queue'[t][p] = queue[t][q] /\ (t = s => 1 < q)
    BY <1>1
  <2>2. ~Done(P, i)
    BY <2>1 DEF Queued, NoneSkipped
  <2>3. Head(queue[s]).id # IdAt(number, P, i)
    <3> SUFFICES ASSUME Head(queue[s]).id = IdAt(number, P, i) PROVE FALSE
      OBVIOUS
    <3>1. Earlier(queue[t][q].id, Head(queue[s]).id)
      BY <2>1
    <3>2. CASE t = s
      <4>1. Earlier(queue[s][1].id, queue[s][q].id)
        BY <1>1, <2>1, <3>2 DEF Queued, InOrder
      <4> QED BY <1>1, <1>t, <3>1, <3>2, <4>1, EarlierOnce
    <3>3. CASE t # s
      <4>1. \E u \in DOMAIN queue[t] : queue[t][u] = OpAt(number, P, c, i)
        BY <2>0, <2>2, InQueue DEF Queued
      <4>0. PICK u \in DOMAIN queue[t] : queue[t][u] = OpAt(number, P, c, i)
        BY <4>1
      <4>2. queue[t][u].id = IdAt(number, P, i)
        BY <4>0, OpFields
      <4>3. u \in DOMAIN queue'[t] /\ queue'[t][u].id = IdAt(number, P, i)
        BY <1>1, <3>3, <4>2
      <4>4. ~Done(P, i)'
        BY <4>3 DEF Done, Pending, IdAt
      <4> QED BY <1>4, <2>0, <4>4
    <3> QED BY <3>2, <3>3
  <2> QED BY <1>4, <2>0, <2>2, <2>3
<1> QED BY <1>2, <1>3, <1>4, <1>5 DEF Queued

-----------------------------------------------------------------------------
(* A step of a stream. *)

(* What is in front of a stream: an operation of an earlier call, or one   *)
(* of the program.                                                         *)
LEMMA InFront ==
  ASSUME NEW P \in Code, NEW c, NEW h \in 0..Len(P), FromProgram(P, c, h),
         NEW s \in Streams, queue[s] \in Seq(Operations), queue[s] # <<>>
  PROVE  \/ s = "comp" /\ IsLeft(Head(queue[s]), number) /\ 1 \in DOMAIN queue[s]
            /\ Head(queue[s]) = queue[s][1]
         \/ \E j \in 1..h : StreamOf(P[j]) = s /\ Head(queue[s]) = OpAt(number, P, c, j)
<1>1. 1 \in DOMAIN queue[s] /\ Head(queue[s]) = queue[s][1]
  OBVIOUS
<1> QED BY <1>1 DEF FromProgram

(* What has been waited for stays done when a stream goes on. *)
LEMMA WaitsExecute ==
  ASSUME NEW P \in Code, NEW c, NEW h \in 0..Len(P), Queued(P, c, h), Waits_(P, c, h),
         number \in Nat, number' = number, queue \in [Streams -> Seq(Operations)],
         NEW s \in Streams, Ready(s), queue' = [queue EXCEPT ![s] = Tail(queue[s])],
         awaited' = awaited
  PROVE  Waits_(P, c, h)'
<1>0. Len(P) \in Nat /\ h \in Nat /\ queue[s] # <<>>
  BY DEF Code, Ready
<1>1. \A i \in 1..h : Done(P, i)' <=> Done(P, i) \/ Head(queue[s]).id = IdAt(number, P, i)
  <2> TAKE i \in 1..h
  <2>1. i \in 1..Len(P)
    BY <1>0
  <2> QED BY <1>0, <2>1, QueuedExecute
<1>2. WaitsDone(P, h)'
  <2> SUFFICES ASSUME NEW w \in 1..h, P[w].kind = "wait", RecordFor(P, w) # 0, Done(P, w)'
               PROVE  Done(P, RecordFor(P, w))'
    BY DEF WaitsDone
  <2>1. RecordFor(P, w) \in 1..h
    BY RecordForIs
  <2>2. CASE Done(P, w)
    BY <2>1, <2>2, <1>1 DEF Waits_, WaitsDone
  <2>3. CASE Head(queue[s]).id = IdAt(number, P, w)
    <3>1. w \in 1..Len(P)
      BY <1>0
    <3>2. ~IsLeft(Head(queue[s]), number)
      BY <2>3 DEF IsLeft, IdAt
    <3>3. PICK j \in 1..h : Head(queue[s]) = OpAt(number, P, c, j)
      BY <1>0, <3>2, InFront DEF Queued
    <3>4. j \in 1..Len(P) /\ IdAt(number, P, j) = IdAt(number, P, w)
      BY <1>0, <2>3, <3>3, OpFields
    <3>5. j = w
      BY <3>1, <3>4, Identifiers
    <3>6. Head(queue[s]).after = IdAt(number, P, RecordFor(P, w))
      BY <3>3, <3>5 DEF OpAt
    <3>7. Done(P, RecordFor(P, w))
      BY <3>6 DEF Ready, Done
    <3> QED BY <2>1, <3>7, <1>1
  <2> QED BY <1>1, <2>2, <2>3
<1>3. AwaitedDone(P, c, h)'
  <2> SUFFICES ASSUME NEW p \in 1..h, AwaitedBy(P, c, p) # 0
               PROVE  \/ Done(P, AwaitedBy(P, c, p))'
                      \/ p = h /\ awaited' = IdAt(number', P, AwaitedBy(P, c, p))
    BY DEF AwaitedDone
  <2>1. AwaitedBy(P, c, p) \in 1..h
    <3>1. AwaitedBy(P, c, p) \in 1..p
      BY AwaitedByIs
    <3> QED BY <1>0, <3>1
  <2> QED BY <2>1, <1>1 DEF Waits_, AwaitedDone
<1>4. Drained(P, c, h)'
  <2> SUFFICES ASSUME NEW p \in 1..h, Drains(c, P[p])
               PROVE  /\ \A i \in 1..(p - 1) : StreamOf(P[i]) = "comp" => Done(P, i)'
                      /\ \A q \in DOMAIN queue'["comp"] : queue'["comp"][q].id[1] = number'
    BY DEF Drained
  <2>1. /\ \A i \in 1..(p - 1) : StreamOf(P[i]) = "comp" => Done(P, i)
        /\ \A q \in DOMAIN queue["comp"] : queue["comp"][q].id[1] = number
    BY DEF Waits_, Drained
  <2>2. \A i \in 1..(p - 1) : i \in 1..h
    BY <1>0
  <2>3. \A q \in DOMAIN queue'["comp"] : \E r \in DOMAIN queue["comp"] :
          queue'["comp"][q] = queue["comp"][r]
    <3> "comp" \in Streams
      BY DEF Streams
    <3>1. TAKE q \in DOMAIN queue'["comp"]
    <3>2. CASE s = "comp"
      BY <1>0, <3>2, AfterExecute
    <3>3. CASE s # "comp"
      BY <1>0, <3>3, AfterExecute
    <3> QED BY <3>2, <3>3
  <2> QED BY <2>1, <2>2, <2>3, <1>1
<1> QED BY <1>2, <1>3, <1>4 DEF Waits_

(* An operation of the program writes what it should. *)
LEMMA MemoryExecute ==
  ASSUME NEW P \in Code, NEW c, NEW given, NEW h \in 0..Len(P), Queued(P, c, h), Waits_(P, c, h),
         MemoryRight(P, given, h), number \in Nat, number' = number,
         queue \in [Streams -> Seq(Operations)], Ordered(P, c),
         NEW j \in 1..h, NEW s \in Streams, StreamOf(P[j]) = s, Ready(s),
         Head(queue[s]) = OpAt(number, P, c, j), queue' = [queue EXCEPT ![s] = Tail(queue[s])],
         Store(StreamOut(P[j]), number)
  PROVE  MemoryRight(P, given, h)'
<1>0. Len(P) \in Nat /\ h \in Nat /\ queue[s] # <<>> /\ j \in 1..Len(P) /\ j \in DOMAIN P
      /\ queue[s] \in Seq(Operations)
  BY DEF Code, Ready
<1>1. \A i \in 1..h : Done(P, i)' <=> Done(P, i) \/ i = j
  <2> TAKE i \in 1..h
  <2>1. i \in 1..Len(P)
    BY <1>0
  <2>2. Head(queue[s]).id = IdAt(number, P, j)
    BY OpFields
  <2>3. Done(P, i)' <=> Done(P, i) \/ IdAt(number, P, j) = IdAt(number, P, i)
    BY <1>0, <2>1, <2>2, QueuedExecute
  <2> QED BY <1>0, <2>1, <2>3, Identifiers
<1>2. Output(P[j]) = StreamOut(P[j])
  BY <1>0, OutputIs
<1> SUFFICES ASSUME NEW x \in CellsTouched(P, given)
             PROVE  /\ \A i \in Writers(P, x, h + 1) : Done(P, i)' =>
                         /\ x \in DOMAIN mem'
                         /\ (\A k \in Writers(P, x, h + 1) : k > i => ~Done(P, k)') =>
                              mem'[x] = Stored(Output(P[i]), number, x)
                    /\ (\A i \in Writers(P, x, h + 1) : ~Done(P, i)') /\ x \in Touched(given) =>
                         x \in DOMAIN mem' /\ mem'[x] = Stored(given, number, x)
  BY DEF MemoryRight, CellsTouched
<1>3. Writers(P, x, h + 1) \subseteq 1..h
  BY <1>0 DEF Writers
<1>4. CASE x \in Touched(StreamOut(P[j]))
  <2>1. j \in Writers(P, x, h + 1)
    BY <1>0, <1>2, <1>4 DEF Writers
  <2>2. \A i \in Writers(P, x, h + 1) : i # j => (Done(P, i) <=> i < j)
    BY <1>0, <1>4, WritersAtHead
  <2>3. x \in DOMAIN mem' /\ mem'[x] = Stored(Output(P[j]), number, x)
    BY <1>2, <1>4 DEF Store
  <2> QED BY <1>1, <1>3, <2>1, <2>2, <2>3
<1>5. CASE x \notin Touched(StreamOut(P[j]))
  <2>1. j \notin Writers(P, x, h + 1)
    BY <1>2, <1>5 DEF Writers
  <2>2. x \in DOMAIN mem => x \in DOMAIN mem' /\ mem'[x] = mem[x]
    BY <1>5 DEF Store
  <2>3. /\ \A i \in Writers(P, x, h + 1) : Done(P, i) =>
             /\ x \in DOMAIN mem
             /\ (\A k \in Writers(P, x, h + 1) : k > i => ~Done(P, k)) =>
                  mem[x] = Stored(Output(P[i]), number, x)
        /\ (\A i \in Writers(P, x, h + 1) : ~Done(P, i)) /\ x \in Touched(given) =>
             x \in DOMAIN mem /\ mem[x] = Stored(given, number, x)
    BY DEF MemoryRight
  <2> QED BY <1>1, <1>3, <2>1, <2>2, <2>3
<1> QED BY <1>4, <1>5

(* An operation of an earlier call writes nothing that this one uses. *)
LEMMA MemoryLeft ==
  ASSUME NEW P \in Code, NEW c, NEW given, NEW h \in 0..Len(P), Queued(P, c, h), Waits_(P, c, h),
         MemoryRight(P, given, h), number \in Nat, number' = number,
         queue \in [Streams -> Seq(Operations)], Apart(P, c), OnHostOnly(given),
         queue["comp"] # <<>>, IsLeft(Head(queue["comp"]), number),
         queue' = [queue EXCEPT !["comp"] = Tail(queue["comp"])],
         NEW data, NEW n, OnDeviceOnly(data), Store(data, n)
  PROVE  MemoryRight(P, given, h)'
<1>0. Len(P) \in Nat /\ h \in Nat /\ "comp" \in Streams /\ DOMAIN P = 1..Len(P)
      /\ queue["comp"] \in Seq(Operations) /\ Head(queue["comp"]) = queue["comp"][1]
      /\ 1 \in DOMAIN queue["comp"]
  BY DEF Code, Streams
<1>1. \A i \in 1..h : Done(P, i)' <=> Done(P, i)
  <2> TAKE i \in 1..h
  <2>1. i \in 1..Len(P)
    BY <1>0
  <2>2. Head(queue["comp"]).id # IdAt(number, P, i)
    BY DEF IsLeft, IdAt
  <2> QED BY <1>0, <2>1, <2>2, QueuedExecute
<1> SUFFICES ASSUME NEW x \in CellsTouched(P, given)
             PROVE  /\ \A i \in Writers(P, x, h + 1) : Done(P, i)' =>
                         /\ x \in DOMAIN mem'
                         /\ (\A k \in Writers(P, x, h + 1) : k > i => ~Done(P, k)') =>
                              mem'[x] = Stored(Output(P[i]), number, x)
                    /\ (\A i \in Writers(P, x, h + 1) : ~Done(P, i)') /\ x \in Touched(given) =>
                         x \in DOMAIN mem' /\ mem'[x] = Stored(given, number, x)
  BY DEF MemoryRight, CellsTouched
<1>2. Writers(P, x, h + 1) \subseteq 1..h
  BY <1>0 DEF Writers
<1>3. CASE x \in Touched(data)
  <2>1. x[1] \notin HostArrays
    BY <1>3 DEF OnDeviceOnly
  <2>2. x \notin Touched(given)
    BY <2>1 DEF OnHostOnly
  <2>3. ASSUME NEW i \in Writers(P, x, h + 1), Done(P, i) PROVE FALSE
    <3>1. i \in 1..h /\ i \in 1..Len(P) /\ x \in Touched(Output(P[i]))
      BY <1>0 DEF Writers
    <3>2. CASE StreamOf(P[i]) = "comp"
      BY <1>0, <2>3, <3>1, <3>2, NoneLeft
    <3>3. CASE StreamOf(P[i]) = "xfer"
      <4>1. Works(P[i])
        BY <3>1 DEF Output, Touched
      <4>2. CompWaited(P, c, i - 1)
        BY <1>0, <3>1, <3>3, <4>1 DEF Apart
      <4>3. i - 1 \in 0..h /\ Past(i - 1, h)
        BY <1>0, <3>1 DEF Past
      <4> QED BY <1>0, <4>2, <4>3, CompWaitedNoneLeft
    <3>4. CASE StreamOf(P[i]) \notin Streams
      <4>1. x \in Touched(HostOut(P[i]))
        BY <3>1, <3>4, OutputIs
      <4>2. OnHostOnly(HostOut(P[i]))
        BY <1>0, <3>1 DEF Apart
      <4> QED BY <2>1, <4>1, <4>2 DEF OnHostOnly
    <3> QED BY <3>2, <3>3, <3>4 DEF Streams
  <2> QED BY <1>1, <1>2, <2>2, <2>3
<1>4. CASE x \notin Touched(data)
  <2>1. x \in DOMAIN mem => x \in DOMAIN mem' /\ mem'[x] = mem[x]
    BY <1>4 DEF Store
  <2>2. /\ \A i \in Writers(P, x, h + 1) : Done(P, i) =>
             /\ x \in DOMAIN mem
             /\ (\A k \in Writers(P, x, h + 1) : k > i => ~Done(P, k)) =>
                  mem[x] = Stored(Output(P[i]), number, x)
        /\ (\A i \in Writers(P, x, h + 1) : ~Done(P, i)) /\ x \in Touched(given) =>
             x \in DOMAIN mem /\ mem[x] = Stored(given, number, x)
    BY DEF MemoryRight
  <2> QED BY <1>1, <1>2, <2>1, <2>2
<1> QED BY <1>3, <1>4

(* What an instruction yields is where it writes. *)
LEMMA OutcomeTouched ==
  ASSUME NEW in, NEW out, NEW n
  PROVE  Touched(Outcome(in, out, n)) = Touched(out)
<1> DEFINE junk == [j \in DOMAIN out |-> Data(out[j].at, "junk")]
<1>1. DOMAIN junk = DOMAIN out /\ \A j \in DOMAIN out : junk[j].at = out[j].at
  BY DEF Data
<1>2. Touched(junk) = Touched(out)
  BY <1>1 DEF Touched
<1> QED BY <1>2 DEF Outcome

(* A stream goes on. *)
LEMMA ExecuteCore ==
  ASSUME TInv, NEW P \in Code, NEW c, NEW given, NEW results_, NEW h \in 0..Len(P),
         Core(P, c, given, h), Ordered(P, c), Apart(P, c), Fed(P, given, results_),
         OnHostOnly(given), NEW s \in Streams, Execute(s)
  PROVE  Core(P, c, given, h)'
<1>0. /\ Len(P) \in Nat /\ number \in Nat /\ number' = number /\ queue[s] # <<>>
      /\ queue \in [Streams -> Seq(Operations)] /\ queue[s] \in Seq(Operations) /\ Ready(s)
      /\ queue' = [queue EXCEPT ![s] = Tail(queue[s])] /\ awaited' = awaited /\ event' = event
      /\ call' = call /\ todo' = todo
  BY DEF Code, TInv, Execute, Ready
<1>c. Queued(P, c, h) /\ EventsRight(P, h) /\ Waits_(P, c, h) /\ MemoryRight(P, given, h)
      /\ number \in 1..MaxCalls
  BY DEF Core
<1>1. Queued(P, c, h)'
  BY <1>0, <1>c, QueuedExecute
<1>2. Waits_(P, c, h)'
  BY <1>0, <1>c, WaitsExecute
<1>3. EventsRight(P, h)'
  BY <1>0, <1>c DEF EventsRight, IdAt
<1>4. MemoryRight(P, given, h)'
  <2>1. Perform(Head(queue[s]).in, Head(queue[s]).out, Head(queue[s]).id[1])
    BY DEF Execute
  <2>2. CASE s = "comp" /\ IsLeft(Head(queue[s]), number)
    <3> DEFINE data == Outcome(Head(queue[s]).in, Head(queue[s]).out, Head(queue[s]).id[1])
    <3>1. OnDeviceOnly(data)
      BY <2>2, OutcomeTouched DEF IsLeft, OnDeviceOnly
    <3>2. Store(data, Head(queue[s]).id[1])
      BY <2>1 DEF Perform
    <3> HIDE DEF data
    <3> QED BY <1>0, <1>c, <2>2, <3>1, <3>2, MemoryLeft
  <2>3. ASSUME NEW j \in 1..h, StreamOf(P[j]) = s, Head(queue[s]) = OpAt(number, P, c, j)
        PROVE  MemoryRight(P, given, h)'
    <3>1. Head(queue[s]).in = StreamIn(c, P[j]) /\ Head(queue[s]).out = StreamOut(P[j])
          /\ Head(queue[s]).id[1] = number
      BY <2>3, OpFields DEF IdAt
    <3>2. Outcome(StreamIn(c, P[j]), StreamOut(P[j]), number) = StreamOut(P[j])
      BY <1>0, <1>c, <2>3, StreamReads
    <3>3. Store(StreamOut(P[j]), number)
      BY <2>1, <3>1, <3>2 DEF Perform
    <3> QED BY <1>0, <1>c, <2>3, <3>3, MemoryExecute
  <2> QED BY <1>0, <1>c, <2>2, <2>3, InFront DEF Queued
<1> QED BY <1>0, <1>c, <1>1, <1>2, <1>3, <1>4 DEF Core

-----------------------------------------------------------------------------
(* Between two calls. *)

(* What a transform of host data has started is done when it returns.      *)
LEMMA AllDone ==
  ASSUME NEW P \in Code, NEW c, NEW h \in 0..Len(P), h = Len(P), Queued(P, c, h),
         Waits_(P, c, h), number \in Nat, queue \in [Streams -> Seq(Operations)], Running,
         Ends(P, c), c.name \notin DeviceTransforms
  PROVE  /\ \A i \in 1..Len(P) : Done(P, i)
         /\ \A s \in Streams : queue[s] = <<>>
<1>0. Len(P) \in Nat /\ Past(h, h) /\ h \in 0..h /\ DOMAIN P = 1..Len(P)
  BY DEF Code, Past
<1>1. \A i \in 1..Len(P) : Done(P, i)
  <2> TAKE i \in 1..Len(P)
  <2>1. CASE StreamOf(P[i]) \notin Streams
    BY <2>1, HostDone DEF Queued
  <2>2. CASE StreamOf(P[i]) \in Streams
    <3>1. Complete(P, c, i, h)
      BY <1>0, <2>2 DEF Ends
    <3> QED BY <1>0, <3>1, CompleteDone
  <2> QED BY <2>1, <2>2
<1>2. ASSUME NEW s \in Streams, queue[s] # <<>> PROVE FALSE
  <2>0. queue[s] \in Seq(Operations) /\ 1 \in DOMAIN queue[s] /\ Head(queue[s]) = queue[s][1]
    BY <1>2
  <2>1. CASE s = "comp" /\ IsLeft(Head(queue[s]), number) /\ 1 \in DOMAIN queue[s]
             /\ Head(queue[s]) = queue[s][1]
    <3>1. CompWaited(P, c, h)
      BY DEF Ends
    <3> QED BY <1>0, <2>1, <3>1, CompWaitedNoneLeft
  <2>2. ASSUME NEW j \in 1..h, Head(queue[s]) = OpAt(number, P, c, j) PROVE FALSE
    <3>1. queue[s][1].id = IdAt(number, P, j)
      BY <2>0, <2>2, OpFields
    <3>2. ~Done(P, j)
      BY <2>0, <3>1 DEF Done, Pending
    <3> QED BY <1>0, <1>1, <3>2
  <2> QED BY <1>2, <2>0, <2>1, <2>2, InFront DEF Queued
<1> QED BY <1>1, <1>2

(* A transform of device data only leaves operations on device memory, in  *)
(* the compute stream.                                                     *)
LEMMA OnlyLeft ==
  ASSUME NEW P \in Code, NEW c, NEW h \in 0..Len(P), FromProgram(P, c, h), number \in Nat \ {0},
         Apart(P, c), c.name \in DeviceTransforms
  PROVE  \A s \in Streams : \A p \in DOMAIN queue[s] :
           s = "comp" /\ IsLeft(queue[s][p], number + 1)
<1>0. Len(P) \in Nat /\ DOMAIN P = 1..Len(P)
  BY DEF Code
<1> SUFFICES ASSUME NEW s \in Streams, NEW p \in DOMAIN queue[s]
             PROVE  s = "comp" /\ IsLeft(queue[s][p], number + 1)
  OBVIOUS
<1>1. CASE s = "comp" /\ IsLeft(queue[s][p], number)
  BY <1>1 DEF IsLeft
<1>2. ASSUME NEW i \in 1..h, StreamOf(P[i]) = s, queue[s][p] = OpAt(number, P, c, i)
      PROVE  s = "comp" /\ IsLeft(queue[s][p], number + 1)
  <2>1. /\ StreamOf(P[i]) = "comp" /\ OnDeviceOnly(StreamIn(c, P[i]))
        /\ OnDeviceOnly(StreamOut(P[i]))
    BY <1>0 DEF Apart
  <2>2. queue[s][p].in = StreamIn(c, P[i]) /\ queue[s][p].out = StreamOut(P[i])
        /\ queue[s][p].id[1] = number
    BY <1>2, OpFields DEF IdAt
  <2> QED BY <1>2, <2>1, <2>2 DEF IsLeft
<1> QED BY <1>1, <1>2 DEF FromProgram

(* A new call. *)
LEMMA NewCall ==
  ASSUME NEW P \in Code, NEW c, NEW given,
         number' \in 1..MaxCalls, call' = c, todo' = P, queue' = queue, event' = [e \in Events |-> <<>>],
         \A s \in Streams : \A p \in DOMAIN queue[s] : s = "comp" /\ IsLeft(queue[s][p], number'),
         InOrder, Store(given, number')
  PROVE  Core(P, c, given, 0)'
<1>0. Len(P) \in Nat /\ P \in Seq(Instruction)
  BY DEF Code
<1>1. SubSeq(P, 0 + 1, Len(P)) = P
  BY <1>0
<1>2. 1..0 = {} /\ 0 + 1 = 1 /\ 1 - 1 = 0
  OBVIOUS
<1>3. FromProgram(P, c, 0)' /\ NoneSkipped(P, 0)' /\ InOrder'
  BY <1>2 DEF FromProgram, NoneSkipped, InOrder
<1>4. EventsRight(P, 0)'
  BY <1>2 DEF EventsRight, Records
<1>5. Waits_(P, c, 0)'
  BY <1>2 DEF Waits_, WaitsDone, AwaitedDone, Drained
<1>6. MemoryRight(P, given, 0)'
  <2> SUFFICES ASSUME NEW x \in CellsTouched(P, given)
               PROVE  /\ Writers(P, x, 0 + 1) = {}
                      /\ x \in Touched(given) =>
                           x \in DOMAIN mem' /\ mem'[x] = Stored(given, number', x)
    BY DEF MemoryRight, CellsTouched
  <2> QED BY <1>2 DEF Writers, Store
<1> QED BY <1>1, <1>3, <1>4, <1>5, <1>6 DEF Core, Queued

(* The arrays of the caller are on the host. *)
LEMMA CallerArrays ==
  ASSUME NEW A \in SUBSET (Spectra \cup Fields)
  PROVE  OnHostOnly([a \in A |-> Data(Array(a), a)])
<1>1. \A a \in A : \A x \in CellsOf(Array(a)) : x[1] = a
  <2>1. \A a, n : \A i \in DOMAIN Region(a, 0, n) : Region(a, 0, n)[i] = <<a, 0 + i>>
    BY DEF Region
  <2>2. \A a, n : \A x \in CellsOf(Region(a, 0, n)) : \E i : x = <<a, 0 + i>>
    BY <2>1 DEF CellsOf
  <2>3. \A a, n : \A x \in CellsOf(Region(a, 0, n)) : x[1] = a
    BY <2>2
  <2> QED BY <2>3 DEF Array
<1>2. \A a \in A : a \in HostArrays
  BY DEF HostArrays
<1> QED BY <1>1, <1>2 DEF OnHostOnly, Touched, Data

(* Transforms read and write arrays of the caller. *)
LEMMA ArraysOf ==
  ASSUME NEW n \in TransformNames
  PROVE  Transform(n).in \in SUBSET (Spectra \cup Fields)
         /\ Transform(n).out \in SUBSET (Spectra \cup Fields)
BY DEF Transform, T, TransformNames, DeviceTransforms, Spectra, Fields

-----------------------------------------------------------------------------
(* The invariant is inductive. *)

(* Some call has been made, and its program has come to some instruction. *)
InProgress ==
  \E c \in Calls(cfg) : \E P \in {Program(c)}, given \in {Given_to(c)} :
    \E h \in 0..Len(P) : Core(P, c, given, h)

(* The results of a call are those of its transform. *)
OutputsOf == \A c \in Call : call = c => results = Transform(c.name).out

(* The inductive invariant. *)
IInv ==
  /\ TInv
  /\ \A c \in Calls(cfg) : Disciplined(c)
  /\ OutputsOf
  /\ Quiet \/ InProgress

(* ProgramsOrdered is about the configuration, which never changes. *)
LEMMA SameDiscipline ==
  ASSUME cfg' = cfg, NEW c \in Call
  PROVE  /\ Program(c)' = Program(c) /\ Given_to(c)' = Given_to(c)
         /\ Transform(c.name)' = Transform(c.name)
         /\ Disciplined(c)' <=> Disciplined(c)
<1>1. Transform(c.name)' = Transform(c.name)
  BY SamePrograms DEF Call
<1>2. Program(c)' = Program(c)
  BY <1>1 DEF Program
<1>3. Given_to(c)' = Given_to(c)
  BY <1>1, SamePlaces DEF Given_to, Array
<1>4. Results(c)' = Results(c)
  <2>1. \A a : Result(c, a)' = Result(c, a)
    BY SamePlaces DEF Result
  <2> QED BY <1>1, <2>1 DEF Results
<1>5. Disciplined(c)' <=> Disciplined(c)
  BY <1>2, <1>3, <1>4 DEF Disciplined
<1> QED BY <1>1, <1>2, <1>3, <1>5

(* What ProgramsOrdered says of a call. *)
LEMMA CallParts ==
  ASSUME TInv, NEW c \in Calls(cfg), Disciplined(c)
  PROVE  /\ c \in Call /\ c # Idle /\ c # Failed /\ Program(c) \in Code
         /\ Ordered(Program(c), c) /\ Apart(Program(c), c) /\ Ends(Program(c), c)
         /\ Fed(Program(c), Given_to(c), Results(c))
         /\ OnHostOnly(Given_to(c))
<1>1. cfg \in Config /\ c \in Call
  BY CfgIn DEF TInv
<1>2. c.name \in TransformNames
  BY <1>1 DEF Call
<1>3. Program(c) \in Code
  BY <1>1, <1>2, ProgramsIn DEF Program
<1>4. c # Idle /\ c # Failed
  BY <1>1, GpuAssumption
<1>5. OnHostOnly(Given_to(c))
  <2> DEFINE A == IF c.name \in DeviceTransforms THEN {} ELSE Transform(c.name).in
  <2>1. A \in SUBSET (Spectra \cup Fields)
    BY <1>2, ArraysOf
  <2>2. OnHostOnly([a \in A |-> Data(Array(a), a)])
    BY <2>1, CallerArrays
  <2> QED BY <2>2 DEF Given_to
<1> QED BY <1>1, <1>3, <1>4, <1>5 DEF Disciplined

(* The invariant holds at first. *)
LEMMA Initially == Init /\ ProgramsOrdered => IInv
<1> SUFFICES ASSUME Init, ProgramsOrdered PROVE IInv
  OBVIOUS
<1>1. TInv
  BY TInitial
<1>2. \A c \in Calls(cfg) : Disciplined(c)
  BY DEF Init, ProgramsOrdered
<1>3. Idle \notin Call
  BY GpuAssumption
<1>4. Quiet
  BY DEF Init, Quiet
<1> QED BY <1>1, <1>2, <1>3, <1>4 DEF IInv, Init, OutputsOf

(* The state in which the program may call again. *)
LEMMA CallsAgain ==
  ASSUME IInv, call = Idle \/ Returned
  PROVE  /\ InOrder
         /\ \A s \in Streams : \A p \in DOMAIN queue[s] : s = "comp" /\ IsLeft(queue[s][p], number + 1)
         /\ Returned /\ call.name \notin DeviceTransforms => \A s \in Streams : queue[s] = <<>>
<1>1. CASE Quiet
  <2>1. \A s \in Streams : queue[s] = <<>>
    BY <1>1 DEF Quiet
  <2>2. \A s \in Streams : DOMAIN queue[s] = {}
    BY <2>1
  <2> QED BY <2>1, <2>2 DEF InOrder
<1>2. CASE InProgress
  <2>0. PICK c \in Calls(cfg) : \E P \in {Program(c)}, given \in {Given_to(c)} :
          \E h \in 0..Len(P) : Core(P, c, given, h)
    BY <1>2 DEF InProgress
  <2>1. PICK P \in {Program(c)}, given \in {Given_to(c)} :
          \E h \in 0..Len(P) : Core(P, c, given, h)
    BY <2>0
  <2>2. PICK h \in 0..Len(P) : Core(P, c, given, h)
    BY <2>1
  <2>3. /\ c \in Call /\ c # Idle /\ c # Failed /\ P \in Code
        /\ Apart(P, c) /\ Ends(P, c)
    BY CallParts DEF IInv
  <2>4. Returned /\ call = c /\ SubSeq(P, h + 1, Len(P)) = <<>> /\ Running
    BY <2>2, <2>3, GpuAssumption DEF Core, Returned
  <2>5. h = Len(P)
    BY <2>3, <2>4, AtEnd
  <2>6. number \in Nat \ {0} /\ queue \in [Streams -> Seq(Operations)] /\ Queued(P, c, h)
        /\ Waits_(P, c, h)
    BY <2>2, GpuAssumption DEF Core, IInv, TInv
  <2>7. CASE c.name \in DeviceTransforms
    <3>1. \A s \in Streams : \A p \in DOMAIN queue[s] :
            s = "comp" /\ IsLeft(queue[s][p], number + 1)
      BY <2>3, <2>6, <2>7, OnlyLeft DEF Queued
    <3> QED BY <2>4, <2>6, <2>7, <3>1 DEF Queued
  <2>8. CASE c.name \notin DeviceTransforms
    <3>1. \A s \in Streams : queue[s] = <<>>
      BY <2>3, <2>4, <2>5, <2>6, <2>8, AllDone
    <3>2. \A s \in Streams : DOMAIN queue[s] = {}
      BY <3>1
    <3> QED BY <2>6, <3>1, <3>2 DEF Queued
  <2> QED BY <2>7, <2>8
<1> QED BY <1>1, <1>2 DEF IInv

(* Each step keeps the invariant. *)
LEMMA Stepwise == IInv /\ [Next]_vars => IInv'
<1> SUFFICES ASSUME IInv, [Next]_vars PROVE IInv'
  OBVIOUS
<1>0. TInv /\ TInv' /\ \A c \in Calls(cfg) : Disciplined(c)
  BY TStep DEF IInv
<1>1. cfg' = cfg
  BY DEF Next, CallTransform, LaunchKernel, Copy, Abort, RecordEvent, WaitEvent,
         SynchronizeEvent, ComputeOnHost, Advance, Execute, vars
<1>2. Calls(cfg)' = Calls(cfg) /\ Calls(cfg) \subseteq Call
  BY <1>0, <1>1, CfgIn DEF TInv
<1>3. \A c \in Calls(cfg)' : Disciplined(c)'
  BY <1>0, <1>1, <1>2, SameDiscipline
<1>4. ASSUME NEW c \in Calls(cfg), NEW P \in {Program(c)}, NEW given \in {Given_to(c)},
             NEW h \in 0..Len(P), Core(P, c, given, h)'
      PROVE  InProgress'
  <2>1. c \in Calls(cfg)' /\ P \in {Program(c)'} /\ given \in {Given_to(c)'}
    BY <1>1, <1>2, SameDiscipline
  <2> QED BY <1>4, <2>1 DEF InProgress
<1>r. ASSUME \A c \in Call : call' = c => results' = Transform(c.name).out PROVE OutputsOf'
  BY <1>1, <1>r, SameDiscipline DEF OutputsOf
<1>5. CASE CallTransform
  <2> USE <1>5
  <2>1. PICK c \in Calls(cfg) :
          LET t == Transform(c.name)
              given == IF c.name \in DeviceTransforms THEN {} ELSE t.in
          IN  /\ call' = c
              /\ results' = t.out
              /\ todo' = t.program
              /\ Store([a \in given |-> Data(Array(a), a)], number + 1)
    BY DEF CallTransform
  <2>2. /\ c \in Call /\ Program(c) \in Code
    BY <1>0, CallParts
  <2>3. /\ number' = number + 1 /\ number' \in 1..MaxCalls /\ queue' = queue
        /\ event' = [e \in Events |-> <<>>] /\ (call = Idle \/ Returned)
    BY <1>0, GpuAssumption DEF CallTransform, TInv
  <2>4. call' = c /\ results' = Transform(c.name).out /\ todo' = Program(c)
        /\ Store(Given_to(c), number')
    BY <2>1, <2>3 DEF Program, Given_to
  <2>5. /\ InOrder
        /\ \A s \in Streams : \A p \in DOMAIN queue[s] : s = "comp" /\ IsLeft(queue[s][p], number')
    BY <2>3, CallsAgain
  <2>6. PICK P \in {Program(c)}, given \in {Given_to(c)} : TRUE
    OBVIOUS
  <2>7. Core(P, c, given, 0)'
    BY <2>2, <2>3, <2>4, <2>5, <2>6, NewCall
  <2>8. 0 \in 0..Len(P)
    BY <2>2 DEF Code
  <2>9. InProgress'
    BY <1>4, <2>7, <2>8
  <2>10. OutputsOf'
    BY <1>r, <2>4
  <2> QED BY <1>0, <1>3, <2>4, <2>9, <2>10 DEF IInv
<1>6. CASE HostStep \/ Abort \/ \E s \in Streams : Execute(s)
  <2>1. ~Quiet
    <3>1. Quiet => todo = <<>> /\ \A s \in Streams : queue[s] = <<>>
      BY DEF Quiet
    <3> QED BY <1>6, <3>1 DEF HostStep, LaunchKernel, Copy, RecordEvent, WaitEvent,
            SynchronizeEvent, ComputeOnHost, Next_is, Abort, Execute, Ready
  <2>0. PICK c \in Calls(cfg) : \E P \in {Program(c)}, given \in {Given_to(c)} :
          \E h \in 0..Len(P) : Core(P, c, given, h)
    BY <2>1 DEF InProgress, IInv
  <2>2. PICK P \in {Program(c)}, given \in {Given_to(c)} :
          \E h \in 0..Len(P) : Core(P, c, given, h)
    BY <2>0
  <2>3. PICK h \in 0..Len(P) : Core(P, c, given, h)
    BY <2>2
  <2>4. PICK results_ \in {Results(c)} : TRUE
    OBVIOUS
  <2>5. /\ c \in Call /\ c # Failed /\ P \in Code /\ Ordered(P, c) /\ Apart(P, c)
        /\ Fed(P, given, results_) /\ OnHostOnly(given) /\ Len(P) \in Nat
    BY <1>0, CallParts DEF Code
  <2>6. CASE HostStep
    <3>1. h < Len(P) /\ Core(P, c, given, h + 1)'
      BY <1>0, <2>3, <2>5, <2>6, HostCore
    <3>2. InProgress'
      BY <2>5, <3>1, <1>4
    <3>3. call' = call /\ results' = results
      BY <2>6 DEF HostStep, LaunchKernel, Copy, RecordEvent, WaitEvent, SynchronizeEvent,
                  ComputeOnHost, Advance
    <3>4. OutputsOf'
      BY <1>r, <3>3 DEF IInv, OutputsOf
    <3> QED BY <1>0, <1>3, <3>2, <3>4 DEF IInv
  <2>7. CASE Abort
    <3>1. /\ call' = Failed /\ todo' = <<>> /\ number' = number /\ awaited' = awaited
          /\ event' = event /\ queue' = queue /\ mem' = mem
      BY <2>7 DEF Abort
    <3>2. Core(P, c, given, h)'
      <4>1. Queued(P, c, h)'
        BY <2>3, <3>1 DEF Core, Queued, FromProgram, InOrder, NoneSkipped, Done, Pending, IdAt
      <4>2. EventsRight(P, h)'
        BY <2>3, <3>1 DEF Core, EventsRight
      <4>3. Waits_(P, c, h)'
        BY <2>3, <3>1 DEF Core, Waits_, WaitsDone, AwaitedDone, Drained, Done, Pending, IdAt
      <4>4. MemoryRight(P, given, h)'
        BY <2>3, <3>1 DEF Core, MemoryRight, CellsTouched, Done, Pending, IdAt
      <4> QED BY <2>3, <3>1, <4>1, <4>2, <4>3, <4>4 DEF Core
    <3>3. InProgress'
      BY <3>2, <1>4
    <3>4. OutputsOf'
      BY <1>r, <3>1, GpuAssumption
    <3> QED BY <1>0, <1>3, <3>3, <3>4 DEF IInv
  <2>8. ASSUME NEW s \in Streams, Execute(s) PROVE IInv'
    <3>1. Core(P, c, given, h)'
      BY <1>0, <2>3, <2>5, <2>8, ExecuteCore
    <3>2. InProgress'
      BY <3>1, <1>4
    <3>3. call' = call /\ results' = results
      BY <2>8 DEF Execute
    <3>4. OutputsOf'
      BY <1>r, <3>3 DEF IInv, OutputsOf
    <3> QED BY <1>0, <1>3, <3>2, <3>4 DEF IInv
  <2> QED BY <1>6, <2>6, <2>7, <2>8
<1>7. CASE UNCHANGED vars
  <2>1. Quiet' <=> Quiet
    BY <1>7 DEF vars, Quiet
  <2>2. ASSUME NEW c, NEW P, NEW given, NEW h, Core(P, c, given, h) PROVE Core(P, c, given, h)'
    BY <1>7, <2>2 DEF vars, Core, Queued, FromProgram, InOrder, NoneSkipped, EventsRight, Waits_,
         WaitsDone, AwaitedDone, Drained, MemoryRight, CellsTouched, Done, Pending, IdAt
  <2>3. InProgress => InProgress'
    <3> SUFFICES ASSUME InProgress PROVE InProgress'
      OBVIOUS
    <3>0. PICK c \in Calls(cfg) : \E P \in {Program(c)}, given \in {Given_to(c)} :
            \E h \in 0..Len(P) : Core(P, c, given, h)
      BY DEF InProgress
    <3>1. PICK P \in {Program(c)}, given \in {Given_to(c)} :
            \E h \in 0..Len(P) : Core(P, c, given, h)
      BY <3>0
    <3>2. PICK h \in 0..Len(P) : Core(P, c, given, h)
      BY <3>1
    <3>3. Core(P, c, given, h)'
      BY <2>2, <3>2
    <3> QED BY <1>4, <3>3
  <2>4. OutputsOf'
    BY <1>r, <1>7 DEF IInv, OutputsOf, vars
  <2> QED BY <1>0, <1>3, <2>1, <2>3, <2>4 DEF IInv
<1> QED BY <1>5, <1>6, <1>7 DEF Next, HostStep

-----------------------------------------------------------------------------
(* What the invariant implies. *)

(* A conflict is symmetric. *)
LEMMA NoConflict ==
  ASSUME NEW in1, NEW out1, NEW in2, NEW out2,
         Conflict(in1, out1, in2, out2)
  PROVE  Conflict(in2, out2, in1, out1)
BY DEF Conflict

(* Two operations of a program that are next in their streams do not meet. *)
LEMMA HeadsApart ==
  ASSUME NEW P \in Code, NEW c, NEW h \in 0..Len(P), Queued(P, c, h), Waits_(P, c, h),
         number \in Nat, queue \in [Streams -> Seq(Operations)], Ordered(P, c),
         NEW i \in 1..h, NEW j \in 1..h, i < j, NEW s \in Streams, StreamOf(P[j]) = s, Ready(s),
         Head(queue[s]) = OpAt(number, P, c, j), ~Done(P, i),
         Conflict(StreamIn(c, P[i]), StreamOut(P[i]), StreamIn(c, P[j]), StreamOut(P[j]))
  PROVE  FALSE
<1>0. Len(P) \in Nat /\ i \in DOMAIN P /\ j \in DOMAIN P /\ queue[s] \in Seq(Operations)
  BY DEF Code
<1>1. Complete(P, c, i, j - 1) \/ Waited(P, i, j)
  BY <1>0 DEF Ordered
<1>2. CASE Complete(P, c, i, j - 1)
  <2>1. j - 1 \in 0..h /\ Past(j - 1, h)
    BY <1>0 DEF Past
  <2> QED BY <1>2, <2>1, CompleteDone
<1>3. CASE Waited(P, i, j)
  BY <1>0, <1>3, WaitedAtHead DEF Waits_
<1> QED BY <1>1, <1>2, <1>3

(* The arrays of the host are not on the device. *)
LEMMA HostArraysTouched ==
  OnHostOnly([i \in 1..6 |-> Data(Array(<<"Q", "S", "T", "Vr", "Vt", "Vp">>[i]), "junk")])
<1> DEFINE names == <<"Q", "S", "T", "Vr", "Vt", "Vp">>
           data == [i \in 1..6 |-> Data(Array(names[i]), "junk")]
<1>1. \A i \in 1..6 : names[i] \in Spectra \cup Fields
  BY DEF Spectra, Fields
<1> HIDE DEF names
<1>2. \A x \in Touched(data) : \E a \in Spectra \cup Fields : x \in CellsOf(Array(a))
  BY <1>1 DEF Touched, Data
<1>3. \A a \in Spectra \cup Fields : \A x \in CellsOf(Array(a)) : x[1] \in HostArrays
  <2> TAKE a \in Spectra \cup Fields
  <2>1. OnHostOnly([b \in {a} |-> Data(Array(b), b)])
    BY CallerArrays
  <2>2. Touched([b \in {a} |-> Data(Array(b), b)]) = CellsOf(Array(a))
    BY DEF Touched, Data
  <2> QED BY <2>1, <2>2 DEF OnHostOnly
<1>4. OnHostOnly(data)
  BY <1>2, <1>3 DEF OnHostOnly
<1> QED BY <1>4 DEF names

(* No data touch no cell. *)
LEMMA NothingTouched ==
  Touched(<<>>) = {} /\ OnHostOnly(<<>>)
BY DEF Touched, OnHostOnly

(* Data on the host and on the device do not meet. *)
LEMMA SeparateMemory ==
  ASSUME NEW in1, NEW out1, NEW in2, NEW out2, OnHostOnly(in1), OnHostOnly(out1),
         OnDeviceOnly(in2), OnDeviceOnly(out2)
  PROVE  ~Conflict(in1, out1, in2, out2)
BY DEF Conflict, OnHostOnly, OnDeviceOnly

(* The operations which may run together do not meet in memory. *)
LEMMA RaceFree == IInv => NoRace
<1> SUFFICES ASSUME IInv PROVE NoRace
  OBVIOUS
<1>0. TInv /\ queue \in [Streams -> Seq(Operations)]
  BY DEF IInv, TInv
<1>1. CASE Quiet
  <2>1. \A s \in Streams : ~Ready(s)
    BY <1>1 DEF Quiet, Ready
  <2>2. "comp" \in Streams
    BY DEF Streams
  <2> QED BY <2>1, <2>2 DEF NoRace
<1>2. CASE InProgress
  <2>0. PICK c \in Calls(cfg) : \E P \in {Program(c)}, given \in {Given_to(c)} :
          \E h \in 0..Len(P) : Core(P, c, given, h)
    BY <1>2 DEF InProgress
  <2>1. PICK P \in {Program(c)}, given \in {Given_to(c)} :
          \E h \in 0..Len(P) : Core(P, c, given, h)
    BY <2>0
  <2>2. PICK h \in 0..Len(P) : Core(P, c, given, h)
    BY <2>1
  <2>3. /\ c \in Call /\ c # Idle /\ c # Failed /\ P \in Code
        /\ Ordered(P, c) /\ Apart(P, c) /\ Ends(P, c) /\ Len(P) \in Nat /\ DOMAIN P = 1..Len(P)
    BY <1>0, CallParts DEF IInv, Code
  <2>4. /\ number \in Nat \ {0} /\ Queued(P, c, h) /\ Waits_(P, c, h)
        /\ (call = c /\ todo = SubSeq(P, h + 1, Len(P))) \/ (call = Failed /\ todo = <<>>)
    BY <2>2, GpuAssumption DEF Core
  <2>5. ASSUME NEW s \in Streams, Ready(s)
        PROVE  /\ queue[s] \in Seq(Operations) /\ queue[s] # <<>>
               /\ \A id : Head(queue[s]).id = id => Pending(id)
               /\ \/ s = "comp" /\ IsLeft(Head(queue[s]), number) /\ 1 \in DOMAIN queue[s]
                     /\ Head(queue[s]) = queue[s][1]
                  \/ \E j \in 1..h : StreamOf(P[j]) = s /\ Head(queue[s]) = OpAt(number, P, c, j)
    <3>1. queue[s] \in Seq(Operations) /\ queue[s] # <<>>
      BY <1>0, <2>5 DEF Ready
    <3>2. 1 \in DOMAIN queue[s] /\ Head(queue[s]) = queue[s][1]
      BY <3>1
    <3> QED BY <3>1, <3>2, <2>3, <2>4, InFront DEF Queued, Pending
  <2>6. ASSUME NEW s \in Streams, Ready(s), NEW j \in 1..h, Head(queue[s]) = OpAt(number, P, c, j)
        PROVE  /\ ~Done(P, j)
               /\ Head(queue[s]).in = StreamIn(c, P[j]) /\ Head(queue[s]).out = StreamOut(P[j])
    BY <2>5, <2>6, OpFields DEF Done
  <2>7. ASSUME \A s \in Streams : Ready(s)
        PROVE  ~Conflict(Head(queue["comp"]).in, Head(queue["comp"]).out,
                         Head(queue["xfer"]).in, Head(queue["xfer"]).out)
    <3>1. Ready("comp") /\ Ready("xfer") /\ "comp" \in Streams /\ "xfer" \in Streams
      BY <2>7 DEF Streams
    <3>2. PICK j \in 1..h : StreamOf(P[j]) = "xfer" /\ Head(queue["xfer"]) = OpAt(number, P, c, j)
      BY <3>1, <2>5
    <3>3. j \in 1..Len(P)
      BY <2>3
    <3>4. CASE IsLeft(Head(queue["comp"]), number) /\ 1 \in DOMAIN queue["comp"]
               /\ Head(queue["comp"]) = queue["comp"][1]
      <4>1. ~Works(P[j])
        <5> SUFFICES ASSUME Works(P[j]) PROVE FALSE
          OBVIOUS
        <5>1. CompWaited(P, c, j - 1)
          BY <2>3, <3>2, <3>3 DEF Apart
        <5>2. j - 1 \in 0..h /\ Past(j - 1, h)
          BY <2>3 DEF Past
        <5> QED BY <2>3, <2>4, <3>4, <5>1, <5>2, CompWaitedNoneLeft
      <4>2. StreamIn(c, P[j]) = <<>> /\ StreamOut(P[j]) = <<>>
        BY <4>1 DEF Works, StreamIn, StreamOut
      <4> QED BY <2>6, <3>1, <3>2, <4>2, NothingTouched DEF Conflict
    <3>5. ASSUME NEW i \in 1..h, StreamOf(P[i]) = "comp", Head(queue["comp"]) = OpAt(number, P, c, i)
          PROVE  ~Conflict(Head(queue["comp"]).in, Head(queue["comp"]).out,
                           Head(queue["xfer"]).in, Head(queue["xfer"]).out)
      <4>1. i # j
        BY <3>2, <3>5
      <4>2. ~Done(P, i) /\ ~Done(P, j)
        BY <2>6, <3>1, <3>2, <3>5
      <4>3. SUFFICES ASSUME Conflict(StreamIn(c, P[i]), StreamOut(P[i]),
                                     StreamIn(c, P[j]), StreamOut(P[j]))
                     PROVE  FALSE
        BY <2>6, <3>1, <3>2, <3>5
      <4>4. CASE i < j
        BY <1>0, <2>3, <2>4, <3>1, <3>2, <4>2, <4>3, <4>4, HeadsApart
      <4>5. CASE j < i
        <5>1. Conflict(StreamIn(c, P[j]), StreamOut(P[j]), StreamIn(c, P[i]), StreamOut(P[i]))
          BY <4>3, NoConflict
        <5> QED BY <1>0, <2>3, <2>4, <3>1, <3>5, <4>2, <4>5, <5>1, HeadsApart
      <4> QED BY <4>1, <4>4, <4>5
    <3> QED BY <2>5, <3>1, <3>4, <3>5
  <2>8. ASSUME NEW s \in Streams, Ready(s)
        PROVE  ~Conflict(HostReads, HostWrites, Head(queue[s]).in, Head(queue[s]).out)
    <3>1. CASE todo # <<>> /\ Running
      <4>1. call = c /\ todo = SubSeq(P, h + 1, Len(P))
        BY <2>4, <3>1
      <4>2. h < Len(P) /\ h + 1 \in 1..Len(P) /\ Head(todo) = P[h + 1]
        BY <2>3, <3>1, <4>1, Position
      <4>3. HostReads = HostIn(c, P[h + 1]) /\ HostWrites = HostOut(P[h + 1])
        BY <3>1, <4>1, <4>2 DEF HostReads, HostWrites, HostIn, HostOut, IsStaged, Next_is, Returned
      <4>4. CASE IsLeft(Head(queue[s]), number)
        <5>1. OnHostOnly(HostIn(c, P[h + 1])) /\ OnHostOnly(HostOut(P[h + 1]))
          BY <2>3, <4>2 DEF Apart
        <5> QED BY <4>3, <4>4, <5>1, SeparateMemory DEF IsLeft
      <4>5. ASSUME NEW i \in 1..h, Head(queue[s]) = OpAt(number, P, c, i),
                   Conflict(StreamIn(c, P[i]), StreamOut(P[i]),
                            HostIn(c, P[h + 1]), HostOut(P[h + 1]))
            PROVE  FALSE
        <5>1. i \in DOMAIN P /\ h + 1 \in DOMAIN P /\ i < h + 1 /\ (h + 1) - 1 = h
          BY <2>3, <4>2
        <5>2. Complete(P, c, i, h)
          BY <2>3, <4>5, <5>1 DEF Ordered
        <5>3. Past(h, h) /\ h \in 0..h
          BY <2>3, <3>1 DEF Past
        <5>4. Done(P, i)
          BY <2>3, <2>4, <5>2, <5>3, CompleteDone
        <5> QED BY <2>6, <2>8, <4>5, <5>4
      <4> QED BY <2>5, <2>6, <2>8, <4>3, <4>4, <4>5, NoConflict
    <3>2. CASE ~(todo # <<>> /\ Running) /\ Returned
      <4>1. HostReads = <<>>
        BY <3>2 DEF HostReads, Next_is
      <4>2. OnHostOnly(HostReads) /\ OnHostOnly(HostWrites)
        BY <3>2, <4>1, NothingTouched, HostArraysTouched DEF HostWrites, Next_is
      <4>3. IsLeft(Head(queue[s]), number + 1)
        BY <2>5, <2>8, <3>2, CallsAgain
      <4> QED BY <4>2, <4>3, SeparateMemory DEF IsLeft
    <3>3. CASE ~(todo # <<>> /\ Running) /\ ~Returned
      <4>1. HostReads = <<>> /\ HostWrites = <<>>
        BY <3>3 DEF HostReads, HostWrites, Next_is
      <4> QED BY <4>1, NothingTouched DEF Conflict
    <3> QED BY <3>1, <3>2, <3>3
  <2> QED BY <2>7, <2>8 DEF NoRace
<1> QED BY <1>1, <1>2 DEF IInv

(* Nothing is left when a transform of host data has returned. *)
LEMMA EndsEmpty == IInv => NothingPending
BY CallsAgain DEF NothingPending

(* The results are there when a transform has returned. *)
LEMMA ResultsThere == IInv => ResultsRight
<1> SUFFICES ASSUME IInv, Returned, NEW a \in results
             PROVE  IF call.name \in DeviceTransforms
                    THEN queue["comp"] = <<>> =>
                           Holds(Data(DeviceArray(a), DeviceLayout(a)), number)
                    ELSE Holds(Data(Array(a), a), number)
  BY DEF ResultsRight
<1>1. InProgress
  BY DEF IInv, Quiet, Returned
<1>2. PICK c \in Calls(cfg) : \E P \in {Program(c)}, given \in {Given_to(c)} :
        \E h \in 0..Len(P) : Core(P, c, given, h)
  BY <1>1 DEF InProgress
<1>3. PICK P \in {Program(c)}, given \in {Given_to(c)} :
        \E h \in 0..Len(P) : Core(P, c, given, h)
  BY <1>2
<1>4. PICK h \in 0..Len(P) : Core(P, c, given, h)
  BY <1>3
<1>5. PICK results_ \in {Results(c)} : TRUE
  OBVIOUS
<1>6. /\ c \in Call /\ P \in Code /\ Apart(P, c) /\ Ends(P, c) /\ Fed(P, given, results_)
      /\ Len(P) \in Nat /\ queue \in [Streams -> Seq(Operations)]
  BY CallParts DEF IInv, Code, TInv
<1>7. call = c /\ SubSeq(P, h + 1, Len(P)) = <<>> /\ Running
  BY <1>4 DEF Core, Returned
<1>8. h = Len(P)
  BY <1>6, <1>7, AtEnd
<1>9. number \in Nat \ {0} /\ Queued(P, c, h) /\ Waits_(P, c, h) /\ MemoryRight(P, given, h)
  BY <1>4, GpuAssumption DEF Core
<1>10. Result(c, a) \in results_
  BY <1>6, <1>7 DEF IInv, OutputsOf, Results
<1>11. CASE c.name \notin DeviceTransforms
  <2>1. \A i \in 1..h : Done(P, i)
    BY <1>6, <1>7, <1>8, <1>9, <1>11, AllDone
  <2>2. \A d \in results_ : Holds(d, number)
    BY <1>6, <1>8, <1>9, <2>1, ResultFound
  <2> QED BY <1>7, <1>10, <1>11, <2>2 DEF Result
<1>12. CASE c.name \in DeviceTransforms /\ queue["comp"] = <<>>
  <2>1. ASSUME NEW i \in 1..h PROVE Done(P, i)
    <3>1. i \in 1..Len(P) /\ i \in DOMAIN P
      BY <1>6, <1>8 DEF Code
    <3>2. StreamOf(P[i]) = "comp"
      BY <1>6, <1>12, <3>1 DEF Apart
    <3>3. ~Done(P, i) => \E p \in DOMAIN queue["comp"] : TRUE
      BY <1>6, <1>9, <3>1, <3>2, InQueue DEF Queued
    <3> QED BY <1>12, <3>3
  <2>2. \A d \in results_ : Holds(d, number)
    BY <1>6, <1>8, <1>9, <2>1, ResultFound
  <2> QED BY <1>7, <1>10, <1>12, <2>2 DEF Result
<1> QED BY <1>7, <1>11, <1>12

(* If the programs of the calls are ordered, the inductive invariant      *)
(* holds in every state, for any interleaving of the host with its two    *)
(* streams and any upload that fails.                                     *)
THEOREM StreamInvariant == Spec /\ ProgramsOrdered => []IInv
BY Initially, Stepwise, PTL DEF Spec

(* If the programs of the calls are ordered, the operations at the head   *)
(* of the streams and the instruction of the host never use the same      *)
(* cells while one of them writes there: the events and waits of          *)
(* sht_gpu.cu are enough, also for a call that starts while the last one  *)
(* goes on.                                                               *)
THEOREM RacesAbsent == Spec /\ ProgramsOrdered => []NoRace
BY StreamInvariant, RaceFree, PTL

(* If the programs of the calls are ordered, a transform that has         *)
(* returned has left its results, of this call and not of an earlier one: *)
(* in the arrays of the host, or in those of the device once comp_stream  *)
(* is done.                                                               *)
THEOREM ResultsFound == Spec /\ ProgramsOrdered => []ResultsRight
BY StreamInvariant, ResultsThere, PTL

(* If the programs of the calls are ordered, a transform of host data     *)
(* returns only when both streams are empty.                              *)
THEOREM NothingLeft == Spec /\ ProgramsOrdered => []NothingPending
BY StreamInvariant, EndsEmpty, PTL
=============================================================================
