---------------------------- MODULE MCGpuStreams ----------------------------
EXTENDS GpuOrder

(* Fewer coefficients than points, as many, and more; without rows in the  *)
(* middle, with some that are not worth leaving out, and with many.        *)
G(native, nlat_2, nphi, mmax, nlm) ==
  [native |-> native, nlat_2 |-> nlat_2, nphi |-> nphi, mmax |-> mmax,
   nlm |-> nlm]
MCConfigs ==
  {G(FALSE, 32, 16, 5, 1), G(FALSE, 32, 16, 7, 3), G(FALSE, 32, 15, 7, 2),
   G(TRUE, 32, 16, 5, 2), G(TRUE, 32, 16, 7, 1), G(TRUE, 32, 15, 7, 3)}

(* The last download of these is made on the default stream, and those on  *)
(* the other stream may still be going on when they return.                *)
Unfinished ==
  {"SHsphtor_to_spat_gpu", "SHqst_to_spat_gpu", "SHqst_to_spat_gpu2",
   "spat_to_SHqst_gpu", "spat_to_SHqst_gpu2"}

(* Vector transforms with FFTs on the host out of place do not clear the   *)
(* middle of xfft_cpu; the scalar one may copy that of the device, which   *)
(* nothing cleared.                                                        *)
Uncleared(g) ==
  (IF g.native
   THEN {"SHsphtor_to_spat_gpu_hostfft", "SHsphtor_to_spat_gpu2_hostfft",
         "SHqst_to_spat_gpu_hostfft", "SHqst_to_spat_gpu2_hostfft"}
   ELSE {})
  \cup (IF 12 * (g.mmax + 1) >= 5 * g.nphi
        THEN {"SH_to_spat_gpu_hostfft"} ELSE {})

(* On the device, the native layout of other sizes is not the host's.      *)
OtherLayout(g) ==
  IF g.native /\ g.nphi % 16 # 0
  THEN {"SH_to_spat_gpu", "SHsphtor_to_spat_gpu", "SHsphtor_to_spat_gpu2",
        "SHqst_to_spat_gpu", "SHqst_to_spat_gpu2", "spat_to_SH_gpu",
        "spat_to_SHsphtor_gpu", "spat_to_SHsphtor_gpu2",
        "spat_to_SHqst_gpu", "spat_to_SHqst_gpu2"}
  ELSE {}

MCCalls(g) ==
  {c \in Call :
     /\ c.name \notin OtherLayout(g)
     /\ c.pinned => c.name \notin Unfinished
     /\ g.nphi > 2 * g.mmax + 1 => c.name \notin Uncleared(g)}

PinnedCalls(g) == {c \in Call : c.pinned /\ c.name \in Unfinished}
OneConfig == {G(FALSE, 32, 16, 5, 1)}
=============================================================================
