------------------------- MODULE MCParallelTransform ------------------------
EXTENDS ParallelTransform

(* The runs that must pass leave out the calls for which the code is wrong. *)
Sound == {s \in Build \X Call : ~Spoiled(s[1], s[2]) /\ ~Leaking(s[1], s[2])}
MCScenarios ==
  {s \in Sound : s[2].kernel = "mic" => s[2].comps = 2}

(* Those which lose their buffers. *)
MCLeaking ==
  {s \in Build \X Call :
     Leaking(s[1], s[2]) /\ s[1].fftw_omp /\ s[2].kernel = "omp"}

(* Those whose FFTs go wrong in a build that configure refuses. *)
MCSpoiled == {s \in Build \X Call : Spoiled(s[1], s[2])}
=============================================================================
