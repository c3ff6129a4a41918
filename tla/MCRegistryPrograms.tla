------------------------- MODULE MCRegistryPrograms -------------------------
(* Two kinds of programs on three configurations: with several sizes, or   *)
(* with one size, grids and copies.                                        *)
EXTENDS MCShtRegistry

VARIABLE program

ProgramInit == Init /\ program \in {"sizes", "copies"}

(* A copy does not read its own offsets. *)
Within(p) ==
  \A c \in Live : IF p = "copies" THEN hdr[c].norm = "schmidt"
                  ELSE c \in index /\ hdr[c].nlat = 0
(* What the order of the chain changes is who of several suits as a donor. *)
Reorders == Len(list') = Len(list) /\ list' # list
ProgramNext ==
  Next /\ UNCHANGED program /\ Within(program)' /\ (Reorders => program = "sizes")

ProgramSpec == ProgramInit /\ [][ProgramNext]_<<vars, program>>
=============================================================================
