---------------------------- MODULE MCGridFree ----------------------------
(***************************************************************************)
(* Programs of a few calls, for sizes with and without a multiplicity of   *)
(* the orders, with odd and even truncations.                              *)
(***************************************************************************)
EXTENDS GridFree, TLC

\* Near the pole the orders above 0 begin late.
MCFaint == [x \in Lat |-> [m \in 0..4 |-> IF x = "polar" THEN m \div 2 ELSE 0]]

Call(f, c, x, n, l, m) ==
  [fn |-> f, cfg |-> c, x |-> x, nphi |-> n, ltr |-> l, mtr |-> m, base |-> c, same |-> FALSE]
Plain(f, c) == Call(f, c, "temperate", 1, 0, 0)
Copy(c, b) == [Plain("shtns_create_with_grid", c) EXCEPT !.base = b]
Size(l, m, r, n) == [lmax |-> l, mmax |-> m, mres |-> r, schmidt |-> n]
Job(s, p) == s @@ [prog |-> p, nway |-> 2, vsize2 |-> 2]
\* With narrow vectors a degree of 4 needs two blocks of latitudes.
Narrow(j) == {j, [j EXCEPT !.nway = 1], [j EXCEPT !.vsize2 = 1]}

\* With a multiplicity, and closed under rotations.
Sparse == {Size(5, 2, 2, TRUE), Size(6, 2, 2, FALSE), Size(4, 4, 1, TRUE), Size(3, 0, 1, FALSE)}
Closed == {Size(2, 2, 1, FALSE), Size(3, 3, 1, TRUE), Size(4, 4, 1, FALSE)}

c1 == "c1"
c2 == "c2"
Cfgs == {c1, c2}
Lats == {"temperate", "polar"}

\* Two calls on one configuration and one on another: the second on the first one changes the
\* latitude, or is truncated to the same degrees and orders or to less.
Truncations == {<<1, 9, 9>>, <<5, 9, 1>>, <<8, 4, 9>>, <<9, 2, 1>>, <<16, 9, 9>>}
LatPrograms ==
  {<<Call(f, c1, x[1], t[1], t[2], t[3]), Call("SH_to_lat", c2, "polar", 4, 3, 2), Call(g, c1, x[2], u[1], u[2], u[3])>> :
     f \in ToLat, g \in ToLat, x \in Lats \X Lats, t \in Truncations, u \in Truncations}
\* A copy which is used for the same latitudes and numbers of longitudes as its base.
CopyPrograms ==
  {<<Call("SHqst_to_lat", c1, "polar", 8, 9, 9), Copy(c2, c1), Call("SHqst_to_lat", c2, "polar", 8, 9, 9),
     Call("SH_to_lat", c1, "polar", 8, 9, 9)>>}
OtherPrograms ==
  {<<Call(f, c1, x, 1, 0, 0)>> : f \in ToPoint, x \in Lats}
    \cup {<<Plain(f, c1), [Plain("SH_Zrotate", c1) EXCEPT !.same = b]>> : f \in Operators, b \in BOOLEAN}
MCJobs ==
  {Job(s, p) : s \in Sparse, p \in {q \in LatPrograms \cup CopyPrograms : Careful(q)} \cup OtherPrograms}
    \cup UNION {Narrow(Job(s, <<Plain(f, c1)>>)) : s \in Closed, f \in Rotations}
\* All of these programs are careful, so that the theorems about local fields apply to them.
ASSUME MCCareful == \A j \in MCJobs : Careful(j.prog)

\* One configuration, one latitude, and then more longitudes.
MCStale ==
  {Job(s, <<Call("SH_to_lat", c1, "temperate", 4, 9, 9), Call("SH_to_lat", c1, "temperate", 8, 9, 9)>>) : s \in Sparse}
=============================================================================
