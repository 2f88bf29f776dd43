--------------------------- MODULE MCNileSecurity ---------------------------
(***************************************************************************)
(* NileSecurity on small instances.                                        *)
(***************************************************************************)
EXTENDS NileSecurity, FiniteSetsExt, TLC

\* Agents are interchangeable, and so are programs: no property names one.
Symmetry == Permutations(Agents) \cup Permutations(Programs)

\* Counting units is summing.
ASSUME TotalIsSum ==
    \A f \in [1 .. 3 -> -2 .. 2] : Total(f) = MapThenSumSet(LAMBDA x : f[x], 1 .. 3)
=============================================================================
