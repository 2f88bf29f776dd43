--------------------------- MODULE MCOracleEvents ---------------------------
(***************************************************************************)
(* OracleEvents on small instances.                                        *)
(***************************************************************************)
EXTENDS OracleEvents, TLC

\* Agents, reports and requests are interchangeable: no property names one.
Symmetry == Permutations(Agents) \cup Permutations(Events) \cup Permutations(Requests)
=============================================================================
