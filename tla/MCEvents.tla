------------------------------ MODULE MCEvents ------------------------------
(***************************************************************************)
(* Events on a small instance.                                             *)
(***************************************************************************)
EXTENDS Events, TLC

\* Requests are interchangeable: no property names one.
Symmetry == Permutations(Requests)

\* Two shapes of operation: a row of its own and an announcement, and an event's row that is
\* not announced beside one that is.  The severities tell the channels apart.
OperationsChecked == {<<"register", None>>, <<"pattern", "critical">>}
=============================================================================
