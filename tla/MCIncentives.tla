---------------------------- MODULE MCIncentives ----------------------------
(***************************************************************************)
(* Incentives on a small instance: one agent, whose row every session      *)
(* contends for.                                                           *)
(***************************************************************************)
EXTENDS Incentives, TLC

\* Contributions and sessions are interchangeable: no property names one.
Symmetry == Permutations(Contributions) \cup Permutations(Requests)

\* An entry of the table, a type without its severity, a severity the type ignores.
ClaimsChecked == {<<"detection", "high">>, <<"detection", "none">>, <<"patch", "low">>}
\* A reward, a penalty, an action the table does not have.
ActionsChecked == {"oracle_vote_correct", "oracle_vote_incorrect", "unknown"}
=============================================================================
