---------------------------- MODULE MCRateLimiter ----------------------------
(***************************************************************************)
(* RateLimiter on a small instance: the two endpoints that agents call     *)
(* before they do anything, with limits in the order of the code's 5 and   *)
(* 60.                                                                     *)
(***************************************************************************)
EXTENDS RateLimiter, TLC

Symmetry == Permutations(Clients) \cup Permutations(InFlight) \cup Permutations(Workers)

LimitsChecked == [e \in Endpoints |-> IF e = "register" THEN 1 ELSE 2]
=============================================================================
