-------------------------------- MODULE Sums --------------------------------
(***************************************************************************)
(* The sum of the values of a function, by counting its units: a positive  *)
(* value v at x stands for the v pairs <<x, 1>> ... <<x, v>>, a negative   *)
(* one for as many pairs to subtract.  Cardinalities need no recursion, so *)
(* how a sum changes with the function can be proved.                      *)
(***************************************************************************)
EXTENDS Integers, FiniteSets

Units(f) == UNION {{x} \X (1 .. f[x]) : x \in DOMAIN f}
Negated(f) == [x \in DOMAIN f |-> -f[x]]
Total(f) == Cardinality(Units(f)) - Cardinality(Units(Negated(f)))
=============================================================================
