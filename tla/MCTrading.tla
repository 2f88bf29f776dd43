----------------------------- MODULE MCTrading -----------------------------
(***************************************************************************)
(* Trading on a small instance: one token, two processes of the API.       *)
(***************************************************************************)
EXTENDS Trading, SequencesExt, TLC

\* Workers and requests are interchangeable: no property names one.
Symmetry == Permutations(Workers) \cup Permutations(Requests)

\* 10 to 15 is a rise of exactly 50%, 10 to 7 a fall of exactly 30%, 15 to 10 and 15 to 7
\* are cliffs, and the USD price is a tenth so that a buy and a sale of 1 compare.
PricesChecked == {[sol |-> p, usd |-> 1] : p \in {7, 10, 15}}

\* Four wallets have bought as much each at 10: one more purchase at 15 spreads over five
\* wallets or over four.
Bought10(x) == [token |-> CHOOSE t \in Tokens : TRUE, trader |-> x, side |-> "buy",
                tokens |-> 99, sol |-> 100, price |-> 10, at |-> 0, state |-> "committed"]
HistoryChecked == {[i \in 1 .. 4 |-> Bought10(SetToSeq(Traders)[i + 1])]}
=============================================================================
