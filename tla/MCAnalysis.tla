----------------------------- MODULE MCAnalysis -----------------------------
(***************************************************************************)
(* Analysis on facts on both sides of every threshold of the scorers.      *)
(***************************************************************************)
EXTENDS Analysis

\* IDLs: none; up to three writable and two read-only unchecked accounts.
ProgramsChecked ==
    [kind: {"program"}, hasIdl: BOOLEAN, instructions: {1, 20}, writable: {0, 2, 3},
     readonly: {0, 2}, cpi: {0, 1, 4}, upgradeable: BOOLEAN, known: BOOLEAN, listed: BOOLEAN,
     ageDays: {0, 100, 400}]
MintsChecked ==
    [kind: {"mint"}, mintAuthority: BOOLEAN, freezeAuthority: BOOLEAN,
     holders: {[top5 |-> 20, largest |-> 4, whales |-> 0], [top5 |-> 61, largest |-> 20, whales |-> 4],
               [top5 |-> 95, largest |-> 51, whales |-> 5]},
     walletAccounts: {4, 5}, known: {FALSE}, listed: BOOLEAN, ageDays: {0, 6, 7, 400}]
PersonsChecked ==
    [kind: {"person"}, level: {"unverified", "premium"}, category: {"athlete", "general"},
     tally: {NoNews}, pending: {NoNews}]
AgentsChecked ==
    [kind: {"agent"}, filled: {1, 5}, capabilities: {0, 2}, online: {FALSE},
     contributions: {0}, verified: {0}, penalized: {0}, both: {0}, points: {0}]
=============================================================================
