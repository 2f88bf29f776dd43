--------------------------- MODULE ReportConsensus ---------------------------
(***************************************************************************)
(* What the on-chain oracle promises about a report, with none of the      *)
(* counters the program keeps: a report is opened by an agent whose own    *)
(* ballot is a yes, other agents cast one ballot each, and the report is   *)
(* decided at most once.  The agents authorized at the opening are its     *)
(* electorate and fix how many ballots decide it; ballots of agents        *)
(* authorized since count as theirs do.  It is accepted exactly when as    *)
(* many agents as make two thirds of the electorate have said yes, and     *)
(* rejected only when so many have said no that the electorate less as     *)
(* many is too few for two thirds.                                         *)
(***************************************************************************)
EXTENDS Integers, FiniteSets

CONSTANTS Reports,      \* identifiers of reports
          Agents        \* the agents that may ever be authorized

VARIABLES electorate,   \* [Reports -> SUBSET Agents]: authorized at the opening
          ballots,      \* [Reports -> [Agents -> {"none", "yes", "no"}]]
          decision      \* [Reports -> {"none", "pending", "accepted", "rejected"}]

vars == <<electorate, ballots, decision>>

Cast(b, v) == Cardinality({a \in Agents : b[a] = v})

\* The decisions a report with n electors may be in after the ballots b, whoever
\* cast them.
Verdicts(n, b) ==
    IF 3 * Cast(b, "yes") >= 2 * n
    THEN {"accepted"}
    ELSE {"pending"} \cup
         {d \in {"rejected"} : 3 * (n - Cast(b, "no")) < 2 * n}

Init ==
    /\ electorate = [r \in Reports |-> {}]
    /\ ballots = [r \in Reports |-> [a \in Agents |-> "none"]]
    /\ decision = [r \in Reports |-> "none"]

Open(r, a) ==
    /\ decision[r] = "none"
    /\ \E E \in SUBSET Agents :
          /\ a \in E
          /\ electorate' = [electorate EXCEPT ![r] = E]
          /\ ballots' = [ballots EXCEPT ![r][a] = "yes"]
          /\ \E d \in Verdicts(Cardinality(E), ballots'[r]) :
                decision' = [decision EXCEPT ![r] = d]

Vote(r, a, v) ==
    /\ decision[r] = "pending"
    /\ ballots[r][a] = "none"
    /\ ballots' = [ballots EXCEPT ![r][a] = v]
    /\ \E d \in Verdicts(Cardinality(electorate[r]), ballots'[r]) :
          decision' = [decision EXCEPT ![r] = d]
    /\ UNCHANGED electorate

Next ==
    \E r \in Reports, a \in Agents :
        \/ Open(r, a)
        \/ \E v \in {"yes", "no"} : Vote(r, a, v)

Spec == Init /\ [][Next]_vars
=============================================================================
