------------------------------- MODULE Scoring -------------------------------
(***************************************************************************)
(* The four dimensions, Name, Image, Likeness and Essence, as functions of *)
(* their inputs: services/nile_scorer.py for programs and tokens,          *)
(* services/soul_valuation.py for persons, services/agent_scorer.py for    *)
(* agents.                                                                 *)
(*                                                                         *)
(* Points are in hundredths, 10000 of them the most a dimension gives.     *)
(* What the code computes in floating point is rounded down to a           *)
(* hundredth, and the mean of the dimensions to the nearest, as round does.*)
(* Inputs no caller ever sets keep their defaults and are left out.        *)
(***************************************************************************)
EXTENDS Integers, Sequences, FiniteSets, FiniteSetsExt, Sums

Full == 10000
AtMost(bound, x) == Min({bound, x})
Clamp(x) == Max({0, Min({Full, x})})
When(condition, points) == IF condition THEN points ELSE 0

\* Plausible slips in the operators below, for the mutation runs.
ImageCpiAdded(in) ==
    Clamp(Full - 2000 * in.missingSigners - 1200 * in.missingOwners
               + 1500 * in.unsafeCpi - 800 * in.unvalidated)
PersonImageByNegativeShare(tally) ==
    LET n == Max({1, tally.positive + tally.negative + tally.neutral})
    IN  Clamp(2500 + (2500 * tally.negative) \div n)
AgentImageUncapped(in) ==
    LET base == IF in.contributions = 0 THEN 5000
                ELSE (7000 * in.verified + 3000 * (in.contributions - in.penalized))
                        \div in.contributions
    IN  IF in.online THEN base + 1000 ELSE base

-----------------------------------------------------------------------------
\* nile_scorer.py

\* in: verified, audits, ageDays, team, ecosystem (at most 2000), securityTxt.
NameScore(in) ==
    Clamp(When(in.verified, 2000) + AtMost(2000, 667 * in.audits)
          + AtMost(2000, (2000 * in.ageDays) \div 365)
          + (IF in.team THEN 2000 ELSE 500) + AtMost(2000, in.ecosystem)
          + When(in.securityTxt, 200))

\* in: missingSigners, missingOwners, unsafeCpi, unvalidated.
ImageScore(in) ==
    Clamp(Full - 2000 * in.missingSigners - 1200 * in.missingOwners
               - 1500 * in.unsafeCpi - 800 * in.unvalidated)

\* What a matched pattern costs, in steps of 5 points.
PatternDeduction(confidence) ==
    IF confidence > 80 THEN 4 ELSE IF confidence > 60 THEN 2 ELSE When(confidence > 40, 1)

\* matches: the confidence of each matched pattern; similarity in hundredths.
Deductions(matches) == Units([p \in DOMAIN matches |-> PatternDeduction(matches[p])])
LikenessScore(matches, similarity) ==
    Clamp(Full - 500 * Cardinality(Deductions(matches)) - 30 * similarity)

\* in: complexity (in hundredths), upgradeable, multisig, timelock, cpi.
EssenceScore(in) ==
    LET complexity == Max({0, Min({2500, 2500 - ((in.complexity - 500) * 5) \div 2})})
        upgrade == 2500 - (IF in.upgradeable
                           THEN 1000 + When(~in.multisig, 500) + When(~in.timelock, 500)
                           ELSE 0)
    IN  Clamp(complexity + upgrade + Max({0, 2500 - 200 * in.cpi}))

\* Each dimension counts for a quarter.
Composite(s) == (s.name + s.image + s.likeness + s.essence + 2) \div 4

Grades == <<"F", "D", "C", "B", "A", "A+">>
\* The index in Grades of a total.
GradeRank(total) ==
    IF total >= 9000 THEN 6
    ELSE IF total >= 8000 THEN 5
    ELSE IF total >= 7000 THEN 4
    ELSE IF total >= 6000 THEN 3
    ELSE IF total >= 5000 THEN 2 ELSE 1

-----------------------------------------------------------------------------
\* soul_valuation.py, with the inputs a revaluation gives it: the verification level and
\* the category of the person, and the tally of confirmed events.

VerificationPoints == [unverified |-> 0, verified |-> 2000, premium |-> 3000]
\* In thousands of dollars.
BaseValues == [unverified |-> 1, verified |-> 10, premium |-> 100]
\* In tenths.
CategoryMultipliers ==
    [athlete |-> 25, musician |-> 20, creator |-> 15, entrepreneur |-> 20, actor |-> 22,
     politician |-> 10, scientist |-> 12, general |-> 10]

\* Sentiment, 0.5 moved by 0.3 of the balance of the news; the share of good news, a
\* half when there are none.
PersonImageScore(tally) ==
    LET count == tally.positive + tally.negative + tally.neutral
        n == Max({count, 1})
    IN  Clamp(2500 + (1500 * (tally.positive - tally.negative)) \div n
              + (IF count > 0 THEN (2500 * tally.positive) \div n ELSE 1250))

PersonScores(person) ==
    [name |-> VerificationPoints[person.level],
     image |-> PersonImageScore(person.tally),
     likeness |-> 5000,
     essence |-> 1000]

\* In hundredths of a dollar; a score of 50 is worth the base value, momentum is 1.
FairValue(person) ==
    2 * BaseValues[person.level] * Composite(PersonScores(person))
      * CategoryMultipliers[person.category]

-----------------------------------------------------------------------------
\* agent_scorer.py.  in: filled (of name, description, version, owner and capabilities,
\* those the agent has), capabilities, online, contributions, verified, penalized, points.

AgentImageScore(in) ==
    LET base == IF in.contributions = 0 THEN 5000
                ELSE (7000 * in.verified + 3000 * (in.contributions - in.penalized))
                        \div in.contributions
    IN  IF in.online THEN AtMost(Full, base + 1000) ELSE base

AgentLikenessScore(in) ==
    Clamp(2000 * Cardinality({n \in {1, 5, 20} : in.contributions >= n})
          + AtMost(4000, 1500 * in.capabilities))

AgentEssenceScore(in) ==
    LET average == (100 * in.points) \div Max({in.contributions, 1})
    IN  IF in.points <= 0 THEN 0
        ELSE IF average >= 5000 THEN 8000 + AtMost(2000, (average - 5000) \div 5)
        ELSE IF average >= 1000 THEN 5000 + (3 * (average - 1000)) \div 4
        ELSE 5 * average

AgentScores(in) ==
    [name |-> 2000 * in.filled, image |-> AgentImageScore(in),
     likeness |-> AgentLikenessScore(in), essence |-> AgentEssenceScore(in)]
=============================================================================
