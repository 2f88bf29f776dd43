------------------------------ MODULE Analysis ------------------------------
(***************************************************************************)
(* From an address to a score and a grade on chain.                        *)
(* services/program_analyzer.py decides whether an address is a program or *)
(* a token, gathers what the chain and the registries say of it            *)
(* (chain_service.py, idl_fetcher.py, ecosystem_checker.py,                *)
(* pumpfun_analyzer.py), matches exploit patterns and scores it; the scan  *)
(* worker has the score written on chain (onchain_writer.py), where        *)
(* submit_score grades it again.  The other two scores, of persons and of  *)
(* agents, follow their news and their contributions.                      *)
(*                                                                         *)
(* A lookup never raises: one that fails answers None, FALSE, 0 or an      *)
(* empty list, as if it had found nothing.  Those of one gather run at the *)
(* same time and only what they answer matters: "missed" is the set of     *)
(* those that failed.                                                      *)
(***************************************************************************)
EXTENDS Scoring

CONSTANTS
    Programs,           \* what there may be to find out of a program
    Mints,              \* and of a token's mint
    Persons, Agents,    \* persons and agents without any history
    MaxNews             \* bound: events of a person, contributions of an agent

\* What may be known of each.
ProgramFacts ==
    [kind: {"program"}, hasIdl: BOOLEAN, instructions: Nat, writable: Nat, readonly: Nat, cpi: Nat,
     upgradeable: BOOLEAN, known: BOOLEAN, listed: BOOLEAN, ageDays: Nat]
MintFacts ==
    [kind: {"mint"}, mintAuthority: BOOLEAN, freezeAuthority: BOOLEAN,
     holders: [top5: Nat, largest: Nat, whales: Nat], walletAccounts: Nat, known: BOOLEAN,
     listed: BOOLEAN, ageDays: Nat]
\* The confirmed events of a person: those counted when it was valued last, and those
\* confirmed since without a valuation.
Signs == {"positive", "negative", "neutral"}
Tallies == [positive: Nat, negative: Nat, neutral: Nat]
NoNews == [positive |-> 0, negative |-> 0, neutral |-> 0]
PersonFacts ==
    [kind: {"person"}, level: DOMAIN VerificationPoints, category: DOMAIN CategoryMultipliers,
     tally: Tallies, pending: Tallies]
\* "both" counts the contributions verified after they were penalized, which are counted as
\* verified and as penalized too.
AgentFacts ==
    [kind: {"agent"}, filled: 0 .. 5, capabilities: Nat, online: BOOLEAN, contributions: Nat,
     verified: Nat, penalized: Nat, both: Nat, points: Int]
NewAgents ==
    {a \in AgentFacts : /\ a.contributions = 0 /\ a.verified = 0
                        /\ a.penalized = 0 /\ a.both = 0}

ASSUME AnalysisAssumption ==
    /\ Programs \subseteq ProgramFacts /\ Mints \subseteq MintFacts
    /\ Persons \subseteq PersonFacts
    /\ Agents \subseteq NewAgents

VARIABLES
    subject,            \* what is analysed: its facts, which the code sees through lookups
    phase,              \* of the scan of the subject
    missed,             \* the lookups that failed
    score               \* the four dimensions, or NoScore

vars == <<subject, phase, missed, score>>

NoScore == [name |-> 0, image |-> 0, likeness |-> 0, essence |-> 0]

\* The lookups: those that tell a program from a token, of a program, of a token.
\* "patterns" is the pattern database, a file.
TypeLookups == {"account", "mint"}
ProgramLookups == {"patterns", "idl", "authority", "jupiter", "age"}
TokenLookups == {"patterns", "jupiter", "age", "holders", "wallet", "lp", "mintAge",
                 "onJupiter"}

\* Plausible slips in the operators below, for the mutation runs.
RecordedUp(s) == [d \in DOMAIN s |-> (s[d] + 50) \div 100]
AgeOrOld(f, lookup, m) == IF lookup \in m THEN 365 ELSE f.ageDays

-----------------------------------------------------------------------------
\* What lookups answer.  The age is counted from the newest transaction, the only one asked
\* for: f.ageDays is how long the address has been quiet.
Age(f, lookup, m) == IF lookup \in m THEN 0 ELSE f.ageDays
Listed(f, lookup, m) == f.listed /\ lookup \notin m

EcosystemScore(f, m) ==
    LET age == Age(f, "age", m)
    IN  AtMost(2000, When(f.known, 1500) + When(Listed(f, "jupiter", m), 1000)
                     + (IF age > 365 THEN 500 ELSE IF age > 90 THEN 300 ELSE When(age > 30, 100)))

\* analyze_idl_security: accounts that are neither signers nor of a checked type are
\* unvalidated; those of them that are writable miss a signer.  f.cpi is the number of
\* instructions with an argument named after a program.
AnalyzeIdl(f, m) ==
    IF f.hasIdl /\ "idl" \notin m
    THEN [hasIdl |-> TRUE, instructions |-> f.instructions, unsafeCpi |-> f.cpi,
          missingSigners |-> f.writable, unvalidated |-> f.writable + f.readonly]
    ELSE [hasIdl |-> FALSE, instructions |-> 0, unsafeCpi |-> 0,
          missingSigners |-> 0, unvalidated |-> 0]

\* get_program_authority answers None when it fails, and never says "is_multisig".
Upgradeable(f, m) == f.upgradeable /\ "authority" \notin m

-----------------------------------------------------------------------------
\* Patterns of solana_exploits.json that a confidence is computed for.
ProgramPatterns ==
    {<<"SOL-001", "signature_verification">>, <<"SOL-003", "account_validation">>,
     <<"SOL-008", "access_control">>, <<"SOL-010", "cross_program">>}
      \cup ({"SOL-006", "SOL-011", "SOL-012", "SOL-013", "SOL-014"} \X {"rug_pull"})

PatternConfidence(category, idl, upgradeable) ==
    CASE category = "access_control" /\ idl.missingSigners > 0 ->
           60 + AtMost(30, 10 * idl.missingSigners)
      [] category = "account_validation" /\ idl.unvalidated > 0 ->
           50 + AtMost(30, 8 * idl.unvalidated)
      [] category = "cross_program" /\ idl.unsafeCpi > 0 -> 50 + AtMost(30, 10 * idl.unsafeCpi)
      [] category = "rug_pull" -> When(upgradeable, 30) + When(~idl.hasIdl, 20)
      [] category = "signature_verification" /\ idl.missingSigners > 1 -> 40
      [] OTHER -> 0

Matched(confidence) == [p \in {q \in DOMAIN confidence : confidence[q] > 30} |-> confidence[p]]

MatchExploitPatterns(f, m) ==
    Matched([p \in IF "patterns" \in m THEN {} ELSE ProgramPatterns |->
                PatternConfidence(p[2], AnalyzeIdl(f, m), Upgradeable(f, m))])

\* _analyze_program.  A known program is taken to have three audits.
ProgramScore(f, m) ==
    LET idl == AnalyzeIdl(f, m)
    IN  [name |-> NameScore([verified |-> idl.hasIdl, audits |-> IF f.known THEN 3 ELSE 0,
                             ageDays |-> Age(f, "age", m), team |-> f.known,
                             ecosystem |-> EcosystemScore(f, m), securityTxt |-> FALSE]),
         image |-> ImageScore([missingSigners |-> idl.missingSigners, missingOwners |-> 0,
                               unsafeCpi |-> idl.unsafeCpi, unvalidated |-> idl.unvalidated]),
         likeness |-> LikenessScore(MatchExploitPatterns(f, m), 0),
         essence |-> EssenceScore([complexity |-> Max({500, 80 * idl.instructions}),
                                   upgradeable |-> Upgradeable(f, m), multisig |-> FALSE,
                                   timelock |-> ~Upgradeable(f, m), cpi |-> idl.unsafeCpi])]

-----------------------------------------------------------------------------
\* pumpfun_analyzer.py.  f.holders: the share of the five largest, of the largest, and the
\* number of those above 5%, in percent of the supply.  The creator is known as the mint
\* authority only; what is counted is the token accounts it owns.
Holders(f, m) == IF "holders" \in m THEN [top5 |-> 0, largest |-> 0, whales |-> 0] ELSE f.holders
SerialDeployer(f, m) == f.mintAuthority /\ "wallet" \notin m /\ f.walletAccounts >= 5
LpDetected(f, m) == Listed(f, "lp", m)
Honeypot(f, m) == f.freezeAuthority /\ ~LpDetected(f, m) /\ ~Listed(f, "onJupiter", m)

RiskFlags(f, m) ==
    LET h == Holders(f, m)
        age == Age(f, "mintAge", m)
    IN  {flag \in {"supply_concentration_extreme", "supply_concentration_high",
                   "single_whale_dominance", "serial_deployer", "no_liquidity_pool",
                   "honeypot_token", "young_token_with_mint_authority", "very_young_token"} :
           CASE flag = "supply_concentration_extreme" -> h.top5 > 80
             [] flag = "supply_concentration_high" -> h.top5 > 60 /\ h.top5 <= 80
             [] flag = "single_whale_dominance" -> h.largest > 50
             [] flag = "serial_deployer" -> SerialDeployer(f, m)
             [] flag = "no_liquidity_pool" -> ~LpDetected(f, m)
             [] flag = "honeypot_token" -> Honeypot(f, m)
             [] flag = "young_token_with_mint_authority" -> age < 7 /\ f.mintAuthority
             [] flag = "very_young_token" -> age < 1 /\ ~f.mintAuthority}

\* In hundredths.
RiskScore(f, m) ==
    LET h == Holders(f, m)
        age == Age(f, "mintAge", m)
    IN  AtMost(100,
            (IF h.top5 > 80 THEN 25 ELSE When(h.top5 > 60, 15)) + When(h.largest > 50, 15)
            + When(SerialDeployer(f, m), 15) + When(~LpDetected(f, m), 20)
            + When(f.freezeAuthority /\ ~LpDetected(f, m), 10)
            + (IF age < 1 /\ f.mintAuthority THEN 20
               ELSE When(age < 1 \/ (age < 7 /\ f.mintAuthority), 10)))

\* _match_token_exploit_patterns; SOL-006 is the generic rug pull.
TokenPatterns == {"SOL-006", "SOL-011", "SOL-012", "SOL-013", "SOL-014"}

TokenConfidence(id, f, m) ==
    LET h == Holders(f, m)
    IN  CASE id = "SOL-006" -> When(f.mintAuthority, 30) + When(f.freezeAuthority, 20)
          [] id = "SOL-011" -> Max({IF h.top5 > 80 THEN 80 ELSE When(h.top5 > 60, 50),
                                    When(h.largest > 50, 70)})
          [] id = "SOL-012" -> When(SerialDeployer(f, m), 60)
          [] id = "SOL-013" -> When(~LpDetected(f, m), 50)
          [] id = "SOL-014" -> When(f.freezeAuthority /\ ~LpDetected(f, m),
                                    IF f.mintAuthority THEN 85 ELSE 70)

MatchTokenPatterns(f, m) ==
    Matched([id \in IF "patterns" \in m THEN {} ELSE TokenPatterns |-> TokenConfidence(id, f, m)])

\* _compute_enhanced_rug_similarity, in hundredths; the most there is, 95.
RugSimilarity(f, m) ==
    LET age == Age(f, "mintAge", m)
        top5 == Holders(f, m).top5
    IN  When(f.mintAuthority, 20) + When(f.freezeAuthority, 15)
        + (IF top5 > 80 THEN 20 ELSE When(top5 > 60, 10))
        + When(~LpDetected(f, m), 15) + When(SerialDeployer(f, m), 15)
        + (IF age < 1 /\ f.mintAuthority THEN 15 ELSE When(age < 7, 5))

\* _analyze_token.
TokenScore(f, m) ==
    LET age == Age(f, "age", m)
    IN  [name |-> NameScore([verified |-> Listed(f, "jupiter", m), audits |-> 0,
                             ageDays |-> IF age # 0 THEN age ELSE Age(f, "mintAge", m),
                             team |-> f.known /\ ~SerialDeployer(f, m),
                             ecosystem |-> EcosystemScore(f, m), securityTxt |-> FALSE]),
         image |-> ImageScore([missingSigners |-> 0, unvalidated |-> 0,
                               missingOwners |-> IF f.mintAuthority THEN 1 ELSE 0,
                               unsafeCpi |-> IF f.freezeAuthority /\ ~LpDetected(f, m)
                                             THEN 1 ELSE 0]),
         likeness |-> LikenessScore(MatchTokenPatterns(f, m), RugSimilarity(f, m)),
         essence |-> EssenceScore([complexity |-> 500, upgradeable |-> f.mintAuthority,
                                   multisig |-> FALSE, timelock |-> TRUE,
                                   cpi |-> Holders(f, m).whales])]

ScoreOf(f, m) == IF f.kind = "program" THEN ProgramScore(f, m) ELSE TokenScore(f, m)

\* The worker truncates each dimension to an integer, and submit_score averages them.
Recorded(s) == [d \in DOMAIN s |-> s[d] \div 100]
OnchainTotal(s) ==
    LET r == Recorded(s) IN (r.name + r.image + r.likeness + r.essence) \div 4

-----------------------------------------------------------------------------
Init ==
    /\ subject \in Programs \cup Mints \cup Persons \cup Agents
    /\ phase = "requested"
    /\ missed = {}
    /\ score = NoScore

\* analyze: the account's executable bit makes a program.  A token is one whose answer has
\* "exists", which get_token_info never sets.
Classify(failed) ==
    /\ phase = "requested"
    /\ subject.kind \in {"program", "mint"}
    /\ missed' = failed
    /\ phase' = IF subject.kind = "program" /\ "account" \notin failed THEN "program" ELSE "error"
    /\ UNCHANGED <<subject, score>>

\* _analyze_token is entered by the tests only, with the answer for a mint in hand.
EnterToken ==
    /\ phase = "requested"
    /\ subject.kind = "mint"
    /\ phase' = "token"
    /\ UNCHANGED <<subject, missed, score>>

Analyze(failed) ==
    /\ phase \in {"program", "token"}
    /\ failed \subseteq (IF phase = "program" THEN ProgramLookups ELSE TokenLookups)
    /\ missed' = failed
    /\ score' = ScoreOf(subject, failed)
    /\ phase' = "scored"
    /\ UNCHANGED subject

Added(t, u) ==
    [positive |-> t.positive + u.positive, negative |-> t.negative + u.negative,
     neutral |-> t.neutral + u.neutral]
Events(t) == t.positive + t.negative + t.neutral

\* The API confirms an event on the person (routers/v1/oracle.py) and values nobody.
ConfirmUnvalued(sign) ==
    /\ subject.kind = "person"
    /\ Events(subject.tally) + Events(subject.pending) < MaxNews
    /\ subject' = [subject EXCEPT !.pending = Added(@, [NoNews EXCEPT ![sign] = 1])]
    /\ UNCHANGED <<phase, missed, score>>

\* The service confirms one (oracle_consensus.py): _trigger_revaluation counts all that are
\* confirmed by then, the API's included.
Recount(person, sign) ==
    Added(Added(person.tally, person.pending), [NoNews EXCEPT ![sign] = 1])

Revalue(sign) ==
    /\ subject.kind = "person"
    /\ Events(subject.tally) + Events(subject.pending) < MaxNews
    /\ subject' = [subject EXCEPT !.tally = Recount(subject, sign), !.pending = NoNews]
    /\ score' = PersonScores(subject')
    /\ UNCHANGED <<phase, missed>>

\* How many contributions of an agent bear each mark.
Marks == {"none", "verified", "penalized", "both"}
Marked(a, mark) ==
    CASE mark = "none" -> a.contributions - a.verified - a.penalized + a.both
      [] mark = "verified" -> a.verified - a.both
      [] mark = "penalized" -> a.penalized - a.both
      [] OTHER -> a.both

\* award_contribution, of 50 points.
Award(a) == [a EXCEPT !.contributions = @ + 1, !.points = @ + 50]

\* What verify_contribution makes of a contribution that bears a mark.  Verified, it keeps
\* the penalty it may have had.  Rejected, it is no longer verified, its points are taken
\* back and the penalty of 20 given: nothing changes in points when it had that already.
Judged(a, mark, valid) ==
    IF valid
    THEN [a EXCEPT !.verified = @ + When(mark \in {"none", "penalized"}, 1),
                   !.both = @ + When(mark = "penalized", 1)]
    ELSE [a EXCEPT !.verified = @ - When(mark \in {"verified", "both"}, 1),
                   !.both = @ - When(mark = "both", 1),
                   !.penalized = @ + When(mark \in {"none", "verified"}, 1),
                   !.points = @ - When(mark \in {"none", "verified"}, 70)]

\* An agent's contributions change and it is scored again, which nothing but the tests asks
\* for.  Verdicts may follow one another on a contribution, in any order.
AgentStep(agent) ==
    /\ subject' = agent
    /\ score' = AgentScores(agent)
    /\ UNCHANGED <<phase, missed>>

AwardAgent ==
    /\ subject.kind = "agent"
    /\ subject.contributions < MaxNews
    /\ AgentStep(Award(subject))

JudgeAgent(mark, valid) ==
    /\ subject.kind = "agent"
    /\ Marked(subject, mark) > 0
    /\ AgentStep(Judged(subject, mark, valid))

\* An agent is online from its first heartbeat on: nothing ever sets it offline.
Heartbeat ==
    /\ subject.kind = "agent"
    /\ subject' = [subject EXCEPT !.online = TRUE]
    /\ UNCHANGED <<phase, missed, score>>

Next ==
    \/ \E failed \in SUBSET TypeLookups : Classify(failed)
    \/ EnterToken
    \/ \E failed \in SUBSET (ProgramLookups \cup TokenLookups) : Analyze(failed)
    \/ \E sign \in Signs : ConfirmUnvalued(sign)
    \/ \E sign \in Signs : Revalue(sign)
    \/ AwardAgent
    \/ \E mark \in Marks, valid \in BOOLEAN : JudgeAgent(mark, valid)
    \/ Heartbeat

Spec == Init /\ [][Next]_vars

-----------------------------------------------------------------------------
\* Every dimension is within bounds, and a scan ends scored or refused.
TypeOK ==
    /\ subject.kind \in {"program", "mint", "person", "agent"}
    /\ phase \in {"requested", "program", "token", "error", "scored"}
    /\ missed \subseteq TypeLookups \cup ProgramLookups \cup TokenLookups
    /\ \A d \in DOMAIN score : score[d] \in 0 .. Full

\* The grade on chain is never better than the grade in the database, and at most one
\* below it, although the worker truncates and the program averages in integers.
OnchainGradeFollows ==
    phase = "scored" =>
        LET chain == GradeRank(100 * OnchainTotal(score))
            database == GradeRank(Composite(score))
        IN  chain <= database /\ database <= chain + 1

FailOpen == {"patterns", "idl", "authority", "holders", "wallet"}

\* A registry that does not answer never lifts a score; the lookups that may, because
\* nothing found is nothing wrong, are FailOpen, and the authority's lifts it by 5 for the
\* upgrade risk and by at most 6.25 for the rug pull patterns.
RegistriesFailClosed ==
    phase = "scored" =>
        LET answered == missed \cap FailOpen
        IN  /\ Composite(ScoreOf(subject, missed)) <= Composite(ScoreOf(subject, answered))
            /\ Composite(ScoreOf(subject, missed \cup {"authority"}))
                 <= Composite(ScoreOf(subject, missed)) + 500 + 625

\* A published IDL with more to find in it, and all else the same, never scores better.
FindingsNeverHelp ==
    phase = "scored" /\ subject.kind = "program" /\ subject.hasIdl =>
        \A w \in 0 .. subject.writable, r \in 0 .. subject.readonly, c \in 0 .. subject.cpi :
            Composite(ScoreOf(subject, missed))
              <= Composite(ScoreOf([subject EXCEPT !.writable = w, !.readonly = r, !.cpi = c],
                                   missed))

\* From one valuation of a person to the next, however many events were confirmed between
\* them: when all of them are good news the person is worth no less, and no more when all
\* are bad.  A verdict that marks a contribution verified never lowers an agent's score, nor
\* does coming online; one that takes the mark away or penalizes never raises it.
NewsCountsItsWay ==
    [][/\ subject.kind = "person" /\ score # NoScore =>
            /\ /\ subject'.tally.negative = subject.tally.negative
               /\ subject'.tally.neutral = subject.tally.neutral
               => FairValue(subject') >= FairValue(subject)
            /\ /\ subject'.tally.positive = subject.tally.positive
               /\ subject'.tally.neutral = subject.tally.neutral
               => FairValue(subject') <= FairValue(subject)
       /\ subject.kind = "agent" =>
            /\ subject'.verified > subject.verified \/ subject'.online # subject.online =>
                   Composite(AgentScores(subject')) >= Composite(AgentScores(subject))
            /\ subject'.verified < subject.verified \/ subject'.penalized > subject.penalized =>
                   Composite(AgentScores(subject')) <= Composite(AgentScores(subject))]_vars
=============================================================================
