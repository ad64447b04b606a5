----------------------------- MODULE JobMatching -----------------------------
(***************************************************************************)
(* The match scorer: ten weighted components of a candidate's profile      *)
(* against a parsed job, the blockers that veto a match, and the skills    *)
(* a match row lists.  Component scores are in thousandths, so the final   *)
(* score, which the code rounds to a tenth of a point of 100, is too.      *)
(***************************************************************************)
EXTENDS Integers, FiniteSets

CONSTANTS
    Skills, Words, Industries,
    Related,        \* skill -> the skills SynonymSkillMatcher relates to it
    Weights,        \* component -> its weight
    Threshold,      \* the score, in thousandths, from which a job is a match
    Absent          \* an optional number that is not given

Modes == {"remote", "hybrid", "onsite"}
OptionalInt == Int \cup {Absent}

\* Where the job is for the candidate: the first of these tests, in this order, that holds.
Places == {"unknown", "city", "country", "preferred", "excluded", "elsewhere"}

\* The texts of a profile that may name things its claim corpus does not hold: columns of
\* the candidate's row, and of its educations and experiences.
CandidateProse == {"summary", "target_role", "currency", "work_authorization"}
SectionProse == {"field_of_study", "title"}

Profile == [skills : SUBSET Skills, role : SUBSET Words, rank : 0..4, years : OptionalInt,
            domain : BOOLEAN, leader : BOOLEAN, wanted : SUBSET Industries,
            excluded : SUBSET Industries, mode : Modes \cup {"any"}, pay : OptionalInt,
            workAuth : BOOLEAN, prose : SUBSET (CandidateProse \cup SectionProse),
            sections : SUBSET {"experience", "education", "certification"}]
\* asks: what the preparation asks by terms of its own, on the description alone, and for
\* a location that is no part of the candidate's.
JobView == [required : SUBSET Skills, preferred : SUBSET Skills, title : SUBSET Words,
            rank : 0..4, minYears : OptionalInt, domain : BOOLEAN, leads : BOOLEAN,
            industries : SUBSET Industries, place : Places, modes : SUBSET Modes,
            payMin : OptionalInt, payMax : OptionalInt, clearance : BOOLEAN, workAuth : BOOLEAN,
            asks : SUBSET {"work_authorization", "clearance", "location"}]

Components == {"skills", "role_alignment", "seniority", "years_experience", "domain",
               "industry", "leadership", "location", "work_mode", "compensation"}

ASSUME MatchingOK ==
    /\ IsFiniteSet(Skills) /\ IsFiniteSet(Words)
    /\ Related \in [Skills -> SUBSET Skills]
    /\ Weights \in [Components -> Nat]
    /\ Threshold \in 0..1000
    /\ Absent \notin Int

-----------------------------------------------------------------------------
\* What is scored: the required skills, or the preferred ones when none is required.
Pool(j) == IF j.required # {} THEN j.required ELSE j.preferred

Held(p, pool) == pool \cap p.skills
RelatedOnly(p, pool) == {s \in pool \ p.skills : Related[s] \cap p.skills # {}}
Lacking(p, pool) == pool \ (Held(p, pool) \cup RelatedOnly(p, pool))

\* Mutated form of SkillsScore: only skills with some credit are averaged.
SkillsScoreOfCredited(p, j) ==
    LET credited == Held(p, Pool(j)) \cup RelatedOnly(p, Pool(j))
    IN  IF credited = {} THEN 0
        ELSE (1000 * Cardinality(Held(p, Pool(j))) + 500 * Cardinality(RelatedOnly(p, Pool(j))))
               \div Cardinality(credited)

SkillsScore(p, j) ==
    IF Pool(j) = {} THEN 1000
    ELSE (1000 * Cardinality(Held(p, Pool(j))) + 500 * Cardinality(RelatedOnly(p, Pool(j))))
           \div Cardinality(Pool(j))

RoleScore(p, j) ==
    LET shared == Cardinality(p.role \cap j.title)
    IN  IF p.role = {} \/ j.title = {} THEN 700
        ELSE 250 + (450 * shared) \div Cardinality(j.title) + (IF shared > 0 THEN 300 ELSE 0)

SeniorityScore(p, j) ==
    CASE j.rank = p.rank -> 1000
      [] j.rank - p.rank = 1 -> 750
      [] j.rank - p.rank >= 2 -> 400
      [] j.rank < p.rank -> 600

\* Short of 60 % of the years asked for is a hard gap.
YearsShort(p, j) == j.minYears # Absent /\ p.years # Absent /\ 10 * p.years < 6 * j.minYears
ExperienceScore(p, j) ==
    IF j.minYears = Absent THEN 1000
    ELSE IF p.years = Absent THEN 600
    ELSE IF p.years >= j.minYears THEN 1000
    ELSE IF YearsShort(p, j) THEN 250 ELSE 600

DomainScore(p, j) == IF ~j.domain THEN 750 ELSE IF p.domain THEN 1000 ELSE 400

IndustryScore(p, j) ==
    IF j.industries = {} THEN 700
    ELSE IF j.industries \cap p.wanted # {} THEN 1000
    ELSE IF j.industries \cap p.excluded # {} THEN 0 ELSE 600

LeadershipScore(p, j) == IF j.leads /\ ~p.leader THEN 300 ELSE 1000

LocationScore(p, j) ==
    IF "remote" \in j.modes THEN IF p.mode = "onsite" THEN 500 ELSE 1000
    ELSE CASE j.place = "unknown" -> 800
           [] j.place \in {"city", "preferred"} -> 1000
           [] j.place = "country" -> 700
           [] j.place = "excluded" -> 0
           [] j.place = "elsewhere" -> 500

WorkModeScore(p, j) ==
    IF j.modes = {} THEN 800 ELSE IF p.mode \in j.modes THEN 1000 ELSE 300

\* The disclosed range against the expectation, by the ratio of the expectation to the
\* middle of the range: from 0.6 to 1.4 it fits, and below 0.6 is a hard gap.
PayCompared(p, j) ==
    /\ j.payMin # Absent /\ j.payMax # Absent /\ p.pay # Absent /\ j.payMin + j.payMax > 0
PayGap(p, j) == PayCompared(p, j) /\ 20 * p.pay < 6 * (j.payMin + j.payMax)
CompensationScore(p, j) ==
    IF j.payMin = Absent \/ j.payMax = Absent THEN 800
    ELSE IF p.pay = Absent THEN 700
    ELSE IF ~PayCompared(p, j) THEN 800
    ELSE IF PayGap(p, j) THEN 300
    ELSE IF 20 * p.pay <= 14 * (j.payMin + j.payMax) THEN 1000 ELSE 500

ComponentScores(p, j) ==
    [skills |-> SkillsScore(p, j), role_alignment |-> RoleScore(p, j),
     seniority |-> SeniorityScore(p, j), years_experience |-> ExperienceScore(p, j),
     domain |-> DomainScore(p, j), industry |-> IndustryScore(p, j),
     leadership |-> LeadershipScore(p, j), location |-> LocationScore(p, j),
     work_mode |-> WorkModeScore(p, j), compensation |-> CompensationScore(p, j)]

\* ScoreWeights.total, and the sum of the weighted components.
Total(of) ==
    of["skills"] + of["role_alignment"] + of["seniority"] + of["years_experience"]
      + of["domain"] + of["industry"] + of["leadership"] + of["location"]
      + of["work_mode"] + of["compensation"]

\* The weighted mean, rounded.
Score(p, j) ==
    LET total == Total(Weights)
        worth == ComponentScores(p, j)
        points == Total([c \in Components |-> Weights[c] * worth[c]])
    IN  IF total = 0 THEN 0 ELSE (2 * points + total) \div (2 * total)

\* What vetoes a match, whatever the score.
Blockers(p, j) ==
    {<<"skill", s>> : s \in Lacking(p, Pool(j))}
    \cup (IF YearsShort(p, j) THEN {<<"years">>} ELSE {})
    \cup (IF PayGap(p, j) THEN {<<"pay">>} ELSE {})
    \cup (IF j.clearance THEN {<<"clearance">>} ELSE {})
    \cup (IF j.workAuth THEN {<<"work_auth">>} ELSE {})

IsMatch(p, j) == Score(p, j) >= Threshold /\ Blockers(p, j) = {}

\* The row JobMatchingService stores.  Its labels look at required skills only, except
\* the matched ones, and a related skill is listed as missing too.
MatchRow(p, j) ==
    [isMatch |-> IsMatch(p, j), score |-> Score(p, j),
     matched |-> Held(p, Pool(j)), missing |-> j.required \ p.skills,
     transferable |-> RelatedOnly(p, j.required)]
=============================================================================
