--------------------------- MODULE Recommendations ---------------------------
(***************************************************************************)
(* The learning service beside the application materials: recommendations  *)
(* derived from the profile, the match rows, the applications, the         *)
(* recorded outcomes and the outreach statistics; a candidate acknowledges *)
(* or archives them.  Nothing here writes to what they are derived from.   *)
(***************************************************************************)
EXTENDS ApplicationMaterials

CONSTANTS
    Watched,    \* the recommendation keys whose rows a run follows (bound)
    Aliased,    \* skills the candidate writes under a name that is not the label
    GapLimit,   \* SKILL_GAP_RECOMMENDATION_LIMIT
    MinSkills,  \* MIN_SKILLS_RECOMMENDATION
    Answered    \* the outreach counts a run explores (bound)

SkillGap(s) == <<"skill", s>>
Sections == {"experience", "education", "certification"}
Keys == {SkillGap(s) : s \in Skills}
        \cup {<<section, "missing">> : section \in Sections}
        \cup {<<"skills", "low">>, <<"feedback", "no_outcomes">>, <<"source", "no_matches">>,
              <<"outreach", "no_responses">>, <<"outreach", "low_response">>}
AdviceStatus == {"none", "active", "acknowledged", "archived"}

\* What the outreach counts say: no message sent, none answered, fewer than a quarter
\* answered, or enough.
Correspondence == {"nothing_sent", "no_responses", "low_response", "answered"}

ASSUME RecommendationsOK ==
    /\ Watched \subseteq Keys /\ Aliased \subseteq Skills
    /\ GapLimit \in Nat /\ MinSkills \in Nat
    /\ Answered \subseteq Correspondence

VARIABLES
    advice,     \* key -> status of its recommendations row, "none" without one
    feedback,   \* is there a feedback row?
    mail        \* the outreach counts

learning == <<advice, feedback, mail>>
advVars == <<matVars, learning>>

-----------------------------------------------------------------------------
(* _compute_recommendations                                                 *)

\* A gap is a skill that some match row misses and the profile does not name now; one
\* row counts it once.
MissedBy(s) == {j \in DOMAIN Jobs : match[j] # NoRow /\ s \in match[j].missing}
Gaps == {s \in Skills \ (profile.skills \ Aliased) : MissedBy(s) # {}}

\* most_common: the gaps of the most rows; those of as many rows come in any order.
TopGaps ==
    {top \in SUBSET Gaps :
        /\ Cardinality(top) = IF Cardinality(Gaps) < GapLimit THEN Cardinality(Gaps) ELSE GapLimit
        /\ \A s \in top, r \in Gaps \ top :
             Cardinality(MissedBy(s)) >= Cardinality(MissedBy(r))}

Due(top) ==
    {SkillGap(s) : s \in top}
    \cup {<<section, "missing">> : section \in Sections \ profile.sections}
    \cup (IF Cardinality(profile.skills) < MinSkills THEN {<<"skills", "low">>} ELSE {})
    \cup (IF (\E a \in Apps : Exists(a) /\ app[a].status = "submitted") /\ ~feedback
          THEN {<<"feedback", "no_outcomes">>} ELSE {})
    \cup (IF DOMAIN Jobs # {} /\ \A j \in DOMAIN Jobs : match[j] # NoRow => ~match[j].isMatch
          THEN {<<"source", "no_matches">>} ELSE {})
    \cup (IF mail \in {"no_responses", "low_response"} THEN {<<"outreach", mail>>} ELSE {})

-----------------------------------------------------------------------------
\* Mutated form of Generated: what is due is active, whatever became of it before.
GeneratedAgain(due, refresh) ==
    [k \in Watched |-> IF k \in due THEN "active"
                       ELSE IF refresh /\ advice[k] = "active" THEN "archived" ELSE advice[k]]

\* A refresh archives active rows that are not due; then what is due and has no row,
\* archived ones included, gets one.
Generated(due, refresh) ==
    [k \in Watched |-> IF k \in due /\ advice[k] = "none" THEN "active"
                       ELSE IF refresh /\ k \notin due /\ advice[k] = "active" THEN "archived"
                       ELSE advice[k]]

\* generate_recommendations
Generate(refresh) ==
    /\ \E top \in TopGaps : advice' = Generated(Due(top), refresh)
    /\ UNCHANGED <<matVars, feedback, mail>>

Acknowledge(k) ==
    /\ advice[k] \in {"active", "acknowledged"}
    /\ advice' = [advice EXCEPT ![k] = "acknowledged"]
    /\ UNCHANGED <<matVars, feedback, mail>>

Archive(k) ==
    /\ advice[k] # "none"
    /\ advice' = [advice EXCEPT ![k] = "archived"]
    /\ UNCHANGED <<matVars, feedback, mail>>

AddFeedback ==
    /\ feedback' = TRUE
    /\ UNCHANGED <<matVars, advice, mail>>

\* The outreach engine sends and records responses; neither is ever taken back.
Correspond ==
    /\ IF mail = "nothing_sent" THEN mail' = "no_responses"
       ELSE mail' \in Correspondence \ {"nothing_sent", "no_responses"}
    /\ mail' \in Answered
    /\ UNCHANGED <<matVars, advice, feedback>>

AdvInit ==
    /\ MatInit
    /\ advice = [k \in Watched |-> "none"]
    /\ feedback = FALSE /\ mail = "nothing_sent"

LearningRequest ==
    \/ \E refresh \in BOOLEAN : Generate(refresh)
    \/ \E k \in Watched : Acknowledge(k) \/ Archive(k)
    \/ AddFeedback

AdvNext ==
    \/ MatNext /\ UNCHANGED learning
    \/ LearningRequest \/ Correspond

AdvSpec == AdvInit /\ [][AdvNext]_advVars

-----------------------------------------------------------------------------
\* Advice is given once: what the candidate or a refresh put away never comes back,
\* and nothing but the candidate's own acknowledgement makes it acknowledged.
Later(status) ==
    CASE status = "none" -> {"none", "active"}
      [] status = "active" -> {"active", "acknowledged", "archived"}
      [] status = "acknowledged" -> {"acknowledged", "archived"}
      [] status = "archived" -> {"archived"}

AdviceIsGivenOnce == [][\A k \in Watched : advice'[k] \in Later(advice[k])]_advVars

\* Rows keep to their enumerations.
AdvTypeOK ==
    /\ advice \in [Watched -> AdviceStatus]
    /\ feedback \in BOOLEAN /\ mail \in Correspondence
=============================================================================
