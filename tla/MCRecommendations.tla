----------------------- MODULE MCRecommendations -----------------------
(* Two jobs, two profiles a candidate moves between, one piece of advice. *)
EXTENDS Recommendations, TLC

CONSTANTS k8s, docker, java, rust, go, j1, j2, a1, a2

MCSkills == {k8s, docker, java, rust, go}
MCRelated == k8s :> {docker} @@ docker :> {k8s} @@ java :> {} @@ rust :> {go} @@
             go :> {rust}
MCWeights == [c \in Components |-> IF c = "skills" THEN 25 ELSE IF c = "role_alignment" THEN 20
                 ELSE IF c \in {"seniority", "years_experience", "domain"} THEN 10 ELSE 5]

TwoApps == {a1, a2}
Symmetry == Permutations(TwoApps)
MCWatched == {SkillGap(docker)}

Base == [skills |-> {}, role |-> {"engineer"}, rank |-> 2, years |-> Absent, domain |-> FALSE,
         leader |-> FALSE, wanted |-> {}, excluded |-> {}, mode |-> "remote", pay |-> Absent,
         workAuth |-> TRUE, prose |-> {}, sections |-> {}]
MCProfiles ==
    {[Base EXCEPT !.skills = {k8s, java}, !.years = 2, !.pay = 100, !.prose = {"work_authorization"},
                  !.sections = {"experience"}],
     [Base EXCEPT !.skills = {docker, java}, !.years = 6, !.prose = {"target_role", "field_of_study"}]}

Post == [required |-> {}, preferred |-> {}, title |-> {"engineer"}, rank |-> 2, minYears |-> 5,
         domain |-> TRUE, leads |-> FALSE, industries |-> {}, place |-> "city", modes |-> {},
         payMin |-> Absent, payMax |-> Absent, clearance |-> FALSE, workAuth |-> FALSE, asks |-> {}]
MCJobs ==
    j1 :> [Post EXCEPT !.required = {docker, java}, !.leads = TRUE, !.payMin = 90, !.payMax = 110] @@
    j2 :> [Post EXCEPT !.required = {rust, java}, !.minYears = Absent, !.place = "elsewhere", !.workAuth = TRUE,
                       !.asks = {"work_authorization", "location"}]
=============================================================================
