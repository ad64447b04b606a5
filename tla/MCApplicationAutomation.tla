---------------------- MODULE MCApplicationAutomation ----------------------
(* Small instances of ApplicationAutomation for TLC.                        *)
EXTENDS ApplicationAutomation, TLC

CONSTANTS p1, c1, c2, a1, a2, r1, r2

OneProvider == {p1}
NoIds == {}
OneId == {c1}
TwoIds == {c1, c2}
OneApp == {a1}
TwoApps == {a1, a2}
TwoRuns == {r1, r2}

\* Every application is on the one site, and so shares its challenges.
OneSite == [a \in Apps |-> p1]

Captcha == {"captcha"}
Settled == {"authenticated"}
NoReports == {}

WithdrawOnly == {"withdrawn"}
ApproveOrReject == {"approve", "reject"}

Symmetry == Permutations(Ids) \cup Permutations(Apps) \cup Permutations(Runs)
=============================================================================
