------------------------ MODULE MCChallengeSessions ------------------------
(* Small instances of ChallengeSessions for TLC.                            *)
EXTENDS ChallengeSessions

CONSTANTS s1, s2, s3, s4

TwoSessions == {s1, s2}
FourSessions == {s1, s2, s3, s4}
=============================================================================
