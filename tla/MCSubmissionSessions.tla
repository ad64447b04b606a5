------------------------ MODULE MCSubmissionSessions ------------------------
(* Small instances of SubmissionSessions for TLC.                           *)
EXTENDS SubmissionSessions

CONSTANTS s1, s2, s3

TwoSessions == {s1, s2}
ThreeSessions == {s1, s2, s3}
=============================================================================
