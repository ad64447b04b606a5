--------------------------- MODULE MCResumeSessions ---------------------------
(* Three overlapping requests of every kind about one resume. *)
EXTENDS ResumeSessions, TLC

CONSTANTS s1, s2, s3, v1, v2, v3

ThreeSessions == {s1, s2, s3}
ThreeVersions == {v1, v2, v3}
Symmetry == Permutations(ThreeSessions) \cup Permutations(ThreeVersions)
=============================================================================
