------------------------- MODULE MCApprovalSessions -------------------------
(* Four requests about one target; which ones they are is left open. *)
EXTENDS ApprovalSessions, TLC
Symmetries == Permutations(Sessions) \cup Permutations(Approvals)
=============================================================================
