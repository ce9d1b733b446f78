---------------------------- MODULE MCApprovals ----------------------------
(* Small instances of Approvals. *)
EXTENDS Approvals, TLC

RequestSymmetry == Permutations(Request)
=============================================================================
