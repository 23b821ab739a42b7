---------------------------- MODULE MCAuditTrail ----------------------------
(* A small instance of AuditTrail for TLC. *)
EXTENDS AuditTrail, TLC

AuditSymmetry == Permutations(Entities) \cup Permutations(Writers)
=============================================================================
