---------------------------- MODULE MCAuditTrail ----------------------------
(* Instances of AuditTrail for TLC.                                        *)
EXTENDS AuditTrail, TLC

\* Threads, sessions and slots are interchangeable.
AuditSymmetry == Permutations(Tasks) \cup Permutations(Sids) \cup Permutations(Slots)
=============================================================================
