----------------------------- MODULE MCAuditChain -----------------------------
(* Instances of AuditChain for TLC: two replicas.                           *)
EXTENDS AuditChain

CONSTANTS p1, p2, e1, e2
=============================================================================
