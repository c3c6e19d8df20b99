----------------------------- MODULE MCApprovals -----------------------------
(* Instances of Approvals for TLC: two replicas, one, and one without a bus. *)
EXTENDS Approvals

CONSTANTS r1, r2, t1

TwoReplicas == [replicas |-> {r1, r2}, wired |-> TRUE, registered |-> Tools]
NoBus       == [replicas |-> {r1}, wired |-> FALSE, registered |-> Tools]
OneReplica  == [replicas |-> {r1}, wired |-> TRUE, registered |-> Tools]

AllConfigs == {TwoReplicas, OneReplica, NoBus}
=============================================================================
