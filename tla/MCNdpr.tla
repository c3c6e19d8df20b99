------------------------------- MODULE MCNdpr -------------------------------
(* Instances of Ndpr for TLC.                                               *)
EXTENDS Ndpr

CONSTANTS t1, t2, s1, r1, r2, home, work
=============================================================================
