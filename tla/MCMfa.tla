-------------------------------- MODULE MCMfa --------------------------------
(* Instances of Mfa for TLC.                                                *)
EXTENDS Mfa

CONSTANTS r1, r2, t1, t2
=============================================================================
