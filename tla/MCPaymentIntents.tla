-------------------------- MODULE MCPaymentIntents --------------------------
(* Instances of PaymentIntents for TLC: one intent, for an order or a top-up. *)
EXTENDS PaymentIntents

CONSTANTS i1, a1, a2
=============================================================================
