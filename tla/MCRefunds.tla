------------------------------ MODULE MCRefunds ------------------------------
(* Instances of Refunds for TLC: one or two refund requests, webhook          *)
(* deliveries and a sweep.                                                    *)
EXTENDS Refunds

CONSTANTS r1, r2, h1, s1

Of(replies, deaths) == [replies |-> replies, deaths |-> deaths, left |-> deaths]

\* Actors die; or the gateway settles late.
DeathsAndLate == {Of({"processed", "rejected"}, 2), Of({"processed", "pending", "rejected"}, 0)}
=============================================================================
