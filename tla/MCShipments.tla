----------------------------- MODULE MCShipments -----------------------------
(* Instances of Shipments for TLC: two workers and one order.              *)
EXTENDS Shipments

CONSTANTS w1, w2

To(gateway, place) == [gateway |-> gateway, place |-> place, dated |-> TRUE]

AllOrders ==
    {To("card", "courier"), To("cod", "locker"), To("card", "locker"), To("cod", "counter"),
     [To("cod", "courier") EXCEPT !.dated = FALSE]}
=============================================================================
