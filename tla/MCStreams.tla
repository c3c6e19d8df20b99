------------------------------ MODULE MCStreams ------------------------------
(* Instances of Streams for TLC.                                           *)
EXTENDS Streams

CONSTANTS w1, w2, v1, v2

Plan(starts, stops, rotations, deaths, seen) ==
    [starts |-> starts, stops |-> stops, rotations |-> rotations, deaths |-> deaths,
     seen |-> seen]

\* Two sessions; a session and overlapping rotations; viewers of one session.
AllPlans == {Plan(2, 1, 0, 1, FALSE), Plan(1, 1, 2, 0, FALSE), Plan(1, 1, 0, 1, TRUE)}
=============================================================================
