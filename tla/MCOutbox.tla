------------------------------- MODULE MCOutbox -------------------------------
(* Instances of Outbox for TLC: two drainers, of the monolith, of the         *)
(* notification service, or one of each.                                      *)
EXTENDS Outbox

CONSTANTS n1, n2, d1, d2

Beside  == {{d1}}
Any     == {{}, Drainers} \cup Beside

\* Two rows for programs that drain alone, one for programs side by side.
MCLoad == [S \in Deployments |-> IF S \in Beside THEN {n1} ELSE Rows]
=============================================================================
