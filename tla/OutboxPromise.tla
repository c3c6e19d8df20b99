---------------------------- MODULE OutboxPromise ----------------------------
(***************************************************************************)
(* What the notification outbox promises for each row, whoever drains it:  *)
(* the message is handed to a provider at most once, and once more for     *)
(* each fault; the row is closed once; and it is closed as failed only if  *)
(* no provider took the message, or a fault hid that.  The promise of a    *)
(* row may become void; it is then only not forgotten.                     *)
(***************************************************************************)
EXTENDS Naturals

CONSTANT Rows

VARIABLES fate, handed, faults, void

Init ==
    /\ fate = [r \in Rows |-> "absent"]
    /\ handed = [r \in Rows |-> 0]
    /\ faults = 0
    /\ void = {}

Enqueue(r) ==
    /\ fate[r] = "absent"
    /\ fate' = [fate EXCEPT ![r] = "open"]
    /\ UNCHANGED <<handed, faults, void>>

\* A provider takes the message; a fault may hide that at the same time.
Hand(r) ==
    /\ r \in void \/ (fate[r] = "open" /\ handed[r] <= faults)
    /\ handed' = [handed EXCEPT ![r] = @ + 1]
    /\ faults' \in {faults, faults + 1}
    /\ UNCHANGED <<fate, void>>

\* A row without a recipient is closed as delivered, too.
Close(r) ==
    /\ r \in void \/ fate[r] = "open"
    /\ \/ fate' = [fate EXCEPT ![r] = "delivered"]
       \/ /\ r \in void \/ handed[r] = 0 \/ faults > 0
          /\ fate' = [fate EXCEPT ![r] = "failed"]
    /\ UNCHANGED <<handed, faults, void>>

Reopen(r) ==
    /\ r \in void
    /\ fate' = [fate EXCEPT ![r] = "open"]
    /\ UNCHANGED <<handed, faults, void>>

Fault == faults' = faults + 1 /\ UNCHANGED <<fate, handed, void>>

Lapse == \E S \in SUBSET Rows : void' = void \cup S /\ UNCHANGED <<fate, handed, faults>>

Next ==
    \/ Fault \/ Lapse
    \/ \E r \in Rows : Enqueue(r) \/ Hand(r) \/ Close(r) \/ Reopen(r)

Spec == Init /\ [][Next]_<<fate, handed, faults, void>>
=============================================================================
