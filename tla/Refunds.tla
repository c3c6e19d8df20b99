------------------------------- MODULE Refunds -------------------------------
(***************************************************************************)
(* The refund of one paid order: POST /orders/:orderId/refund with its     *)
(* compare-and-set lock orders.refund_started_at, the refund webhooks, and *)
(* the sweep recoverStuckRefundLocks.  All three find the attempt they     *)
(* work on in the table refund_attempts, where the clawback of a disbursed *)
(* payout leg leaves rows of its own.                                      *)
(*                                                                         *)
(* Every SQL statement and the gateway call is one step of an actor: an    *)
(* HTTP request of the buyer, a webhook delivery, or a run of the sweep.   *)
(***************************************************************************)
EXTENDS Naturals, Sequences, FiniteSets

CONSTANTS
    Requests, Deliveries, Sweeps,  \* actors of the three kinds
    Scenes,       \* what may happen, see Scene
    SettledWord,  \* data.status of the event of a refund that went through
    LegDisbursed, \* whether a payout leg of the order is in flight or paid
    Overwrites,   \* whether the order may be cancelled or delivered meanwhile
    MaxTries      \* bound on the refund attempts

\* "lost" is a refund that the gateway executes while the adapter, which turns
\* every exception into ok:false, reports a failure.
AllReplies == {"processed", "pending", "rejected", "lost"}

\* What the gateway's refund call may do, and a bound on the actors that die or
\* throw half way, of whom so many are left.
Scene == [replies : SUBSET AllReplies, deaths : Nat, left : Nat]

ASSUME RefundsAssumption ==
    /\ Requests \cap Deliveries = {} /\ Requests \cap Sweeps = {}
    /\ Deliveries \cap Sweeps = {} /\ IsFiniteSet(Requests)
    /\ Scenes \subseteq Scene /\ \A c \in Scenes : c.left = c.deaths
    /\ SettledWord \in {"success", "processed"}
    /\ LegDisbursed \in BOOLEAN /\ Overwrites \in BOOLEAN
    /\ MaxTries \in Nat \ {0}

VARIABLES
    status,     \* orders.status ("paid": any status short of delivered)
    lock,       \* orders.refund_started_at: NULL, recent, past the stale window
    intent,     \* payment_intents.status
    rows,       \* refund_attempts of the order, by created_at
    clawed,     \* clawbackPayoutsForRefund has been through
    cancelling, \* a cancellation is between its SELECT and its UPDATE
    moved,      \* attempts for which the gateway sent the money back
    inflight,   \* attempts it accepted and settles later
    bounced,    \* attempts it accepted and then gave up
    hook,       \* payment_webhooks row of each event
    overtaken,  \* a lock was cleared while something was at stake under it
    scene,      \* which of Scenes this is
    pc,         \* where each actor is
    row,        \* the attempt it works on
    reply,      \* what the gateway answered a request
    event       \* the event of a delivery

Actors == Requests \cup Deliveries \cup Sweeps
\* Each attempt and, once, the clawback row.
RowIds == 1 .. MaxTries + 1
Events == RowIds \X {SettledWord, "failed"}
NoEvent == <<0, "none">>

database == <<status, lock, intent, rows, clawed, hook>>
gateway  == <<moved, inflight, bounced>>
actor    == <<pc, row, reply, event>>
ghost    == <<overtaken, scene>>
vars     == <<database, cancelling, gateway, ghost, actor>>

TypeOK ==
    /\ status \in {"paid", "delivered", "cancelled", "refunded"}
    /\ lock \in {"free", "fresh", "stale"}
    /\ intent \in {"succeeded", "refunded"}
    /\ rows \in Seq([kind : {"refund", "clawback"}, state : {"pending", "processed", "failed"}])
    /\ Len(rows) <= MaxTries + 1
    /\ clawed \in BOOLEAN /\ cancelling \in BOOLEAN /\ overtaken \in BOOLEAN
    /\ moved \subseteq RowIds /\ inflight \subseteq RowIds /\ bounced \subseteq RowIds
    /\ hook \in [Events -> {"none", "open", "done"}]
    /\ \E c \in Scenes : scene \in [replies : {c.replies}, deaths : {c.deaths}, left : 0 .. c.deaths]
    /\ pc \in [Actors -> {"idle", "checked", "locked", "inserted", "called", "release",
                          "reopen", "opened", "mark", "unlock", "close", "found",
                          "claw", "order", "intent", "row"}]
    /\ row \in [Actors -> RowIds \cup {0}]
    /\ reply \in [Actors -> {"none", "processed", "pending", "failed"}]
    /\ event \in [Actors -> Events \cup {NoEvent}]

Init ==
    /\ status = "paid" /\ lock = "free" /\ intent = "succeeded"
    /\ rows = <<>> /\ clawed = FALSE /\ cancelling = FALSE
    /\ moved = {} /\ inflight = {} /\ bounced = {} /\ overtaken = FALSE
    /\ hook = [e \in Events |-> "none"]
    /\ scene \in Scenes
    /\ pc = [a \in Actors |-> "idle"]
    /\ row = [a \in Actors |-> 0]
    /\ reply = [a \in Actors |-> "none"]
    /\ event = [a \in Actors |-> NoEvent]

\* The SELECT ... ORDER BY created_at DESC LIMIT 1.
Latest == rows[Len(rows)]

Goto(a, label) == pc' = [pc EXCEPT ![a] = label] /\ UNCHANGED <<row, reply, event>>

Finish(a) ==
    /\ pc' = [pc EXCEPT ![a] = "idle"]
    /\ row' = [row EXCEPT ![a] = 0]
    /\ reply' = [reply EXCEPT ![a] = "none"]
    /\ event' = [event EXCEPT ![a] = NoEvent]

SetRow(i, state) == rows' = [rows EXCEPT ![i].state = state]

-----------------------------------------------------------------------------
(* Around the refund: the gateway, the clock, the rest of the shop.        *)

\* The gateway settles an accepted refund, or gives up on it.
Settle(i) ==
    /\ i \in inflight
    /\ inflight' = inflight \ {i}
    /\ \/ moved' = moved \cup {i} /\ UNCHANGED bounced
       \/ bounced' = bounced \cup {i} /\ UNCHANGED moved
    /\ UNCHANGED <<database, cancelling, ghost, actor>>

\* The stale window is well past any round trip of a request.
LockAges ==
    /\ lock = "fresh"
    /\ \A a \in Requests : pc[a] \in {"idle", "checked"}
    /\ lock' = "stale"
    /\ UNCHANGED <<status, intent, rows, clawed, hook, cancelling, gateway, ghost, actor>>

\* A carrier event or the box: whatever the order was, it is delivered.
OrderDelivered ==
    /\ Overwrites /\ status # "delivered"
    /\ status' = "delivered"
    /\ UNCHANGED <<lock, intent, rows, clawed, hook, cancelling, gateway, ghost, actor>>

\* POST /orders/:orderId/cancel checks the row it read, then writes.
CancelCheck ==
    /\ Overwrites /\ status \notin {"delivered", "cancelled"}
    /\ cancelling' = TRUE
    /\ UNCHANGED <<database, gateway, ghost, actor>>

CancelWrite ==
    /\ cancelling
    /\ cancelling' = FALSE
    /\ status' = "cancelled"
    /\ UNCHANGED <<lock, intent, rows, clawed, hook, gateway, ghost, actor>>

\* A process dies, or a statement throws: a request that has asked the gateway
\* keeps the lock, a delivery leaves its event to be retried.
Die(a) ==
    /\ pc[a] # "idle" /\ scene.left > 0
    /\ scene' = [scene EXCEPT !.left = @ - 1]
    /\ Finish(a)
    /\ UNCHANGED <<database, cancelling, gateway, overtaken>>

-----------------------------------------------------------------------------
(* POST /orders/:orderId/refund.                                           *)

RequestCheck(a) ==
    /\ a \in Requests /\ pc[a] = "idle" /\ status = "paid"
    /\ Goto(a, "checked")
    /\ UNCHANGED <<database, cancelling, gateway, ghost>>

Started ==
    Cardinality({i \in DOMAIN rows : rows[i].kind = "refund"})
    + Cardinality({a \in Requests : pc[a] = "locked"})

\* Mutant: the lock is taken in the row that was read.
LockBlindly(a) ==
    /\ pc[a] = "checked" /\ Started < MaxTries
    /\ lock' = "fresh" /\ Goto(a, "locked")
    /\ UNCHANGED <<status, intent, rows, clawed, hook, cancelling, gateway, ghost>>

\* The compare-and-set; the loser gets HTTP 409.
TakeLock(a) ==
    /\ pc[a] = "checked" /\ Started < MaxTries
    /\ IF lock = "free" /\ status \notin {"refunded", "cancelled"}
       THEN lock' = "fresh" /\ Goto(a, "locked")
       ELSE Finish(a) /\ UNCHANGED lock
    /\ UNCHANGED <<status, intent, rows, clawed, hook, cancelling, gateway, ghost>>

InsertAttempt(a) ==
    /\ pc[a] = "locked"
    /\ rows' = Append(rows, [kind |-> "refund", state |-> "pending"])
    /\ row' = [row EXCEPT ![a] = Len(rows) + 1]
    /\ pc' = [pc EXCEPT ![a] = "inserted"]
    /\ UNCHANGED <<status, lock, intent, clawed, hook, cancelling, gateway, ghost, reply, event>>

\* The insert throws: the gateway was not called, the lock is released.
InsertThrows(a) ==
    /\ pc[a] = "locked" /\ scene.left > 0
    /\ scene' = [scene EXCEPT !.left = @ - 1]
    /\ Goto(a, "release")
    /\ UNCHANGED <<database, cancelling, gateway, overtaken>>

AskGateway(a, out) ==
    /\ pc[a] = "inserted"
    /\ moved' = IF out \in {"processed", "lost"} THEN moved \cup {row[a]} ELSE moved
    /\ inflight' = IF out = "pending" THEN inflight \cup {row[a]} ELSE inflight
    /\ reply' = [reply EXCEPT ![a] = IF out \in {"processed", "pending"} THEN out ELSE "failed"]
    /\ pc' = [pc EXCEPT ![a] = "called"]
    /\ UNCHANGED <<database, cancelling, bounced, ghost, row, event>>

NextAfterReply(answer) ==
    CASE answer = "processed" -> "claw"
      [] answer = "pending"   -> "done"
      [] OTHER               -> "release"

\* The row keeps saying pending until the refund has been finalized.
RecordAnswer(a) ==
    /\ pc[a] = "called"
    /\ SetRow(row[a], IF reply[a] = "failed" THEN "failed" ELSE "pending")
    /\ IF NextAfterReply(reply[a]) = "done"
       THEN Finish(a) ELSE Goto(a, NextAfterReply(reply[a]))
    /\ UNCHANGED <<status, lock, intent, clawed, hook, cancelling, gateway, ghost>>

Release(a) ==
    /\ pc[a] = "release"
    /\ lock' = "free"
    /\ Finish(a)
    /\ UNCHANGED <<status, intent, rows, clawed, hook, cancelling, gateway, ghost>>

-----------------------------------------------------------------------------
(* Finalizing, the same statements in the route, the webhook and the sweep. *)

HasClawback == \E i \in DOMAIN rows : rows[i].kind = "clawback"

\* Mutant: every call of the clawback inserts a row of its own.
ClawAgain(a) ==
    /\ pc[a] = "claw"
    /\ clawed' = TRUE
    /\ rows' = IF LegDisbursed
               THEN Append(rows, [kind |-> "clawback", state |-> "pending"]) ELSE rows
    /\ Goto(a, "order")
    /\ UNCHANGED <<status, lock, intent, hook, cancelling, gateway, ghost>>

\* clawbackPayoutsForRefund, which Payouts models leg by leg: its row has an id
\* of its own, so that it is inserted once.
Claw(a) ==
    /\ pc[a] = "claw"
    /\ clawed' = TRUE
    /\ rows' = IF LegDisbursed /\ ~HasClawback
               THEN Append(rows, [kind |-> "clawback", state |-> "pending"]) ELSE rows
    /\ Goto(a, "order")
    /\ UNCHANGED <<status, lock, intent, hook, cancelling, gateway, ghost>>

FlipOrder(a) ==
    /\ pc[a] = "order"
    /\ status' = "refunded"
    /\ Goto(a, "intent")
    /\ UNCHANGED <<lock, intent, rows, clawed, hook, cancelling, gateway, ghost>>

\* The sweep ends here: it finalizes what is already marked processed.
FlipIntent(a) ==
    /\ pc[a] = "intent"
    /\ intent' = "refunded"
    /\ IF a \in Sweeps THEN Finish(a) ELSE Goto(a, "row")
    /\ UNCHANGED <<status, lock, rows, clawed, hook, cancelling, gateway, ghost>>

CloseRow(a) ==
    /\ pc[a] = "row"
    /\ SetRow(row[a], "processed")
    /\ IF a \in Requests THEN Finish(a) ELSE Goto(a, "close")
    /\ UNCHANGED <<status, lock, intent, clawed, hook, cancelling, gateway, ghost>>

-----------------------------------------------------------------------------
(* The refund branch of the webhook handler.                               *)

Emitted(e) == e[1] \in IF e[2] = "failed" THEN bounced ELSE moved

\* What mapPaystackStatus makes of the word, which knows success and failed.
Meaning(word) == IF word \in {"success", "failed"} THEN word ELSE "pending"

Deliver(a, e) ==
    /\ a \in Deliveries /\ pc[a] = "idle" /\ Emitted(e) /\ hook[e] # "done"
    /\ pc' = [pc EXCEPT ![a] = IF hook[e] = "none" THEN "opened" ELSE "reopen"]
    /\ event' = [event EXCEPT ![a] = e]
    /\ hook' = [hook EXCEPT ![e] = IF @ = "none" THEN "open" ELSE @]
    /\ UNCHANGED <<status, lock, intent, rows, clawed, cancelling, gateway, ghost,
                   row, reply>>

Reopen(a) ==
    /\ pc[a] = "reopen"
    /\ hook' = [hook EXCEPT ![event[a]] = "open"]
    /\ Goto(a, "opened")
    /\ UNCHANGED <<status, lock, intent, rows, clawed, cancelling, gateway, ghost>>

AfterLatest(word) ==
    CASE Meaning(word) = "success" -> "claw"
      [] Meaning(word) = "failed"  -> "mark"
      [] OTHER                     -> "close"

\* The event identifies the order only: it is applied to the latest attempt,
\* whichever that is, if it is still pending.
ReadLatest(a) ==
    /\ pc[a] = "opened"
    /\ IF rows # <<>> /\ Latest.state = "pending"
       THEN /\ row' = [row EXCEPT ![a] = Len(rows)]
            /\ pc' = [pc EXCEPT ![a] = AfterLatest(event[a][2])]
       ELSE pc' = [pc EXCEPT ![a] = "close"] /\ UNCHANGED row
    /\ UNCHANGED <<database, cancelling, gateway, ghost, reply, event>>

MarkFailed(a) ==
    /\ pc[a] = "mark"
    /\ SetRow(row[a], "failed")
    /\ Goto(a, "unlock")
    /\ UNCHANGED <<status, lock, intent, clawed, hook, cancelling, gateway, ghost>>

\* A request that is on its way to the gateway, or to releasing the lock.
Charging(a) ==
    \/ pc[a] \in {"locked", "inserted", "release"}
    \/ pc[a] = "called" /\ reply[a] \notin {"processed", "pending"}

\* Money has gone back or may yet, or a failure that the gateway reports has still to
\* be recorded.
AtStake ==
    \/ moved \cup inflight # {}
    \/ \E a \in Requests : Charging(a)
    \/ \E i \in bounced : rows[i].state # "failed" /\ hook[<<i, "failed">>] # "done"

\* Shared with the sweep, which is done then.  The UPDATE is keyed by the order: it
\* clears the lock whoever has taken it meanwhile.
Unlock(a) ==
    /\ pc[a] = "unlock"
    /\ lock' = "free"
    /\ overtaken' = (overtaken \/ AtStake)
    /\ IF a \in Sweeps THEN Finish(a) ELSE Goto(a, "close")
    /\ UNCHANGED <<status, intent, rows, clawed, hook, cancelling, gateway, scene>>

CloseEvent(a) ==
    /\ pc[a] = "close"
    /\ hook' = [hook EXCEPT ![event[a]] = "done"]
    /\ Finish(a)
    /\ UNCHANGED <<status, lock, intent, rows, clawed, cancelling, gateway, ghost>>

-----------------------------------------------------------------------------
(* recoverStuckRefundLocks.                                                *)

SweepFind(a) ==
    /\ a \in Sweeps /\ pc[a] = "idle" /\ lock = "stale" /\ status # "refunded"
    /\ Goto(a, "found")
    /\ UNCHANGED <<database, cancelling, gateway, ghost>>

Inspect(a, finalizes, clears) ==
    /\ pc[a] = "found"
    /\ IF rows # <<>> /\ Latest.state \in finalizes
       THEN row' = [row EXCEPT ![a] = Len(rows)] /\ pc' = [pc EXCEPT ![a] = "claw"]
                /\ UNCHANGED <<reply, event>>
       ELSE IF rows # <<>> /\ Latest.state \in clears THEN Goto(a, "unlock")
       ELSE Finish(a)
    /\ UNCHANGED <<database, cancelling, gateway, ghost>>

\* Mutants: an attempt that was never settled is finalized; a lock is never
\* cleared.
InspectTrusting(a) == Inspect(a, {"processed", "pending"}, {"failed"})
InspectTimid(a)    == Inspect(a, {"processed"}, {})

\* The latest attempt decides; a pending one, or none, is left to finance.
InspectLatest(a) == Inspect(a, {"processed"}, {"failed"})

-----------------------------------------------------------------------------
\* What an actor at work does next.
Continue(a) ==
    \/ TakeLock(a) \/ InsertAttempt(a) \/ \E out \in scene.replies : AskGateway(a, out)
    \/ RecordAnswer(a) \/ Release(a)
    \/ Claw(a) \/ FlipOrder(a) \/ FlipIntent(a) \/ CloseRow(a)
    \/ Reopen(a) \/ ReadLatest(a) \/ MarkFailed(a) \/ Unlock(a) \/ CloseEvent(a)
    \/ InspectLatest(a)

Begin(a) == RequestCheck(a) \/ SweepFind(a) \/ \E e \in Events : Deliver(a, e)

Next ==
    \/ LockAges \/ OrderDelivered \/ CancelCheck \/ CancelWrite
    \/ \E i \in RowIds : Settle(i)
    \/ \E a \in Actors : Begin(a) \/ Continue(a) \/ Die(a) \/ InsertThrows(a)

Spec == Init /\ [][Next]_vars

\* Actors that do not die go on; the sweep's timer fires for ever; the gateway
\* settles what it accepted and repeats its events until they are acknowledged.
Fairness ==
    /\ \A a \in Actors : WF_vars(Continue(a))
    /\ WF_vars(\E a \in Sweeps : SweepFind(a))
    /\ WF_vars(\E i \in RowIds : Settle(i))
    /\ SF_vars(\E a \in Deliveries, e \in Events : Deliver(a, e))
    /\ WF_vars(LockAges)

FairSpec == Spec /\ Fairness

-----------------------------------------------------------------------------
(* Properties.                                                             *)

\* The lock "prevents double gateway charges on the same order": the buyer gets
\* the money back once, through any number of retries, dead requests and late events,
\* until the webhook of one attempt or the sweep clears the lock that the next attempt
\* has taken ("we never clear the lock unless there is explicit evidence the gateway
\* side has no money in flight"); a gateway that settles at once and a sweep that runs
\* alone never let that happen.
MoneyBackOnce ==
    /\ overtaken \/ Cardinality(moved) <= 1
    /\ overtaken => "pending" \in scene.replies \/ \E s, t \in Sweeps : s # t

\* What the tables say of the refund is true.  The order is not shown as refunded
\* unless the gateway sent the money back; an attempt is not recorded as processed,
\* and so no longer retried, before payouts, order and intent were done ("mark the
\* audit row processed last"); an attempt recorded as failed has not sent money ("no
\* money moved"), as long as the lock protects it and no event is repeated that was
\* already applied.
RecordsAreTrue ==
    /\ status = "refunded" => moved # {}
    /\ \A i \in DOMAIN rows :
           /\ rows[i].state = "processed" => clawed /\ intent = "refunded"
           /\ rows[i].state = "failed" /\ i \in moved
                  => overtaken \/ ("pending" \in scene.replies /\ scene.deaths > 0)

\* Once the gateway has sent the money back, the refund is finalized, whatever
\* else happens to the order: its legs are clawed back, the intent is refunded
\* (and the order was, before it), as long as nobody dies: the sweep leaves an
\* attempt that is pending to finance.  And a failed attempt does not lock the buyer
\* out for ever, whoever dies, unless another attempt has been made under the lock.
LastFailed == rows # <<>> /\ Latest.state = "failed"
RefundCompletes ==
    /\ (moved # {} /\ scene.deaths = 0) ~> (overtaken \/ (clawed /\ intent = "refunded"))
    /\ (LastFailed /\ lock # "free") ~> (lock = "free" \/ ~LastFailed)
=============================================================================
