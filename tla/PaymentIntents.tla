--------------------------- MODULE PaymentIntents ---------------------------
(***************************************************************************)
(* How the API monolith takes a payment: an intent is created and charged, *)
(* the buyer pays on the gateway's page, and webhooks (at least once, in   *)
(* any order, concurrently) and the frontend's verify calls all converge   *)
(* on markIntentSucceeded, whose winner credits the wallet or finalizes    *)
(* the order.                                                              *)
(*                                                                         *)
(* Every SQL statement and every gateway call is one step of an actor, an  *)
(* actor being one HTTP request in progress.                               *)
(***************************************************************************)
EXTENDS Naturals

CONSTANTS
    Intents,      \* payment intents
    NoIntent,     \* what an idle actor works on
    Actors,       \* requests in progress: webhook deliveries and verify calls
    Declines,     \* whether the buyer's attempts may be declined or abandoned
    VerifyErrs,   \* whether a verify call may meet a gateway error
    MaxFails,     \* bound on the requests that die or throw half way
    Many          \* bound on the counters of winners and notices

ASSUME IntentsAssumption ==
    /\ NoIntent \notin Intents
    /\ Declines \in BOOLEAN /\ VerifyErrs \in BOOLEAN
    /\ MaxFails \in Nat /\ Many \in Nat \ {0, 1}

VARIABLES
    purpose,     \* payment_intents.purpose ("none": no row)
    intent,      \* payment_intents.status ("none": no row)
    creator,     \* how far createPaymentIntent and its route have come
    order,       \* orders.status of the intent's order
    paid,        \* orders.paid_at is set
    cancelling,  \* orders between the SELECT and the UPDATE of a cancellation
    refund,      \* what a refund that went through has marked: the order, the intent
    credited,    \* wallet_txns rows with the intent's id
    split,       \* the payout rows of the order have been inserted
    hook,        \* payment_webhooks row of each event
    captured,    \* the gateway has the buyer's money, in the intent's amount?
    declined,    \* the gateway declined an attempt
    fails,       \* requests that died or threw
    reopened,    \* intents that failed was written over while they were succeeded
    winners,     \* callers that won the conditional UPDATE
    notices,     \* times the order's buyer was told and the carrier dispatched
    pc, cur, via \* of each actor: where it is, its intent, what started it

database == <<purpose, intent, order, paid, credited, split, hook>>
gateway  == <<captured, declined>>
actor    == <<pc, cur, via>>
counters == <<fails, reopened, winners, notices>>
requests == <<creator, cancelling, refund>>
vars     == <<database, requests, gateway, counters, actor>>

Events == Intents \X {"success", "failed"}

TypeOK ==
    /\ purpose \in [Intents -> {"none", "order", "wallet_topup"}]
    /\ intent \in [Intents -> {"none", "pending", "processing", "succeeded", "failed",
                              "refunded"}]
    /\ creator \in [Intents -> {"idle", "charging", "rollback", "refused", "done"}]
    /\ order \in [Intents -> {"none", "pending_payment", "ready", "cancelled", "refunded"}]
    /\ paid \in [Intents -> BOOLEAN]
    /\ cancelling \in SUBSET Intents
    /\ refund \in [Intents -> {"no", "order", "done"}]
    /\ credited \in [Intents -> Nat]
    /\ split \in [Intents -> BOOLEAN]
    /\ hook \in [Events -> {"none", "open", "done", "error"}]
    /\ captured \in [Intents -> {"no", "exact", "other"}]
    /\ declined \in [Intents -> BOOLEAN]
    /\ fails \in 0 .. MaxFails /\ reopened \in SUBSET Intents
    /\ winners \in [Intents -> 0 .. Many]
    /\ notices \in [Intents -> 0 .. Many]
    /\ pc \in [Actors -> {"idle", "reopen", "apply", "ask", "mark", "cas", "credit",
                          "read", "stamp", "notify", "split", "close"}]
    /\ cur \in [Actors -> Intents \cup {NoIntent}]
    /\ via \in [Actors -> {"none", "success", "failed", "verify"}]

Init ==
    /\ purpose = [i \in Intents |-> "none"]
    /\ intent = [i \in Intents |-> "none"]
    /\ creator = [i \in Intents |-> "idle"]
    /\ order = [i \in Intents |-> "none"]
    /\ paid = [i \in Intents |-> FALSE]
    /\ cancelling = {}
    /\ refund = [i \in Intents |-> "no"]
    /\ credited = [i \in Intents |-> 0]
    /\ split = [i \in Intents |-> FALSE]
    /\ hook = [e \in Events |-> "none"]
    /\ captured = [i \in Intents |-> "no"]
    /\ declined = [i \in Intents |-> FALSE]
    /\ fails = 0 /\ reopened = {}
    /\ winners = [i \in Intents |-> 0]
    /\ notices = [i \in Intents |-> 0]
    /\ pc = [a \in Actors |-> "idle"]
    /\ cur = [a \in Actors |-> NoIntent]
    /\ via = [a \in Actors |-> "none"]

IsOrder(i) == purpose[i] = "order"
Bump(n) == IF n < Many THEN n + 1 ELSE n

-----------------------------------------------------------------------------
(* Creating and charging the intent, paying it, cancelling and refunding   *)
(* its order.                                                              *)

\* POST /orders or POST /wallet/topup up to the charge call.
Create(i) ==
    /\ creator[i] = "idle"
    /\ creator' = [creator EXCEPT ![i] = "charging"]
    /\ intent' = [intent EXCEPT ![i] = "pending"]
    /\ \E why \in {"order", "wallet_topup"} :
          /\ purpose' = [purpose EXCEPT ![i] = why]
          /\ order' = [order EXCEPT ![i] = IF why = "order" THEN "pending_payment" ELSE @]
    /\ UNCHANGED <<paid, cancelling, refund, credited, split, hook, gateway, counters,
                   actor>>

\* The charge call answers with an authorization URL, which the response of
\* the route hands to the buyer.
ChargeAccepted(i) ==
    /\ creator[i] = "charging"
    /\ creator' = [creator EXCEPT ![i] = "done"]
    /\ intent' = [intent EXCEPT ![i] = "processing"]
    /\ UNCHANGED <<purpose, order, paid, cancelling, refund, credited, split,
                   hook, gateway, counters, actor>>

ChargeRefused(i) ==
    /\ creator[i] = "charging"
    /\ creator' = [creator EXCEPT ![i] = "rollback"]
    /\ intent' = [intent EXCEPT ![i] = "failed"]
    /\ UNCHANGED <<purpose, order, paid, cancelling, refund, credited, split,
                   hook, gateway, counters, actor>>

\* The order route catches the throw and rolls its order back.
RollBack(i) ==
    /\ creator[i] = "rollback"
    /\ creator' = [creator EXCEPT ![i] = "refused"]
    /\ order' = [order EXCEPT ![i] = IF IsOrder(i) THEN "cancelled" ELSE @]
    /\ UNCHANGED <<purpose, intent, paid, cancelling, refund, credited, split,
                   hook, gateway, counters, actor>>

\* The gateway's side: the buyer pays on its page, or fails to and may retry.
Pay(i) ==
    /\ creator[i] = "done" /\ captured[i] = "no"
    /\ \E amount \in {"exact", "other"} : captured' = [captured EXCEPT ![i] = amount]
    /\ UNCHANGED <<database, requests, declined, counters, actor>>

Decline(i) ==
    /\ Declines /\ creator[i] = "done" /\ captured[i] = "no"
    /\ declined' = [declined EXCEPT ![i] = TRUE]
    /\ UNCHANGED <<database, requests, captured, counters, actor>>

\* POST /orders/:orderId/cancel: the status is checked in the row that was
\* read; the UPDATE does not look at it again.
CancelCheck(i) ==
    /\ IsOrder(i) /\ order[i] \notin {"none", "cancelled"}
    /\ cancelling' = cancelling \cup {i}
    /\ UNCHANGED <<database, creator, refund, gateway, counters, actor>>

CancelWrite(i) ==
    /\ i \in cancelling
    /\ cancelling' = cancelling \ {i}
    /\ order' = [order EXCEPT ![i] = "cancelled"]
    /\ UNCHANGED <<purpose, intent, paid, credited, split, hook, creator, refund, gateway,
                   counters, actor>>

\* A refund of a paid order goes through (Refunds): the order is marked, then the
\* intent, by UPDATEs keyed by id.
RefundOrder(i) ==
    /\ IsOrder(i) /\ paid[i] /\ refund[i] = "no"
    /\ refund' = [refund EXCEPT ![i] = "order"]
    /\ order' = [order EXCEPT ![i] = "refunded"]
    /\ UNCHANGED <<purpose, intent, paid, credited, split, hook, creator, cancelling,
                   gateway, counters, actor>>

RefundIntent(i) ==
    /\ refund[i] = "order"
    /\ refund' = [refund EXCEPT ![i] = "done"]
    /\ intent' = [intent EXCEPT ![i] = "refunded"]
    /\ UNCHANGED <<purpose, order, paid, credited, split, hook, creator, cancelling,
                   gateway, counters, actor>>

-----------------------------------------------------------------------------
(* The webhook handler.                                                    *)

Goto(a, label) == pc' = [pc EXCEPT ![a] = label] /\ UNCHANGED <<cur, via>>

Finish(a) ==
    /\ pc' = [pc EXCEPT ![a] = "idle"]
    /\ cur' = [cur EXCEPT ![a] = NoIntent]
    /\ via' = [via EXCEPT ![a] = "none"]

Emitted(i, kind) == IF kind = "success" THEN captured[i] # "no" ELSE declined[i]

\* A delivery of an event: the insert opens its row; for a row that exists and
\* is not processed without error, processing is taken up again.  A delivery
\* of an event that is done changes nothing.
Deliver(a, i, kind) ==
    /\ pc[a] = "idle" /\ Emitted(i, kind)
    /\ hook[<<i, kind>>] # "done"
    /\ pc' = [pc EXCEPT ![a] = IF hook[<<i, kind>>] = "none" THEN "apply" ELSE "reopen"]
    /\ hook' = [hook EXCEPT ![<<i, kind>>] = IF @ = "none" THEN "open" ELSE @]
    /\ cur' = [cur EXCEPT ![a] = i]
    /\ via' = [via EXCEPT ![a] = kind]
    /\ UNCHANGED <<purpose, intent, order, paid, credited, split, requests, gateway,
                   counters>>

Reopen(a) ==
    /\ pc[a] = "reopen"
    /\ hook' = [hook EXCEPT ![<<cur[a], via[a]>>] = "open"]
    /\ Goto(a, "apply")
    /\ UNCHANGED <<purpose, intent, order, paid, credited, split, requests, gateway,
                   counters>>

\* A successful charge goes to markIntentSucceeded, unless the event's amount
\* is not the intent's.
ApplySuccess(a) ==
    /\ pc[a] = "apply" /\ via[a] = "success" /\ captured[cur[a]] = "exact"
    /\ Goto(a, "cas")
    /\ UNCHANGED <<database, requests, gateway, counters>>

ApplyMismatch(a) ==
    /\ pc[a] = "apply" /\ via[a] = "success" /\ captured[cur[a]] = "other"
    /\ hook' = [hook EXCEPT ![<<cur[a], "success">>] = "error"]
    /\ Finish(a)
    /\ UNCHANGED <<purpose, intent, order, paid, credited, split, requests, gateway,
                   counters>>

\* A failure is stored by an UPDATE that does not look at what it overwrites.
WriteOver(i, word) ==
    /\ intent' = [intent EXCEPT ![i] = word]
    /\ reopened' = reopened \cup {j \in {i} : intent[j] = "succeeded"}

Overwrite(a, word) ==
    /\ pc[a] = "apply" /\ via[a] = "failed"
    /\ WriteOver(cur[a], word)
    /\ Goto(a, "close")
    /\ UNCHANGED <<purpose, order, paid, credited, split, hook, requests, gateway, fails,
                   winners, notices>>

\* Mutant: the gateway's word is stored as it came.
ApplyFailureRaw(a) == Overwrite(a, "abandoned")

\* The event of a failed charge, whenever it arrives.
ApplyFailure(a) == Overwrite(a, "failed")

-----------------------------------------------------------------------------
(* reverifyIntent.                                                         *)

Verify(a, i) ==
    /\ pc[a] = "idle" /\ creator[i] = "done" /\ intent[i] \notin {"succeeded", "refunded"}
    /\ pc' = [pc EXCEPT ![a] = "ask"]
    /\ cur' = [cur EXCEPT ![a] = i]
    /\ via' = [via EXCEPT ![a] = "verify"]
    /\ UNCHANGED <<database, requests, gateway, counters>>

\* What the adapter may answer; it reports an exception as a failed charge.
Answers(i) ==
    {r \in {"success", "pending", "failed"} :
        \/ r = "success" /\ captured[i] # "no"
        \/ r = "pending" /\ captured[i] = "no"
        \/ r = "failed" /\ (VerifyErrs \/ (declined[i] /\ captured[i] = "no"))}

AfterAnswer(a, r) ==
    IF r = "pending" THEN Finish(a)
    ELSE Goto(a, IF r = "success" THEN "cas" ELSE "mark")

Answer(a) ==
    /\ pc[a] = "ask"
    /\ \E r \in Answers(cur[a]) : AfterAnswer(a, r)
    /\ UNCHANGED <<database, requests, gateway, counters>>

\* The status was read before the gateway was asked; the UPDATE is keyed by id.
MarkFailed(a) ==
    /\ pc[a] = "mark"
    /\ WriteOver(cur[a], "failed")
    /\ Finish(a)
    /\ UNCHANGED <<purpose, order, paid, credited, split, hook, requests, gateway, fails,
                   winners, notices>>

-----------------------------------------------------------------------------
(* markIntentSucceeded and finalizeOrderAfterPayment.                      *)

SideEffects(i) == IF IsOrder(i) THEN "read" ELSE "credit"

Win(a, loses) ==
    /\ pc[a] = "cas"
    /\ intent' = [intent EXCEPT ![cur[a]] = "succeeded"]
    /\ winners' = [winners EXCEPT ![cur[a]] = IF loses THEN @ ELSE Bump(@)]
    /\ Goto(a, IF loses THEN "close" ELSE SideEffects(cur[a]))
    /\ UNCHANGED <<purpose, order, paid, credited, split, hook, requests, gateway, fails,
                   reopened, notices>>

\* Mutants: the UPDATE loses its condition; the outcome of the UPDATE is
\* mistaken and nobody runs the side effects of an intent marked failed.
CasUnconditional(a) == Win(a, FALSE)
CasPickyLoses(a)    == Win(a, intent[cur[a]] # "processing")

\* UPDATE ... WHERE status != 'succeeded': a failed intent succeeds after all, and so
\* does one that has been refunded.
Cas(a) == Win(a, intent[cur[a]] = "succeeded")

\* INSERT ... ON CONFLICT DO NOTHING under the unique index on the intent id.
CreditTopUp(a) ==
    /\ pc[a] = "credit"
    /\ credited' = [credited EXCEPT ![cur[a]] = IF @ = 0 THEN 1 ELSE @]
    /\ Goto(a, "close")
    /\ UNCHANGED <<purpose, intent, order, paid, split, hook, requests,
                   gateway, counters>>

ReadOrder(a) ==
    /\ pc[a] = "read"
    /\ Goto(a, IF paid[cur[a]] THEN "close" ELSE "stamp")
    /\ UNCHANGED <<database, requests, gateway, counters>>

\* UPDATE ... WHERE paid_at IS NULL; whether it hit a row is not looked at.
StampOrder(a) ==
    /\ pc[a] = "stamp"
    /\ order' = [order EXCEPT ![cur[a]] = IF paid[cur[a]] THEN @ ELSE "ready"]
    /\ paid' = [paid EXCEPT ![cur[a]] = TRUE]
    /\ Goto(a, "notify")
    /\ UNCHANGED <<purpose, intent, credited, split, hook, requests,
                   gateway, counters>>

\* The two notifications to the buyer and the dispatch to the carrier.
NotifyAndDispatch(a) ==
    /\ pc[a] = "notify"
    /\ notices' = [notices EXCEPT ![cur[a]] = Bump(@)]
    /\ Goto(a, "split")
    /\ UNCHANGED <<database, requests, gateway, fails, reopened, winners>>

SplitPayouts(a) ==
    /\ pc[a] = "split"
    /\ split' = [split EXCEPT ![cur[a]] = TRUE]
    /\ Goto(a, "close")
    /\ UNCHANGED <<purpose, intent, order, paid, credited, hook, requests, gateway,
                   counters>>

\* The webhook row is marked processed, and keeps the error that another delivery of
\* the event has left there meanwhile; a verify call just responds.
Close(a) ==
    /\ pc[a] = "close"
    /\ hook' = IF via[a] = "verify" THEN hook
               ELSE [hook EXCEPT ![<<cur[a], via[a]>>] = IF @ = "error" THEN @ ELSE "done"]
    /\ Finish(a)
    /\ UNCHANGED <<purpose, intent, order, paid, credited, split, requests, gateway,
                   counters>>

\* A statement throws, and the webhook handler records the error, or the
\* process dies and nothing is recorded.
Fail(a) ==
    /\ pc[a] # "idle" /\ fails < MaxFails
    /\ fails' = fails + 1
    /\ \/ UNCHANGED hook
       \/ /\ via[a] # "verify"
          /\ hook' = [hook EXCEPT ![<<cur[a], via[a]>>] = "error"]
    /\ Finish(a)
    /\ UNCHANGED <<purpose, intent, order, paid, credited, split, requests, gateway,
                   reopened, winners, notices>>

-----------------------------------------------------------------------------
IntentStep(i) ==
    \/ Create(i) \/ ChargeAccepted(i) \/ ChargeRefused(i) \/ RollBack(i)
    \/ Pay(i) \/ Decline(i) \/ CancelCheck(i) \/ CancelWrite(i)
    \/ RefundOrder(i) \/ RefundIntent(i)

Begin(a, i) == Verify(a, i) \/ Deliver(a, i, "success") \/ Deliver(a, i, "failed")

Continue(a) ==
    \/ Reopen(a) \/ ApplySuccess(a) \/ ApplyMismatch(a) \/ ApplyFailure(a)
    \/ Answer(a) \/ MarkFailed(a) \/ Cas(a) \/ CreditTopUp(a)
    \/ ReadOrder(a) \/ StampOrder(a) \/ NotifyAndDispatch(a) \/ SplitPayouts(a)
    \/ Close(a)

Next ==
    \/ \E i \in Intents : IntentStep(i)
    \/ \E a \in Actors : Continue(a) \/ Fail(a)
    \/ \E a \in Actors, i \in Intents : Begin(a, i)

Spec == Init /\ [][Next]_vars

\* A request that does not die goes on, and the gateway repeats the event of a
\* charge until it is acknowledged; the server takes any number of requests,
\* so a delivery that is due again and again takes place.
Fairness ==
    /\ \A a \in Actors : WF_vars(Continue(a))
    /\ \A i \in Intents : SF_vars(\E a \in Actors : Deliver(a, i, "success"))

FairSpec == Spec /\ Fairness

-----------------------------------------------------------------------------
(* Properties.                                                             *)

\* Whatever dies, repeats or overlaps: the wallet is credited once, and neither is
\* it credited nor are the sellers paid but for money the gateway has; as long as no
\* late or mistaken failure is written over the success the order's buyer is told and
\* its carrier called once, also when a late success is written over a refund; and
\* until the intent is refunded there is one winner of its success.
SideEffectsOnce ==
    \A i \in Intents :
        /\ credited[i] <= 1
        /\ credited[i] > 0 \/ paid[i] \/ split[i] => captured[i] # "no"
        /\ i \in reopened \/ notices[i] <= 1
        /\ i \in reopened \/ refund[i] = "done" \/ winners[i] <= 1

Fulfilled(i) == IF IsOrder(i) THEN split[i] ELSE credited[i] > 0

\* What the gateway captured in full is marked succeeded in the end, whatever dies
\* on the way, unless a failure is written over it afterwards or it is refunded: a
\* webhook that failed is taken up again.  If no request dies half way it is also
\* fulfilled: the wallet is credited, or the sellers' payouts are scheduled.
CapturedIsFulfilled ==
    \A i \in Intents :
        captured[i] = "exact" ~>
            /\ intent[i] = "succeeded" \/ i \in reopened \/ refund[i] = "done"
            /\ Fulfilled(i) \/ fails > 0
=============================================================================
