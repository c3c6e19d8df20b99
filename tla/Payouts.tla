------------------------------- MODULE Payouts -------------------------------
(***************************************************************************)
(* The payout ledger of the API monolith: the `payouts` table, the sweep   *)
(* processDuePayouts that disburses it, the clawback a refund runs over    *)
(* it, the operators' and sellers' routes that edit it, and the wallet     *)
(* withdrawal that is one of its producers.                                *)
(*                                                                         *)
(* Every UPDATE and INSERT is one step, together with the compliance query *)
(* that decides it, and so is every SELECT whose answer is used after the  *)
(* next statement; between two steps everybody else may run.  A worker is  *)
(* one execution of processDuePayouts: the hourly timer of one replica,    *)
(* the timer of another replica, or an operator's run-due request.         *)
(***************************************************************************)
EXTENDS Naturals, FiniteSets

CONSTANTS
    Payouts,        \* payout rows, those not inserted yet included
    Orders,         \* orders with payout legs
    NoOrder,        \* the orderId of a row that has none (NULL)
    NoPayout,       \* no payout in flight
    Workers,        \* concurrent executions of processDuePayouts
    Clawers,        \* concurrent executions of clawbackPayoutsForRefund
    KindOf,         \* payouts.kind of each row
    OrderOf,        \* payouts.order_id of each row
    Routable,       \* rows whose gateway column GatewayRouter.byName knows
    Plans,          \* what there is and may happen, one plan per behaviour
    MaxSent         \* bound on the transfers counted per row

Kinds == {"seller_share", "manufacturer_share", "wallet_withdrawal"}

Status == {"none", "blocked", "pending", "scheduled", "processing",
           "paid", "failed", "cancelled"}

\* hold_until: "future" has not passed yet, "due" has, "null" is SQL NULL.
Hold == {"null", "future", "due"}

\* "lost" is a transfer the gateway executes while the adapter, which turns
\* every exception into ok:false, reports a failure.
AllOutcomes == {"processed", "pending", "rejected", "lost"}

\* The rows that are inserted, the sweeps and clawbacks that run, the manual routes
\* that are used, what a gateway transfer may do, and what may die between two
\* statements: a sweep, a refund or a withdrawal request.
Plan == [rows : SUBSET Payouts, sweeps : SUBSET Workers, refunds : SUBSET Clawers,
         manual : SUBSET {"hold", "release", "clawback", "mark_paid"},
         answers : SUBSET AllOutcomes,
         mortal : SUBSET {"sweep", "refund", "request"}]

ASSUME ConstantsAssumption ==
    /\ KindOf \in [Payouts -> Kinds]
    /\ OrderOf \in [Payouts -> Orders \cup {NoOrder}]
    /\ NoOrder \notin Orders
    /\ NoPayout \notin Payouts
    /\ \A p \in Payouts : KindOf[p] = "wallet_withdrawal" => OrderOf[p] = NoOrder
    /\ Routable \subseteq Payouts
    /\ Plans \subseteq Plan
    /\ MaxSent \in Nat

VARIABLES
    \* the database
    status,      \* payouts.status ("none": no row)
    hold,        \* payouts.hold_until
    compliant,   \* what the KYC-tier and sanctions queries would answer now
    settled,     \* orders.settled_at is set
    clawRow,     \* the refund_attempts row rfa_clb_<payout> exists
    debit,       \* wallet_txns row of kind withdrawal for the payout
    reversals,   \* number of wallet_txns rows of kind refund for the payout
    \* the gateway
    sent,        \* transfers the gateway took an order for, per payout
    \* processDuePayouts
    pc,          \* where each worker is
    blk,         \* blocked rows of the first pass still to visit
    due,         \* claimed rows still to re-check
    still,       \* stillDue: claimed rows still to disburse
    cur,         \* the row being disbursed
    reply,       \* what the gateway answered for it
    \* clawbackPayoutsForRefund
    cancel,      \* rows the snapshot shows unclaimed, still to cancel
    owe,         \* rows it shows in flight or paid, still to record
    \* POST /wallet/withdraw
    asking,      \* requests between the payout insert and the debit insert
    plan,        \* what there is and may happen; never changes
    \* history
    putBack      \* rows taken out of a sweep's hands, or out of a final status,
                 \* by a first pass that had read them earlier or by a hold

ledger   == <<status, hold, compliant, settled, clawRow, debit, reversals>>
worker   == <<pc, blk, due, still, cur, reply>>
clawback == <<cancel, owe>>
vars     == <<ledger, sent, worker, clawback, asking, putBack, plan>>

IsWallet(p) == KindOf[p] = "wallet_withdrawal"
Claimable(p) == status[p] = "pending" /\ hold[p] = "due"
LegsOf(o) == {p \in Payouts : OrderOf[p] = o /\ status[p] # "none"}

TypeOK ==
    /\ status \in [Payouts -> Status]
    /\ hold \in [Payouts -> Hold]
    /\ compliant \in [Payouts -> BOOLEAN]
    /\ settled \in [Orders -> BOOLEAN]
    /\ clawRow \in [Payouts -> BOOLEAN]
    /\ debit \in [Payouts -> {"none", "pending", "succeeded", "failed"}]
    /\ reversals \in [Payouts -> Nat]
    /\ sent \in [Payouts -> Nat]
    /\ pc \in [Workers -> {"idle", "sweep", "run", "called", "settle", "stamp",
                           "confirm", "reverse", "check", "credit"}]
    /\ blk \in [Workers -> SUBSET Payouts]
    /\ due \in [Workers -> SUBSET Payouts]
    /\ still \in [Workers -> SUBSET Payouts]
    /\ cur \in [Workers -> Payouts \cup {NoPayout}]
    /\ reply \in [Workers -> {"none", "processed", "pending", "failed"}]
    /\ cancel \in [Clawers -> SUBSET Payouts]
    /\ owe \in [Clawers -> SUBSET Payouts]
    /\ asking \in SUBSET Payouts
    /\ putBack \in SUBSET Payouts
    /\ plan \in Plans

Init ==
    /\ status = [p \in Payouts |-> "none"]
    /\ hold = [p \in Payouts |-> "null"]
    /\ plan \in Plans
    /\ compliant \in [Payouts -> BOOLEAN]
    /\ \A p \in Payouts : IsWallet(p) \/ p \notin plan.rows => compliant[p]
    /\ settled = [o \in Orders |-> FALSE]
    /\ clawRow = [p \in Payouts |-> FALSE]
    /\ debit = [p \in Payouts |-> "none"]
    /\ reversals = [p \in Payouts |-> 0]
    /\ sent = [p \in Payouts |-> 0]
    /\ pc = [w \in Workers |-> "idle"]
    /\ blk = [w \in Workers |-> {}]
    /\ due = [w \in Workers |-> {}]
    /\ still = [w \in Workers |-> {}]
    /\ cur = [w \in Workers |-> NoPayout]
    /\ reply = [w \in Workers |-> "none"]
    /\ cancel = [c \in Clawers |-> {}]
    /\ owe = [c \in Clawers |-> {}]
    /\ asking = {}
    /\ putBack = {}

-----------------------------------------------------------------------------
(* Producers of payout rows and the passing of time.                       *)

\* splitOrderPayouts inserts one row per recipient, the seller's own request
\* inserts one with neither order nor hold_until.  The compliance answer read
\* just before decides between pending and blocked; the unique index makes a
\* repeated insert a no-op, which a row that exists models.
Schedule(p) ==
    /\ ~IsWallet(p) /\ p \in plan.rows /\ status[p] = "none"
    /\ status' = [status EXCEPT ![p] = IF compliant[p] THEN "pending" ELSE "blocked"]
    /\ hold' = [hold EXCEPT ![p] = IF OrderOf[p] = NoOrder THEN "null" ELSE "future"]
    /\ UNCHANGED <<compliant, settled, clawRow, debit, reversals,
                   sent, worker, clawback, asking, putBack, plan>>

HoldExpires(p) ==
    /\ hold[p] = "future"
    /\ hold' = [hold EXCEPT ![p] = "due"]
    /\ UNCHANGED <<status, compliant, settled, clawRow, debit, reversals,
                   sent, worker, clawback, asking, putBack, plan>>

\* A KYC review or a sanctions screening changes the recipient's standing.
PostureChanges(p) ==
    /\ ~IsWallet(p) /\ p \in plan.rows
    /\ compliant' = [compliant EXCEPT ![p] = ~@]
    /\ UNCHANGED <<status, hold, settled, clawRow, debit, reversals,
                   sent, worker, clawback, asking, putBack, plan>>

\* POST /wallet/withdraw: the payout row first, hold_until = now ...
Withdraw(p) ==
    /\ IsWallet(p) /\ p \in plan.rows /\ status[p] = "none"
    /\ status' = [status EXCEPT ![p] = "pending"]
    /\ hold' = [hold EXCEPT ![p] = "due"]
    /\ asking' = asking \cup {p}
    /\ UNCHANGED <<compliant, settled, clawRow, debit, reversals,
                   sent, worker, clawback, putBack, plan>>

\* ... then the debit, in a second statement.
WithdrawDebit(p) ==
    /\ p \in asking
    /\ asking' = asking \ {p}
    /\ debit' = [debit EXCEPT ![p] = "pending"]
    /\ UNCHANGED <<status, hold, compliant, settled, clawRow, reversals,
                   sent, worker, clawback, putBack, plan>>

WithdrawDies(p) ==
    /\ "request" \in plan.mortal /\ p \in asking
    /\ asking' = asking \ {p}
    /\ UNCHANGED <<ledger, sent, worker, clawback, putBack, plan>>

-----------------------------------------------------------------------------
(* processDuePayouts.                                                      *)

StartRun(w) ==
    /\ w \in plan.sweeps /\ pc[w] = "idle"
    /\ pc' = [pc EXCEPT ![w] = "sweep"]
    /\ blk' = [blk EXCEPT ![w] = {p \in Payouts : status[p] = "blocked"}]
    /\ UNCHANGED <<ledger, sent, due, still, cur, reply, clawback, asking, putBack, plan>>

\* Where a row is no longer waiting to be claimed.
Beyond == {"processing", "paid", "failed", "cancelled"}

PromoteBlocked(w, p, exempt) ==
    /\ pc[w] = "sweep" /\ p \in blk[w]
    /\ blk' = [blk EXCEPT ![w] = @ \ {p}]
    /\ \/ /\ ~exempt /\ compliant[p]
          /\ status' = [status EXCEPT ![p] = "pending"]
          /\ putBack' = IF status[p] \in Beyond THEN putBack \cup {p} ELSE putBack
       \/ /\ exempt \/ ~compliant[p]
          /\ UNCHANGED <<status, putBack, plan>>
    /\ UNCHANGED <<hold, compliant, settled, clawRow, debit, reversals,
                   sent, pc, due, still, cur, reply, clawback, asking, plan>>

\* Mutant: the first pass forgets that withdrawals are exempt.
UnblockAnyKind(w, p) == PromoteBlocked(w, p, FALSE)

\* One iteration of the first pass.  The compliance query answers for now, but
\* the row is known to be blocked only from the snapshot and the UPDATE has no
\* condition on the status.
Unblock(w, p) == PromoteBlocked(w, p, IsWallet(p))

\* The atomic claim.  hold_until <= now() is not true of NULL.
Claim(w) ==
    /\ pc[w] = "sweep" /\ blk[w] = {}
    /\ pc' = [pc EXCEPT ![w] = "run"]
    /\ due' = [due EXCEPT ![w] = {p \in Payouts : Claimable(p)}]
    /\ status' = [p \in Payouts |-> IF Claimable(p) THEN "processing" ELSE status[p]]
    /\ UNCHANGED <<hold, compliant, settled, clawRow, debit, reversals,
                   sent, blk, still, cur, reply, clawback, asking, putBack, plan>>

\* Mutant: a row that no longer passes is skipped without being parked.
RecheckForgets(w, p) ==
    /\ pc[w] = "run" /\ p \in due[w]
    /\ due' = [due EXCEPT ![w] = @ \ {p}]
    /\ still' = [still EXCEPT ![w] = IF IsWallet(p) \/ compliant[p]
                                     THEN @ \cup {p} ELSE @]
    /\ UNCHANGED <<ledger, sent, pc, blk, cur, reply, clawback, asking, putBack, plan>>

\* The live re-check of a claimed row: park it again or keep it.
Recheck(w, p) ==
    /\ pc[w] = "run" /\ p \in due[w]
    /\ due' = [due EXCEPT ![w] = @ \ {p}]
    /\ \/ /\ ~IsWallet(p) /\ ~compliant[p]
          /\ status' = [status EXCEPT ![p] = "blocked"]
          /\ UNCHANGED still
       \/ /\ IsWallet(p) \/ compliant[p]
          /\ still' = [still EXCEPT ![w] = @ \cup {p}]
          /\ UNCHANGED status
    /\ UNCHANGED <<hold, compliant, settled, clawRow, debit, reversals,
                   sent, pc, blk, cur, reply, clawback, asking, putBack, plan>>

\* A withdrawal carries its bank details; the other kinds read a profile that
\* may lack them, and the row is left for finance.
ParkMissingBank(w, p) ==
    /\ pc[w] = "run" /\ due[w] = {} /\ p \in still[w] /\ ~IsWallet(p)
    /\ still' = [still EXCEPT ![w] = @ \ {p}]
    /\ status' = [status EXCEPT ![p] = "scheduled"]
    /\ UNCHANGED <<hold, compliant, settled, clawRow, debit, reversals,
                   sent, pc, blk, due, cur, reply, clawback, asking, putBack, plan>>

\* gw.payout: the transfer takes place or not, and the adapter answers.
CallGateway(w, p, out) ==
    /\ pc[w] = "run" /\ due[w] = {} /\ p \in still[w] /\ p \in Routable
    /\ sent[p] < MaxSent
    /\ still' = [still EXCEPT ![w] = @ \ {p}]
    /\ cur' = [cur EXCEPT ![w] = p]
    /\ pc' = [pc EXCEPT ![w] = "called"]
    /\ sent' = IF out = "rejected" THEN sent ELSE [sent EXCEPT ![p] = @ + 1]
    /\ reply' = [reply EXCEPT ![w] = IF out \in {"processed", "pending"}
                                     THEN out ELSE "failed"]
    /\ UNCHANGED <<ledger, blk, due, clawback, asking, putBack, plan>>

\* The worker forgets everything it had read or claimed.
Drop(w) ==
    /\ pc' = [pc EXCEPT ![w] = "idle"]
    /\ blk' = [blk EXCEPT ![w] = {}]
    /\ due' = [due EXCEPT ![w] = {}]
    /\ still' = [still EXCEPT ![w] = {}]
    /\ cur' = [cur EXCEPT ![w] = NoPayout]
    /\ reply' = [reply EXCEPT ![w] = "none"]
    /\ UNCHANGED <<ledger, sent, clawback, asking, putBack, plan>>

\* byName throws unknown_gateway: nothing catches it, the run is over and the
\* rows it had claimed stay in processing.
UnknownGateway(w, p) ==
    /\ pc[w] = "run" /\ due[w] = {} /\ p \in still[w] /\ p \notin Routable
    /\ Drop(w)

Crash(w) == "sweep" \in plan.mortal /\ pc[w] # "idle" /\ Drop(w)

EndRun(w) ==
    /\ pc[w] = "run" /\ due[w] = {} /\ still[w] = {}
    /\ Drop(w)

\* Where the loop goes after a row has got its final status.
AfterReply(p, final) ==
    CASE final = "failed" /\ IsWallet(p)          -> "reverse"
      [] final # "failed" /\ OrderOf[p] # NoOrder -> "settle"
      [] final = "paid" /\ IsWallet(p)            -> "confirm"
      [] OTHER                                    -> "run"

Record(w, final) ==
    /\ pc[w] = "called"
    /\ status' = [status EXCEPT ![cur[w]] = final]
    /\ pc' = [pc EXCEPT ![w] = AfterReply(cur[w], final)]
    /\ cur' = [cur EXCEPT ![w] = IF AfterReply(cur[w], final) = "run"
                                 THEN NoPayout ELSE @]
    /\ reply' = [reply EXCEPT ![w] = "none"]
    /\ UNCHANGED <<hold, compliant, settled, clawRow, debit, reversals,
                   sent, blk, due, still, clawback, asking, putBack, plan>>

\* Mutants: the gateway's word goes into the column as it is; a transfer that
\* is not final yet counts as failed.
RecordRawReply(w)      == Record(w, reply[w])
RecordPendingFails(w)  == Record(w, IF reply[w] = "processed" THEN "paid" ELSE "failed")
\* The UPDATE with the gateway's answer; like all of them it is keyed by id
\* only.  What follows depends on the answer and on the kind.
RecordReply(w) == Record(w, CASE reply[w] = "processed" -> "paid"
                              [] reply[w] = "pending"   -> "processing"
                              [] OTHER                  -> "failed")

\* The end of one iteration of the disbursement loop.
NextRow(w) == pc' = [pc EXCEPT ![w] = "run"] /\ cur' = [cur EXCEPT ![w] = NoPayout]

\* SELECT the legs not resolved yet ...
CheckLegs(w) ==
    /\ pc[w] = "settle"
    /\ IF \A p \in LegsOf(OrderOf[cur[w]]) : status[p] \in {"paid", "cancelled"}
       THEN pc' = [pc EXCEPT ![w] = "stamp"] /\ UNCHANGED cur
       ELSE NextRow(w)
    /\ UNCHANGED <<ledger, sent, blk, due, still, reply, clawback, asking, putBack, plan>>

\* ... and stamp settled_at when there was none.
StampSettled(w) ==
    /\ pc[w] = "stamp"
    /\ settled' = [settled EXCEPT ![OrderOf[cur[w]]] = TRUE]
    /\ NextRow(w)
    /\ UNCHANGED <<status, hold, compliant, clawRow, debit, reversals,
                   sent, blk, due, still, reply, clawback, asking, putBack, plan>>

ConfirmDebit(w) ==
    /\ pc[w] = "confirm"
    /\ debit' = [debit EXCEPT ![cur[w]] = IF @ = "none" THEN @ ELSE "succeeded"]
    /\ NextRow(w)
    /\ UNCHANGED <<status, hold, compliant, settled, clawRow, reversals,
                   sent, blk, due, still, reply, clawback, asking, putBack, plan>>

\* reverseFailedWithdrawal: mark the debit, look for a reversal, insert one.
ReverseDebit(w) ==
    /\ pc[w] = "reverse"
    /\ debit' = [debit EXCEPT ![cur[w]] = IF @ = "none" THEN @ ELSE "failed"]
    /\ pc' = [pc EXCEPT ![w] = "check"]
    /\ UNCHANGED <<status, hold, compliant, settled, clawRow, reversals,
                   sent, blk, due, still, cur, reply, clawback, asking, putBack, plan>>

CheckReversal(w) ==
    /\ pc[w] = "check"
    /\ IF reversals[cur[w]] > 0
       THEN NextRow(w)
       ELSE pc' = [pc EXCEPT ![w] = "credit"] /\ UNCHANGED cur
    /\ UNCHANGED <<ledger, sent, blk, due, still, reply, clawback, asking, putBack, plan>>

CreditReversal(w) ==
    /\ pc[w] = "credit"
    /\ reversals' = [reversals EXCEPT ![cur[w]] = @ + 1]
    /\ NextRow(w)
    /\ UNCHANGED <<status, hold, compliant, settled, clawRow, debit,
                   sent, blk, due, still, reply, clawback, asking, putBack, plan>>

-----------------------------------------------------------------------------
(* clawbackPayoutsForRefund, run by whoever finalizes a refund: a request, *)
(* a webhook and the recovery sweep may each run it at the same time.      *)

NotStarted == {"pending", "scheduled"}

\* SELECT the legs that exist now.  A leg in any other status is passed over,
\* and one that is inserted later is never seen.
ClawStart(c, o) ==
    /\ c \in plan.refunds /\ cancel[c] = {} /\ owe[c] = {}
    /\ cancel' = [cancel EXCEPT ![c] = {p \in LegsOf(o) : status[p] \in NotStarted}]
    /\ owe' = [owe EXCEPT ![c] =
                  {p \in LegsOf(o) : status[p] \in {"processing", "paid"}}]
    /\ UNCHANGED <<ledger, sent, worker, asking, putBack, plan>>

CancelUnless(c, p, started) ==
    /\ p \in cancel[c]
    /\ cancel' = [cancel EXCEPT ![c] = @ \ {p}]
    /\ status' = IF started THEN status ELSE [status EXCEPT ![p] = "cancelled"]
    /\ UNCHANGED <<hold, compliant, settled, clawRow, debit, reversals,
                   sent, worker, owe, asking, putBack, plan>>

\* Mutant: the cancelling UPDATE loses its condition on the status.
CancelLegBlindly(c, p) == CancelUnless(c, p, FALSE)

\* The cancelling UPDATE is conditional: a leg that was claimed after the
\* snapshot is left alone, and nothing is recorded for it.
CancelLeg(c, p) == CancelUnless(c, p, status[p] \notin NotStarted)

\* The clawback finance has to run by hand; its id makes a repeat a no-op.
OweLeg(c, p) ==
    /\ p \in owe[c]
    /\ owe' = [owe EXCEPT ![c] = @ \ {p}]
    /\ clawRow' = [clawRow EXCEPT ![p] = TRUE]
    /\ UNCHANGED <<status, hold, compliant, settled, debit, reversals,
                   sent, worker, cancel, asking, putBack, plan>>

\* The finalizer dies half way; a webhook or the recovery sweep starts over.
ClawDies(c) ==
    /\ "refund" \in plan.mortal /\ cancel[c] \cup owe[c] # {}
    /\ cancel' = [cancel EXCEPT ![c] = {}]
    /\ owe' = [owe EXCEPT ![c] = {}]
    /\ UNCHANGED <<ledger, sent, worker, asking, putBack, plan>>

-----------------------------------------------------------------------------
(* The operators' console and the seller's mark-paid route.                *)

OpsHold(p) ==
    /\ "hold" \in plan.manual
    /\ status[p] \in {"pending", "scheduled", "processing"}
    /\ status' = [status EXCEPT ![p] = "blocked"]
    /\ putBack' = IF status[p] = "processing" THEN putBack \cup {p} ELSE putBack
    /\ UNCHANGED <<hold, compliant, settled, clawRow, debit, reversals,
                   sent, worker, clawback, asking, plan>>

OpsRelease(p) ==
    /\ "release" \in plan.manual
    /\ status[p] = "blocked"
    /\ status' = [status EXCEPT ![p] = "pending"]
    /\ hold' = [hold EXCEPT ![p] = "null"]
    /\ UNCHANGED <<compliant, settled, clawRow, debit, reversals,
                   sent, worker, clawback, asking, putBack, plan>>

OpsClawback(p) ==
    /\ "clawback" \in plan.manual
    /\ status[p] = "paid"
    /\ status' = [status EXCEPT ![p] = "failed"]
    /\ UNCHANGED <<hold, compliant, settled, clawRow, debit, reversals,
                   sent, worker, clawback, asking, putBack, plan>>

SellerMarkPaid(p) ==
    /\ "mark_paid" \in plan.manual
    /\ status[p] # "none"
    /\ status' = [status EXCEPT ![p] = "paid"]
    /\ UNCHANGED <<hold, compliant, settled, clawRow, debit, reversals,
                   sent, worker, clawback, asking, putBack, plan>>

-----------------------------------------------------------------------------
RowStep(p) ==
    \/ Schedule(p) \/ HoldExpires(p) \/ PostureChanges(p)
    \/ Withdraw(p) \/ WithdrawDebit(p) \/ WithdrawDies(p)
    \/ OpsHold(p) \/ OpsRelease(p) \/ OpsClawback(p) \/ SellerMarkPaid(p)

\* What a worker that keeps running does next.
Proceed(w) ==
    \/ StartRun(w) \/ Claim(w) \/ EndRun(w) \/ RecordReply(w)
    \/ CheckLegs(w) \/ StampSettled(w) \/ ConfirmDebit(w)
    \/ ReverseDebit(w) \/ CheckReversal(w) \/ CreditReversal(w)
    \/ \E p \in Payouts :
          \/ Unblock(w, p) \/ Recheck(w, p) \/ ParkMissingBank(w, p)
          \/ UnknownGateway(w, p)
          \/ \E out \in plan.answers : CallGateway(w, p, out)

RefundStep(c) ==
    \/ ClawDies(c)
    \/ \E o \in Orders : ClawStart(c, o)
    \/ \E p \in Payouts : CancelLeg(c, p) \/ OweLeg(c, p)

Next ==
    \/ \E p \in Payouts : RowStep(p)
    \/ \E w \in Workers : Proceed(w) \/ Crash(w)
    \/ \E c \in Clawers : RefundStep(c)

Spec == Init /\ [][Next]_vars

\* The timers fire for ever (setInterval), and a sweep that does not die goes on.
Fairness == \A w \in Workers : WF_vars(Proceed(w))

FairSpec == Spec /\ Fairness

-----------------------------------------------------------------------------
(* Properties.                                                             *)

Handles(w, p) == p \in due[w] \/ p \in still[w] \/ cur[w] = p

\* The money of a withdrawal leaves the platform at most once and comes back
\* to the wallet at most once, however many sweeps overlap, die half way or
\* are crossed by operators: the conditional claim is the only way into the
\* disbursement loop and a released withdrawal carries no hold date.
WithdrawalAtMostOnce ==
    \A p \in Payouts : IsWallet(p) => sent[p] <= 1 /\ reversals[p] <= 1

\* As long as a gateway that reports a failure has not moved the money, no
\* withdrawal is both transferred and credited back.
NeverSentAndReversed ==
    "lost" \notin plan.answers =>
        \A p \in Payouts : IsWallet(p) => sent[p] = 0 \/ reversals[p] = 0

\* The share of a seller or a manufacturer is sent once, and not at all while it is
\* cancelled, whatever sweeps overlap, die, park and release it and whatever
\* clawbacks cross them.  The one exception is a row that was put back: a first
\* pass wrote `pending` over a row that had meanwhile been claimed, disbursed or
\* cancelled, or an operator held a row that was in a sweep's hands.
LegPaidOnce ==
    \A p \in Payouts :
        ~IsWallet(p) /\ p \notin putBack
            => sent[p] <= (IF status[p] = "cancelled" THEN 0 ELSE 1)

\* "Atomic claim: flip pending->processing in a single UPDATE...RETURNING so
\* concurrent workers cannot double-pay the same payout": however many sweeps run
\* at the same time, none of them sends a share a second time.
ConcurrentWorkersPayOnce ==
    \A p \in Payouts : ~IsWallet(p) => sent[p] <= 1

\* A row that a sweep has claimed does not stay in `processing` for ever, unless
\* the sweep dies, ends on a gateway name that nobody knows, or is told by the
\* gateway that the transfer is accepted and its end open.
EveryClaimResolves ==
    \A p \in Payouts :
        status[p] = "processing" /\ "sweep" \notin plan.mortal /\ plan.rows \subseteq Routable ~>
            \/ status[p] # "processing"
            \/ sent[p] > 0 /\ (\A w \in Workers : ~Handles(w, p))

=============================================================================
