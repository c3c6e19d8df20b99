# Epplaa: specifications of what happens at the same time

TLA+ models of the parts of Epplaa in which several processes work on the same rows:
what the replicas of the API monolith, the notification service, the agent service, the
gateways, the carriers, the streaming provider, operators, users and timers do to payouts,
payment intents, refunds, notifications, shipments, streams, approvals, the audit chain, second
factors and privacy requests, one SQL statement at a time. Paths below are relative to the
repository; `M/` stands for `services/api-monolith/src/`, `A/` for `services/agent-service/src/`.

1. The system
2. The modules, and how they correspond to the code
3. The runs
4. Bounds, fairness, assumptions
5. The proofs
6. Where the code and its comments disagree
7. What is not modelled

## 1. The system

Epplaa is a TypeScript monorepo: a marketplace with live shopping. `services/api-monolith`
(Express, PostgreSQL through Drizzle) holds nearly all of the logic, and any number of
replicas of it run the same routes and the same timers (`M/app.ts` 160-360).
`services/notification-service` is being split off from it, `services/agent-service` runs
LLM agents, `packages/` holds shared code (gateways, events, database schema), `apps/` the
user interfaces. There is no coordination between replicas but the database: nothing below
runs in a transaction unless it says so, and a status column with a conditional UPDATE is
the only lock there is.

| Component | State | Operations | Talks to | What makes it hard, what makes it correct |
|---|---|---|---|---|
| Payout ledger (`M/lib/payments.ts` 739-1432, `M/routes/adminConsole.ts`, `M/routes/seller.ts`) | `payouts`, `orders.settled_at`, `wallet_txns` | split an order; hourly sweep `processDuePayouts`; operators' hold, release, clawback, run-due; seller's mark-paid | gateway transfers, compliance tables, refunds | overlapping sweeps, crashes between statements, UPDATEs keyed by id. Money leaves once, comes back at most once, never both |
| Wallet (`M/lib/wallet.ts`, `M/routes/wallet.ts`) | `wallet_txns` | top up, spend, withdraw, refund | payouts, intents | balance read before insert; two inserts of a withdrawal |
| Payment intents (`M/lib/payments.ts` 426-732, `M/routes/payments.ts`, `M/routes/webhooks.ts`) | `payment_intents`, `payment_webhooks`, `orders` | create, charge, webhook, verify, finalize | gateways, notifications, carrier, payouts | webhooks repeated, late, out of order, racing verify. Side effects once, only for captured money, never lost |
| Refunds (`M/routes/payments.ts` 78-317, `M/routes/webhooks.ts` 115-167, `M/lib/reconciliation.ts`) | `orders.refund_started_at` (lock), `refund_attempts` | refund request, refund webhook, 10-minute recovery sweep | gateways, payouts (clawback) | the three find "the attempt" by being the latest row. Money goes back once; status tells the truth |
| Daily reconciliation (`M/lib/reconciliation.ts`) | reports | compare settlements | gateways | reads only |
| Gateways and router (`packages/payments/src`) | health windows, circuit | charge, verify, refund, payout, failover | Paystack, Flutterwave | exceptions are reported as failures; circuit trips on shared counters |
| Notification outbox (`M/lib/notifications/outbox.ts`) | `notifications_outbox` | enqueue; 30-second drain with lease recovery | push, mail, SMS providers | replicas claim the same rows, die, are slow. One send, one end |
| Notification service (`services/notification-service/src/lib`) | same table | `drainBatch`, shadow watcher | same | its own rules on leases |
| Event outbox (`packages/events/src/worker.ts`) | `event_outbox` | claim, dispatch, retry, dead-letter | in-process consumers | rows in flight of a dead worker; consumers run again |
| Fulfilment (`M/lib/fulfillment/dispatch.ts`, `M/routes/fulfillmentWebhooks.ts`) | `shipments`, `shipment_events`, `orders.status` | dispatch, ingest tracking events | carriers | select-then-insert, events out of order |
| Box lockers, returns, PUDO (`M/routes/box.ts`, `returns.ts`, `pudo.ts`, `M/lib/pudo`) | reservations, returns, manifests | reserve, unlock, auto-return, refund to wallet, manifest | orders, wallet | unlock racing the automatic return |
| Orders, checkout, catalogue, accounts (`M/routes/orders.ts`, `products.ts`, ...) | orders, carts, stock | place, cancel, browse | intents | prices, VAT, promo codes are sequential |
| Wholesale, manufacturers, landed cost (`M/routes/wholesale.ts`, `M/lib/landedCost.ts`, ...) | wholesale orders | bonded partial release | payouts | state machine driven by three parties |
| Audit chain (`M/lib/audit.ts`, `auditChainVerifier.ts`, `auditDlqMonitor.ts`) | hash chain, dead letters | append under an advisory lock, verify, replay | everyone | chain unbroken under concurrency |
| Security (`M/lib/mfa.ts`, `M/middlewares/apiRateLimit.ts`, `M/lib/rate-limit`) | factors, counters, incidents | enrol, verify, throttle | Redis | single use; fallback when Redis is away |
| Compliance (`M/lib/kyc.ts`, `sanctions.ts`, `ndpr.ts`, `retention.ts`) | tiers, screenings, requests | screen, erase, purge | payouts | answers change between two reads |
| Streams, chat (`M/lib/streaming.ts`, `chat.ts`, ...) | streams, messages | go live, end, replay, moderate | provider webhooks | life cycle driven from two sides |
| Agent service (`services/agent-service/src`) | sessions, approvals | run tools, ask for approval | Kafka | an approval racing its timeout |
| Health and alerts, UI, infrastructure, scripts | | | | presentation or operations |

`PROJECT.json` lists every component with its status, and every hazard with the line at
which it bites and the properties aimed at it.

## 2. The modules

| Module | Models | Composed of |
|---|---|---|
| `Payouts` | payout ledger: sweep, withdrawal, clawback, manual routes | |
| `PaymentIntents` | from the creation of an intent to the finalized order or credited wallet | |
| `Refunds` | refund request, refund webhook, recovery sweep, of one order | |
| `Outbox` | the table and both programs that drain it | refines `OutboxPromise` |
| `OutboxPromise` | what the outbox promises per row | |
| `Shipments` | dispatch, tracking, locker, counter, cancellation and cash shares of one order | |
| `Streams` | start, stop, rotation, recordings, replay and viewers of one stream | |
| `Approvals` | turns of the agent runtime and the approval bus | |
| `AuditChain` | boot, append, dead letters and probes of the audit log | |
| `Mfa` | second factor of one user, its mails and nudges | |
| `Ndpr` | privacy requests of one user, ticks and final purge | |
| `PayoutsProofs`, `RefundsProofs`, `OutboxProofs`, `ShipmentsProofs`, `AuditChainProofs`, `NdprProofs` | theorems | the module, TLAPS |
| `WebhookProofs` | theorems | `PaymentIntents`, `Streams`, TLAPS |
| `AccessProofs` | theorems | `Approvals`, `Mfa`, TLAPS |
| `MC...` | instances for TLC, one module per model | the module |

`Streams` and `Mfa` name their parts `StreamInit`, `MfaNext` and so on, because the modules of their
theorems hold another component's too.

Granularity is the same everywhere. An UPDATE or INSERT is one step, with the condition it
carries. A SELECT is a step of its own when its answer is used after the next statement. A
call to a gateway is one step: it happens and is answered; that the process dies before it
can record the answer is the next step of another kind. An *actor* or *worker* is one
execution: a request in progress, a webhook delivery, one run of a timer. Between any two
steps every other actor may run. What a process holds in memory is lost when it dies; what is
in the database stays.

**Payouts.** `status`, `hold`, `debit`, `reversals`, `settled`, `clawRow` are columns and
rows; `pc`, `blk` (blocked rows of the first pass), `due` and `still` (claimed rows before and
after the re-check), `cur`, `reply` are the local variables of `processDuePayouts`; `cancel` and `owe`
those of `clawbackPayoutsForRefund`, of which several may run (a request, a webhook and the recovery
sweep, each a member of `Clawers`): the legs that its SELECT showed unclaimed, and those it showed in
flight or paid. `compliant` is what the KYC and sanctions queries
would answer now; it may change at any time. `hold` abstracts `hold_until` to NULL, ahead and
past. `sent` counts the transfers the gateway took; it is what the properties are about and
no code reads it. `putBack` is history: rows over which a first pass wrote `pending` although they had
been claimed, sent or cancelled since it read them, and rows that an operator held in a sweep's hands.
The sweep is `StartRun`, `Unblock`*, `Claim`, `Recheck`*, then per row
`ParkMissingBank`, `UnknownGateway` (the run ends, the claimed rows stay) or `CallGateway`,
`RecordReply` and what follows it (`CheckLegs`/`StampSettled`, `ConfirmDebit`,
`ReverseDebit`/`CheckReversal`/`CreditReversal`). `plan` is what there is and may happen in a
behaviour, one of `Plans`; it never changes. Amounts, bank details and the split into
shares are left out.

**PaymentIntents.** Creation and charge (`Create`, `ChargeAccepted`, `ChargeRefused`,
`RollBack`), the buyer on the gateway's page (`Pay`, with the right or another amount, and
`Decline`), webhooks (`Deliver`, `Reopen`, `Apply...`, `Close`), verify calls (`Verify`,
`Answer`, `MarkFailed`), `markIntentSucceeded` (`Cas`, `CreditTopUp`) and
`finalizeOrderAfterPayment` (`ReadOrder`, `StampOrder`, `NotifyAndDispatch`, `SplitPayouts`).
`RefundOrder` and `RefundIntent` are what a refund that went through writes to order and intent, over
which a late success may be written. `Close` sets `processedAt` and leaves the error that another delivery wrote.
`Fail` ends any request, with or without the error column being written. `winners`,
`notices`, `reopened`, `refund` and `fails` are history: who won the conditional UPDATE, what was told,
whether a failure was written over a success, how far a refund has got, who died.

**Refunds.** `rows` is `refund_attempts` of the order in order of creation, attempts and
clawback rows alike, because the code looks them up alike. `lock` abstracts the timestamp
`refund_started_at` to NULL, recent and past the stale window; it gets stale only after the
request that took it is over, the window being thirty minutes. `moved`, `inflight`, `bounced`
are the gateway's: attempts for which the money went back, will be decided later, came to
nothing. The finalization (`Claw`, `FlipOrder`, `FlipIntent`, `CloseRow`) is the same sequence
in all three programs, in which the sweep stops before the last. `overtaken` is history:
webhook or sweep has cleared the lock (`Unlock`, an UPDATE keyed by the order) while something
was at stake under it (`AtStake`): money that has gone or may go, a request on its way to the
gateway (`Charging`), or a failure not yet recorded.

**Outbox.** `when` abstracts `next_attempt_at` to ahead, past, and past by more than the
lease. `pods` says which drainers belong to the notification service, none, some or all of them; the others run
`Recover`, `Select`, `Claim` of the monolith. Both send alike (`Send`); a provider may take the message
and its answer be `lost`: the adapters catch everything and say that it failed
(`M/lib/notifications/postmark.ts` 109-116, `termii.ts` 107-109). `AckThrows` and `WriteThrows` are the two ways in
which a database error is absorbed by `drainBatch`. `faults` counts deaths, statements that throw and lost
answers. `robbed` is history: rows that `Recover` took from a drain at work, because only their age tells
them from those a dead one left. The refinement mapping of `KeepsPromise`
merges pending and processing into "open" (`Fate`), reads `sent` as the messages handed
over and `robbed` as the rows whose promise is void: the abstract outbox hands a message over at most once,
and once more per fault, and does not reopen what is closed.

**Shipments.** `config` says how the order is paid and where it goes; `order`, `shipment`, `box`,
`events` and `shares` are `orders.status`, `shipments.status`, `box_reservations.status`,
`shipment_events` (unique by id) and the recipients that have a row in `payouts`. A worker is one
request, webhook or timer run; `pc`, `ev`, `latest`, `nth` are its locals. `dispatchShipmentForOrder`
(`M/lib/fulfillment/dispatch.ts`) is `Dispatch` or `DispatchAgain`, `Book`, `InsertShipment`, `Reserve`,
`SeedEvent`; `ingestTrackingEvents` is `RecordEvent`, `ReadNewest` (or `ReadOwn`), `ReadCurrent`,
`Project`, `DeliverOrder`, and for a cash order `CheckShares` and one `InsertShare` per recipient.
`Unlock`... and `FindExpired`... are the two routes of a locker, `Collected` the partner's counter.
`trail` is what happened to the parcel, by occurrence; notices of it arrive in any order and again
until they are answered. `lapped`, `crossed`, `strayed` and `deaths` are history: two workers have overlapped; two dispatches have been
between their look-up of the shipment and its row at the same time; a dispatch was lost (by a death, an
exception or an answer that did not arrive) between the carrier's acceptance and the row; a worker died.

**Streams.** `status`, `input`, `hls`, `video`, `current`, `peak` are columns of the row of `streams`;
`replay` is the row of `replays`; `inputs`, `videos`, `events` are the provider's. `Start`, `GoLive`,
`Announce`; `Stop`, `EndStream`, `ListRecordings`; `Rotate`, `DeleteInput`, `CreateInput`,
`AssignInput` are the three routes of `M/routes/streamLifecycle.ts`; `Receive`, `ReadStream`,
`ReadReplay`, `InsertReplay`, `SyncStream`, `FinalUpdate` are the webhook and
`M/lib/replayPersist.ts`. A delivery whose stream is not found (`Matched`), or whose signature or body is
not accepted (`Reject`), is answered with 200 and dropped (`Forget`). `Join`, `Leave`, `Disconnect`, `Count`,
`WriteCount` are the handlers of `M/lib/socket.ts`, each of which counts the room and then writes what it
counted (or does not, `LoseCount`); any number of them are at work. The rooms of a socket that disconnects are
handled one after the other; this stream's is the first, in which the socket still is, or a further one,
which it has left by then. The other variables are history. `raced`, `crossed`, `leaky`: two starts, two rotations
overlapped, a rotation lost a call. `bare`, `shown`, `forgotten`: recordings that came without a URL, that
the row named, whose delivery was dropped. `miscounted`, `doubled`, `unpeaked`: why the counts may be
wrong just now; each is set by what the comment of `CountsAreTrue` names, and cleared by the next handler that
runs alone, `unpeaked` by the next join that begins alone.

**Approvals.** A turn is one execution of `AgentRuntime.handle`, `home` its replica, `nth` and `tool`
the call it is at; each `await` ends a step. `proposed`, `decided` and `answers` are the topics,
`memory` the session's. `Produce` precedes `Register`, as in `KafkaApprovalBus.requestApproval`, so
that a decision may be read before anybody waits for it. `Consume` gives a decision to one replica
of the group, any number of times. `Expire` is the timer, `Stop` and `Exit` the two halves of a
shutdown. `muted` are the calls of which the sink lost an audit event.

**AuditChain.** `rows` and `letters` are `audit_events` and `audit_failures`; `lock` is the advisory
lock, held by a transaction; `boot` is how far `ensureChainHeadLoaded` has come in each replica. A
call of `recordAudit` is `Call`, `AwaitLoad`, `AcquireLock`, `ReadHead`, `Insert` (which commits),
and after an error `InsertLetter` or `LetterThrows`. `InsertUnanswered` is the COMMIT whose answer is
lost. `Verify` and `Poll` are the probes, `Stray` an UPDATE that got past the triggers. The hash is
ideal: the hash of a row is the sequence of all it was computed from.

**Mfa.** `row` is the one row a user may have in `mfa_enrollments`, with its secret and sheet of codes
numbered by the statement that made them, so that a replaced row is told from the old one. A request
is a chain of statements: `Setup`; `CheckCode`, `Activate`, `Record`, `Claim`, `Mail`, and `Unclaim`
if the mail throws; `CheckAssertion`, `Touch`; `CheckBackupCode`, `ConsumeCode`; `AskRecent`,
then `Regenerate` or `DeleteRow`, `DeleteChallenges`. A tick is `Scan`, `Stamp`, `Nudge`, `Unstamp`,
with the conditional UPDATE of the marker in `Stamp`. `Age` and `Prune` end what nobody confirmed.

**Ndpr.** `rows` is `ndpr_requests` in order of creation; `user` and `suppressed` are what is erased.
A tick takes its rows from one SELECT (`StartTick`) and works through them (`Take`) with the branch of
each kind; the erasure is the sequence `EraseSteps` of statements (`Lookup`, `Suppress`, `Anonymise`,
`Delete`, `Record`), which the final purge of the retention sweep runs too, up to `Delete`. Requests
are `AskErase`/`InsertErase`, `AskExport`, `AskCancel`/`Cancel`, `AskRectify`/`Rectify`/
`RecordRectify`. `Throw` is a statement that fails in a run, `TickFail` the mark that follows it.
`past` is history: requests that crossed, addresses that could slip by the suppression.

## 3. The runs

| Run | Instance | Shows |
|---|---|---|
| `Payouts_Ledger` | five plans: a withdrawal, two sweeps, all manual routes, deaths of sweeps and requests; two withdrawals, one of them unroutable, with holds and releases; a share, two sweeps and a clawback, all manual routes, deaths, every answer; the same with one sweep and two clawbacks; both shares of an order, a sweep that does not die and a clawback that may; 276,168 states, fair | a withdrawal is sent at most once and credited back at most once, and, where a gateway tells the truth, not both; a share that was not put back is paid once, and not at all once it is cancelled; every claimed row leaves `processing` unless its sweep dies, ends on an unknown gateway, or its transfer was left pending |
| `Payouts_Overlap` | a share and two sweeps, nothing fails | violation of `ConcurrentWorkersPayOnce` (section 6) |
| `PaymentIntents_Race` | 1 intent, order or top-up, 2 requests, declines, verify errors, a refund, 1 death; 494,975 states, fair | one credit; nothing fulfilled without captured money; one notice unless a failure was written over a success, one winner until then or a refund; captured money is marked in spite of a death, and fulfilled without one |
| `Refunds_Retries` | 2 requests, 1 delivery, 1 sweep, cancellations and deliveries of the order, a disbursed leg, 3 attempts; either 2 deaths, or a gateway that settles or bounces later; 495,828 states, fair | money goes back once unless a lock was cleared with something at stake, which a gateway that settles at once and a lone sweep never lead to; order, attempts and intent tell the truth of it; money that went back ends in a finalized refund; a failed attempt gets unlocked |
| `Outbox_Drains` | 2 rows and 2 drainers of either program, or 1 row and a drainer of each; 2 deaths, errors or lost answers; 543,785 states, fair | sends and ends are as `OutboxPromise` has them: a row is handed over again only after a fault, and a closed one stays closed, unless the recovery took it from a drain at work; every row settles |
| `Shipments_Races` | 5 kinds of orders (card or cash; courier, locker, counter; dated notices or not), 2 workers, 2 dispatches, 2 scans, 1 death; 864,463 states, fair | two parcels only if two dispatches met between look-up and row or one was lost there; what is shown has been earned and ends stay; a delivery shows, and pays the shares of a cash order |
| `Streams_Sessions` | 2 workers, 3 plans: two sessions and a death, overlapping rotations, two viewers; 930,292 states, fair | followers hear of each session once; the input on record exists; counts are right again once a handler has run alone; a recording becomes the replay, or the row names it, and what came with a URL can be played |
| `Approvals_Decisions` | a turn of 2 calls, on 2 replicas, on 1, and without a bus; contradicting decisions, 1 restart, 1 muted call; 1,064,747 states, fair | what needs a human runs only if one approved it, is on record, never after a refusal; a single replica hears every decision in time; turns end |
| `AuditChain_Appends` | 2 replicas that boot, 2 calls, 2 errors, 1 death, 1 altered row; 180,564 states, fair | the chain does not fork; no event is lost silently or recorded twice; probes show what is wrong and only that |
| `AuditChain_Boots` | 2 replicas that boot, nothing fails | violation of `BootsRepeat` (section 6) |
| `Mfa_Enrolment` | 2 requests, 2 ticks, 5 operations, 1 fault, sheets of 2 codes; 1,234,649 states, fair | codes are used once and factors proven, the owner is told, nudges come, once each |
| `Ndpr_Requests` | 2 requests, 2 ticks, 1 sweep, 2 operations, 2 addresses, 1 fault; 757,046 states, fair | the table tells the truth of erasures, a wiped address is suppressed, no due request stays pending, what has been begun is finished |

Every property of a passing run has a mutant in `PROJECT.json`: a definition of the model
changed the way a mistake in the code would, defined next to the original, under which TLC
finds the property violated.

Many properties carry an exception, such as "unless two calls overlapped" or "unless a setup was
in between". An exception is a history variable that the model sets exactly when the named thing
happens, and as narrowly as the code allows: the overlap of two dispatches, say, and not of any two calls.
It is there because the code does not keep more, and each has an entry in section 6
where a reader of the code would expect otherwise.

## 4. Bounds, fairness, assumptions

*Bounds.* All are constants used in guards: `MaxSent` (transfers counted per row), `MaxTries`
(attempts per order), `MaxFails`, `MaxDeaths`, `MaxFaults`, `MaxErrors`, `MaxExits`, `MaxClaims`,
`MaxDispatches`, `MaxScans`, `MaxCalls`, `MaxMuted`, `MaxStrays`, `MaxOps`, `Many`, `Load` (rows enqueued
under each deployment), and the `Plans` of `Payouts` and `Streams`. Two workers (requests, replicas) suffice for the races, for each property is about one row,
order, stream or user, and a violation needs one actor per conflicting write. Two scans are an
out-of-order pair; five operations of `Mfa` are an enrolment, its confirmation, one more of each and
a use of codes; two requests of `Ndpr` are the crossing pairs (erase and erase, erase and cancel, erase
and rectify). Three refund attempts are one that fails, one whose lock is cleared by both webhook and
sweep, and one that is made next to it; with two the race cannot show. One fault per run is a death or error at any place of any execution; `Refunds` allows one
in each of two consecutive executions, `Outbox` two, `Payouts` any number. Two clawbacks of one refund are a
pair of its request, its webhook and the recovery sweep. `MaxClaims` is above what `ReplicaMax` and
the deaths allow. A second withdrawal is there for the batch (a row claimed together with another that
ends the run). The theorems of section 5 hold for any number of everything.

*Fairness.* Weak fairness of a worker's, request's, turn's or call's next step: a process that does not
die goes on, since every await returns or, in the bus, has a timer. Weak fairness of timers and of time
passing: `setInterval` (`M/app.ts` 160-400); of the recovery sweep as a whole and of the gateway's
settlements as a whole. Strong fairness of the delivery of an event or notice that
is due: gateways and carriers repeat it until it is acknowledged, and the server takes any number of
requests, so that a delivery is not kept out by others; and of a call that waits for the advisory lock,
which PostgreSQL hands out in order. Deaths are bounded where fairness is used, so that they do not
recur for ever. No fairness is assumed of buyers, sellers, viewers, operators, users or of carriers'
scans.

*Symmetry* is not used: every run that is large enough for it has temporal properties.

*Deadlock* is checked for `Payouts` and `Outbox`, whose timers never stop. Elsewhere an intent, an
order, a turn or a user may really be done, hence `CHECK_DEADLOCK FALSE` there; each cfg says so.

*Assumptions that restrict a passing run.*

* `NeverSentAndReversed`, `MoneyBackOnce`, `RecordsAreTrue`: a gateway that reports a failure has not moved the money.
  `RefundCompletes`: the event of a settled refund says `success`. Section 6 says what happens otherwise.
* `Outbox`: no drain of the monolith outlasts its lease (`Slow` is FALSE), as the comments of its constants
  have it; of the service's drains nothing is assumed.
* `Shipments`: of a carrier's adapter only what it reports and that its call may throw.
* `Approvals`, `Streams`: the replicas of a deployment and the viewers of a stream are finitely many.
* `Streams`: a recording is ready only after its session is over; a stop comes after a start; the plan
  with viewers makes no recordings, since what a replay copies of the counts is not modelled; a viewer
  who comes back does so after the handlers of the last visit.
* `AuditChain`: sha256 has no collisions.
* `Mfa`: a code is right or wrong; the window of a one-time code is not modelled.
* `Ndpr`: the mail address stands for the identifying fields; what hangs on the account is one bit,
  whose seven DELETEs and the UPDATE of the identity documents are one step; audit rows are left to
  `AuditChain`; no run or request lasts the thirty days after which the final purge looks at an account.
  The administrators' cancellation (`M/routes/adminTrustSafety.ts` 232-288) is the handler of `Cancel`.

## 5. The proofs

Eight modules, with an inductive invariant for each component, stronger than what it is for. All hold for any
values of the constants, assuming the `ASSUME` of the module, which TLC evaluates in its runs, and what
a theorem names as its hypothesis: `TrueRefusals`, `OneDelivery`, both in `RefundsProofs`.

**PayoutsProofs**: `TypeCorrect`, `WalletInvariant`, `WithdrawalSafety` (`WithdrawalAtMostOnce`),
`ReversalSafety` (`NeverSentAndReversed`), `LegSafety` (`LegPaidOnce`). `WithdrawalAtMostOnce` is not inductive: it says nothing of
who may send next. `WalletInv` adds

* `Cursor`: a worker has a current row exactly in the parts of the loop in which the code has;
* `OneHandler`: a withdrawal is in the hands of one worker, in one place;
* `Progress`: before a withdrawal is claimed nothing has happened to it; while it is queued it
  has not been sent; while it is worked on it has not been reversed; and if gateways tell the
  truth, a worker that is about to reverse it has not moved the money.

The argument is that a withdrawal can be claimed only once in its life. `Claim` takes rows that
are pending and due; the insert makes a withdrawal so; the first pass of the sweep exempts
withdrawals; and an operator's release, which makes it pending again, clears the hold date that
the claim compares. So the one worker that claims it is the only one that ever handles it. The
flaw of the release (section 6) is what this rests on: whoever mends it has to find another guard.

A share has no such argument, since the first pass of a sweep makes blocked shares pending again.
`LegInv` says instead, of a share that was not put back (`Leg`): a share which was sent is in a status that
neither `Claim`, nor the clawback, nor a release takes (`Taken`), and in no list of rows that a sweep still
has to send (`Unqueued`); one that is in such a list is there once, in one sweep, and taken. `LegSafety`
has no hypotheses: any number of sweeps overlap and die, of clawbacks cross them. What the code lacks is in
the exception, `putBack`: the two steps that break `Leg` are an UPDATE keyed by id over a status that was read
earlier, and a hold of a row that is out (section 6; the run `Payouts_Overlap` shows the first).

**WebhookProofs**, payment intents: `TypeCorrect`, `SideEffectsHappenOnce` (`SideEffectsOnce`). The conditional
UPDATE of `markIntentSucceeded` hands out a token. `OneWinner` says, until a failure is written
over the success or the intent is refunded: there has been a winner exactly if the intent is succeeded, and one request at most is
on the winner's way (`Winning`). A refund makes the token available once more, and `OneNotice` says what keeps
a second winner from a second notice: one request at most is past the check that the order is unpaid
(`Telling`), and after the notice, as after a refund, the order is paid and stays so. `Earned` says that a request gets
past the gateway's word only with the gateway's money, and `Opened` that nobody works on an intent
before its charge was accepted, so that the roll-back of its creation crosses nobody.

**WebhookProofs**, streams: `StreamTyped`, `ToldTrue` (`LiveIsTrue`), `CountedTrue` (`CountsAreTrue`). Even
the types need an argument, for the seller's wishes are bounded by a plan: `Budgeted` says that what is under
way, has been made or is left of starts, announcements and inputs adds up to no more than the plan, whence
`Recordings` and `Jobs` name only sessions and inputs that exist. `Announcements`: unless two starts overlap,
one at most is between its SELECT and its UPDATE and knows whether the stream is live, so that every
announcement has a session of its own. `FirstSession`: before its end nobody works on a recording.
`Assigned`, `Reachable` and `Only` follow a rotation through its statements: the input it is about to store
exists and is nobody else's; whatever is on record exists unless a rotation is under way; and if rotations
come one by one there is at each point of one the input it says and no other. `Sole` and `Peaks` are about
the counts. `Sole`: unless the counts are out of step, a handler that is at work is the only one, and its count is of
the room as it is. `Peaks` is the subtle one, since a handler counts at one time and writes at another: unless
`unpeaked`, the room, the count on record and every count a leave is about to write are `Covered`, that is, no more
than the peak or than what a join on its way (`Coming`) has counted or will count; this holds however the handlers overlap.

**RefundsProofs**: `TypeCorrect`, `NothingShownEarly`, `MoneyGoesBackOnce` (`MoneyBackOnce`), `RecordsTrue`
(`RecordsAreTrue`). `Lock` is the argument for the money: unless a lock was cleared with something at
stake, what the gateway has is one attempt, one request at most is on its way to it, only one of the two
is the case, and in either the lock is held. `Alone` adds that a sweep which runs alone clears a stale
lock only, under which nobody is at work and after which nothing was sent, and that no webhook clears
any if nothing is settled late. `Backed` and `Finalized` are the argument for the tables, and hold
whatever the gateway answers: who gets to finalize has seen that the money went back, and who closes
the attempt has been through clawback and intent. `Recorded` is the argument for the failures: from when
the gateway gives up on an attempt until a delivery has recorded it (`Untold`), nothing else is at stake
and the lock is held, so that no attempt of anybody else is marked instead. Hypotheses are
`TrueRefusals` (a refund that the gateway reports as failed moved no money, which the adapters do not
keep to, section 6) and, for the last, `OneDelivery` (an event is not delivered twice at a time: the
webhook takes up again any event that is not processed yet, `M/routes/webhooks.ts` 98-111, so that two
deliveries of one event would apply it twice).

**OutboxProofs**: `TypeCorrect`, `HeldByOne`, and `Implementation` (`KeepsPromise`), for any number of
drainers of either program, side by side or alone, slow or not. Each part is about the rows that
are not in `robbed`: `Held` says that a row in a drainer's hands is being processed; `OneHolder` that it is
in nobody else's; `Sends` counts: an open row has been handed over once per fault (a lost answer is one),
and once more if it was just sent and not yet acknowledged. Recovery is the one step that could break `Held`,
and puts the row into `robbed` when it does. `Fate` maps each step to a step of `OutboxPromise` or to a stutter,
also the steps with robbed rows, of which the abstract outbox only promises that they are not forgotten.

**ShipmentsProofs**: `TypeCorrect`, `ParcelBookedOnce` (`BookedOnce`), `StatusEarned` (`StatusIsEarned`),
`EndsStay` (`EndStays`), for any number of workers, recipients, scans, dispatches and deaths. Two things are
kept apart. `Facts` hold through every race and death: what a worker knows at its label (`AtLabel`: it has a
proof of delivery in hand before it writes anything that needs one, and the row exists before an event is
recorded) and what the tables say by themselves (`Stored`: there is a newest event, a delivered order has a
proof, shares belong to a delivered cash order). `StatusIsEarned` is theirs. So is `Parcel`, for `BookedOnce`: unless
`crossed` or `strayed`, one dispatch at most is between look-up and row (`AtCarrier`), one that is about to book
finds that nothing has been booked, and a booked parcel has its row or a worker about to insert it. It asks
nothing of other calls, which may overlap and die. The last two say what calls
that do not overlap achieve: `Alone` says that one worker at most is busy unless two have overlapped, and
that the guard it has read still holds at its write; `Undisturbed`, that as long as none has died the booked
parcel, the row and the newest event agree between calls (`Rest`) and, within the only call, up to where it
has got (`Mine`). No hypotheses.

**AccessProofs**, approvals: `TypeCorrect`, `HumanInTheLoop` (`RunsOnlyApproved`), `RecordedTruly`
(`TrailIsTrue`), `HeardInTime` (`HeardWhileWaiting`, the safety half of `TurnEnds`), for any number of turns,
replicas, operators, restarts and repeated decisions. `Past`
says that no set names a call that has not been made, so that a new call starts with a clean record;
`AtCall` says what is known of the call a turn is at: up to the dispatch it has not run and no refusal
of it is on record, at `approved` and later there is an approval of this very call.

**AccessProofs**, second factor: `MfaTyped`, `CodesChecked` (`CodesAreChecked`), `OwnerTold` (`OwnerIsTold`),
`ToldOnce` (`NudgedOnce`, the safety half of `NudgesCome`), for any number of requests, ticks, operations and
faults. For the codes, `Fresh` says that nobody has used, or told of, a row or sheet that is not stored yet,
and that no two requests store the same; `Unused` that a code on the row has not been accepted. For the mail
about the activation, `Marked` says that the marker stands for somebody who is sending, for a mail that was
sent or for a fault; `Once` that, unless a rollback took a later claim's marker, one request at most may send
and nobody has. The nudges need more, because a tick that fails writes back the marker it found, and that
may be of another band, tick or sheet. `Told` says that what is above the marker is clean: no mail, and nobody
on the way to send one. `Reversible` says that it will still be so when the tick that set the marker
rolls it back, and when the one that set it over that one does: with two bands there is no third. `Standing`
and `OfThisSheet` carry the rest of the property through the same rollbacks.

**AuditChainProofs**: `TypeCorrect`, `ChainLinked` (`Linked`), `RecordedOnce`
(`RecordedExactlyOnce`), `NobodyAccused`, `Guarded`. `Held` is the argument for the chain: a call in its
transaction is the one that has the lock, and after its SELECT it has the hash of the last row, since
nobody else can append. `AtLabel` is the argument for the events: before its INSERT a call is in neither
table, and one about to write a dead letter is in the chain only if the answer to its COMMIT was lost.
`Intact` and `Protected` carry the other two.

**NdprProofs**: `TypeCorrect`, `RecordTruth` (`RecordIsTrue`), `WipedListed` (`WipedIsSuppressed`).
`Applied` says how far the erasure is at each label of a run, and that nothing but a correction takes
it back; `TickRows` that a tick is in the branch of the row in its hands; `Unique` that, unless
two requests crossed, one erasure is pending or on its way; `Kept` that a row cancelled in time is
in nobody's hands; `Listed` that the address a run is about to wipe is suppressed, or known to have
slipped by. The steps are sorted by what they write (`RowSteps`, `UserSteps`, `RunsMove`, `ReqsMove`),
and each part of the invariant is shown from the effects rather than from every action anew.

Model-checked only: one property of each passing run, the one that says something
happens in the end (`EveryClaimResolves`, `CapturedIsFulfilled`, `RefundCompletes`, `EveryRowSettles`, `DeliveryCounts`,
`RecordingIsReplayed`, `TurnEnds`, `WatchIsTrue`, `NudgesCome`, `ErasureFinishes`). They rest on fairness, out of
the prover's reach. Where such a property has a safety half (`TurnEnds`, `WatchIsTrue`, `NudgesCome`), that half
is proved as above (`HeardInTime`; `NobodyAccused` and `Guarded`; `ToldOnce`). Of the type invariants and the
other properties of the passing runs none is left without a theorem; those with hypotheses are named
with them.

## 6. Where the code and its comments disagree

Two of them are runs that TLC ends with a violation (`Payouts_Overlap`, `AuditChain_Boots`). The others are
behaviours of the modules, met while modelling, for which no run is kept: the properties of section 3
name them as exceptions, or assume them away as section 4 says.

*Audit chain*

* *Two replicas that boot together* (`AuditChain_Boots`): both drop the triggers, the second CREATE
  throws (`M/lib/audit.ts` 75-90), the rejected promise is kept (45-58), and the replica dead-letters
  every event until it is restarted, without its probes (`M/app.ts` 366-398). `M/lib/roles.ts` 27-29
  calls it an idempotent boot.
* The runbook (`docs/runbooks/system-status-alerts.md` 98-102) names a script
  `replayDeadLetteredAuditRows` that does not exist; a replay of a letter whose COMMIT was only
  unanswered would chain the event again.

*Money*

* *Two overlapping sweeps* pay a share twice (`Payouts_Overlap`): the first pass writes `pending` keyed by id,
  from a snapshot (`M/lib/payments.ts` 1130-1133, 1149-1152), over a row that the other sweep has claimed and
  paid. The comment at 1167-1169 says "concurrent workers cannot double-pay the same payout".
  `LegPaidOnce` and its theorem name the rows (`putBack`).
* An operator's hold of a share whose transfer is out (`HOLD_FROM` names `processing`,
  `M/routes/adminConsole.ts` 442) lasts until the next sweep: its first pass finds the row blocked,
  makes it pending, and if the run that sent it died or its answer is still out, the share is sent
  again. The comment at 434-441 trusts in the gateway's idempotency keys; what a gateway makes of a
  repeated reference is not in the repository.
* A blocked leg survives the refund: 1021 and 1028 name neither `blocked` nor another way out, though
  the comment at 1003 says all legs.
* A released payout is never picked up: `hold_until` NULL (`M/routes/adminConsole.ts` 480) is not
  `<= now()`.
* Two winners: `failed` is written by id over `succeeded` (`M/lib/payments.ts` 552-556,
  `M/routes/webhooks.ts` 192-196).
* A late success is written over a refund: the intent's status is read at `M/lib/payments.ts` 520, the gateway
  asked, and the conditional UPDATE (608) asks for a status other than `succeeded`, which `refunded` is. There
  is a second winner, and the intent reads `succeeded` for good. Nobody is told again, as the order is paid.
* A late or repeated refund event unlocks the next refund: the webhook takes the latest attempt for
  the one the event is about (`M/routes/webhooks.ts` 127-133).
* Webhook and sweep may clear one lock each for the same failed attempt, since both UPDATEs are keyed by
  the order (`M/routes/webhooks.ts` 164-167, `M/lib/reconciliation.ts` 199-202): the second clears the
  lock that the next attempt has taken, a third attempt is made next to it, and the money goes back
  twice. The comment at `M/lib/reconciliation.ts` 127-128 says "we never clear the lock unless there is
  explicit evidence the gateway side has no money in flight". `overtaken` marks it.
* A withdrawal's payout is due before its debit exists (`M/routes/wallet.ts` 133-158): the debit
  stays pending for ever if the sweep is quicker, and is missing if the request dies.
* A leg claimed between the clawback's SELECT and UPDATE is paid without the
  `clawback_required` row that the comment at `M/lib/payments.ts` 1005 wants.
* A share that is inserted after the clawback's SELECT (1009-1017) is paid though the order is refunded. The
  winner of the intent writes `paid_at`, on which a refund may start, before it inserts the shares.
* A gateway name the router does not know ends the run with its claimed rows in `processing`.
* The sweep itself releases a manufacturer's blocked share after a re-screening, which a test
  (`M/lib/manufacturerPayouts.test.ts` 221) says must not happen silently.
* The winner of an intent that dies before its side effects leaves them undone: the status was
  written first, and a retried event loses.
* A lost answer is reported as a failure by the adapters (`packages/payments/src/paystack.ts` 148,
  190): a withdrawal is then sent and credited back, a refund recorded as failed though the money moved.
* `mapPaystackStatus` (`packages/payments/src/paystack.ts` 281) takes the word `processed`, which
  `refund()` of the same file knows, for pending; a refund event with it is ignored.
* The refund webhook may take the clawback row for the pending attempt and close it.
* A refund request that dies after a processed answer leaves a pending row, which the recovery
  sweep leaves to finance (`M/lib/reconciliation.ts` 198-212), while the route's comment counts
  on it (`M/routes/payments.ts` 214-216).
* Shares of a cash order are inserted one by one, and a retry takes one share for all
  (`M/lib/payments.ts` 966): a death in between leaves the other recipients without a row.

*Notifications*

* A drain that outlasts the lease has its rows sent again (`M/lib/notifications/outbox.ts` 134), though the comment
  at 119-122 says that "concurrent workers cannot double-send" (`robbed`).
* The monolith drains whether or not the notification service does (`M/app.ts` 208-220). The service claims
  without starting a lease (`services/notification-service/src/lib/OutboxDrainer.ts` 66), so that a row
  that was due long ago is recovered by the monolith while the service sends it, and is sent twice (`robbed`
  as well). The service's README (line 10) speaks of ID ranges that no query has.
* An answer that is lost is reported as a failure (`M/lib/notifications/postmark.ts` 109-116, `termii.ts`
  107-109), and the message is sent again with the back-off of one that failed: `Send` may have it so, and
  `KeepsPromise` counts it as a fault.
* The monolith's claim does not look at `next_attempt_at` again: a row that another replica
  has just rescheduled may be sent without its back-off.

*Shipments*

* Two dispatches that overlap charge the carrier twice, the second insert being refused by the unique index after
  the call (`M/lib/fulfillment/dispatch.ts` 110-115, 152, 160); the comment at 88-90 says "without re-charging
  the carrier". Two finalizations of one order get there if both have read it unpaid: the UPDATE of `paid_at`
  does not tell its caller whether it wrote (`M/lib/payments.ts` 684-698). A dispatch that is lost between the carrier's
  acceptance and the row is made, and charged, again as well. `BookedOnce` names the two (`crossed`, `strayed`).
* A carrier's notice about a shipment that is not on record yet is answered with 200 and lost
  (`M/routes/fulfillmentWebhooks.ts` 104).
* A collection at the counter leaves the box `reserved` (`M/routes/pudo.ts` 138), so that the automatic
  return, when the hold is over, writes "returned" over a delivered shipment (`M/routes/box.ts` 232).
* Two calls that overlap may leave the shipment at an older event: each projects what it has read.

*Streams*

* `M/routes/streamLifecycle.ts` 109-110 calls the start idempotent, with followers notified "only on the first transition
  to live": two starts that overlap both read the stream off air (136) and both notify (`raced`).
* A replay that was inserted without a URL is not repaired when the event is repeated with one, nor by a stop: only
  the stream's row is (`M/lib/replayPersist.ts` 49-60), while `M/routes/streamingWebhooks.ts` 122-125 counts on a
  later delivery (`bare`).
* A delivery is answered with 200 and forgotten if its stream is not found, which is so after a rotation unless the
  event names the stream, or its signature or body is not accepted (`M/routes/streamingWebhooks.ts` 53-57, 85-105,
  115-119; `forgotten`).
* There is one replay per stream: the recording of a second session gets none of its own, the row of the stream
  names it instead (`shown`).
* A stream that is started again keeps the recording of its first session as its playback URL.
* A socket that disconnects is subtracted in each of its rooms (`M/lib/socket.ts` 322-330, 351-355), but it has
  left all of them once the first was counted: the other rooms show a viewer too few (`doubled`).
* A start with viewers in the room sets count and peak to zero (`M/routes/streamLifecycle.ts` 142-151), a stop the
  count (192-193), and nobody counts the room then. The next leave writes a count above the peak, for a leave does not raise
  the peak (`M/lib/socket.ts` 54-58); the next join mends both (`miscounted`, `unpeaked`).
* The peak may also stay below the count because a leave, whose count has joins in it that have not been
  counted yet, writes after those joins have counted fewer, another viewer having left (`M/lib/socket.ts` 52-58, 350-356).
  It takes three viewers; the attempt to prove the property for any number showed it (`unpeaked`).
* Overlapping rotations leave a live input behind at the provider (`M/lib/streaming.ts` 152).

*Approvals*

* A decision is read by any replica of the consumer group; one that does not wait for it drops it
  (`A/approval/KafkaApprovalBus.ts` 97), and the call is refused when its window ends.
* `tool_dispatched` is recorded also of calls whose handler failed or does not exist, since the
  dispatcher returns an error instead of throwing it (`A/runtime/AgentRuntime.ts` 219).

*Second factor*

* A mail that fails takes the marker back by user (`M/lib/mfa.ts` 346), whatever claim is there by
  then, against the comment at 341-345: a second mail goes out.
* A setup keeps the row, and with it the markers of mail and nudges (207); a verification activates whatever secret
  the row has by then (252); a removal that dies between its DELETEs leaves a recent challenge (666).

*Privacy*

* A request cancelled while the tick that selected it erases is overwritten as completed
  (`M/lib/ndpr.ts` 289, `M/routes/ndpr.ts` 232).
* Two requests that cross make two pending erasures (`M/routes/ndpr.ts` 186).
* An erasure that throws is marked failed and never selected again (`M/lib/ndpr.ts` 312-317); what it
  had begun is finished by the final purge, a month later, if it got as far as `deleted_at`.
* A suppression that fails is swallowed (`M/lib/suppressions.ts` 84), and the address is then wiped.
* A correction the tick selected before the erasure writes into the erased account
  (`M/lib/ndpr.ts` 295).

## 7. What is not modelled

Throughout: amounts and currencies, the split of an order into shares, formatting and content of
messages, signatures and HTTP, user interfaces, deployment. `PROJECT.json` lists every component
with what was left out of it. The larger omissions, and why:

* *The balance of the wallet.* `spend` and `withdraw` read a sum and insert afterwards
  (`M/routes/wallet.ts` 69, 133): two requests may both pass. The code takes no lock and its comments
  promise nothing of overlapping requests, so that the only property there is would be false by
  design; the hazard is listed.
* *Gateway router and circuit breaker, rate limits, incidents, alerts.* Counters in Redis or memory
  that choose between gateways that answer alike, or a status code. What they promise is approximate.
* *Event outbox* (`packages/events/src/worker.ts`): no program of the repository starts its worker. It claims and
  dispatches without a recovery, so that the rows of a worker that dies stay in flight; that hazard is listed.
* *Returns, wholesale, manufacturers, manifests.* One UPDATE of one row per request, checked by the
  route just before; no timer or callback works on the same rows.
* *Landed cost, freight, FX, VAT, promo codes.* Decimal arithmetic on tables within one request; a
  model would restate the formulae, and the unit tests enumerate them.
* *Catalogue, accounts, chat, moderation, discovery.* One statement per request.
* *Interfaces, generated clients, infrastructure, scripts.* More than half of the lines of the
  repository; they present or operate what the services hold.
* *Of modelled parts:* the messages of a stream's room, a streaming webhook without its secret (503 in production),
  the count of one replica's sockets that stands in when Redis does not answer, the arithmetic of one-time codes and the abuse
  counters of the second factor, prompts and tools of the agents, `restrict` and the synchronous export
  of the privacy routes, the retention sweep's deletions by age, the development mock of the payment
  page.
* *Compositions.* `PaymentIntents`, `Refunds`, `Payouts` and `Shipments` meet in the row of an order
  and in calls (`finalizeOrderAfterPayment` dispatches and splits, a refund claws back). Each module
  has the statements of such a call that touch its own state, with the caller's order; the product
  of two modules at this granularity is beyond TLC.
