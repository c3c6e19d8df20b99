-------------------------------- MODULE Outbox --------------------------------
(***************************************************************************)
(* The table notifications_outbox and the two programs that drain it: the  *)
(* API monolith's drainOutbox, which every replica runs on a timer, and    *)
(* the OutboxDrainer of the notification service that is to replace it.    *)
(* Both claim rows, send them one after the other without a lock, and then *)
(* write the outcome with an UPDATE keyed by the id alone.                 *)
(***************************************************************************)
EXTENDS Naturals, FiniteSets

CONSTANTS
    Rows,
    NoRow,
    Drainers,      \* processes that drain the table
    Deployments,   \* which of them may be the notification service's
    Load,          \* bound on the rows enqueued under each deployment
    BatchSize,     \* CLAIM_BATCH_SIZE, drainBatchSize
    ReplicaMax,    \* MAX_ATTEMPTS of the monolith
    PodMax,        \* MAX_ATTEMPTS of the notification service
    Slow,          \* whether a drain of the monolith may outlast its lease
    MaxFaults,     \* bound on the drains that die, the statements that throw and
                   \* the answers that are lost
    MaxClaims      \* bound on the claims of a row

ASSUME OutboxAssumption ==
    /\ NoRow \notin Rows
    /\ Deployments \subseteq SUBSET Drainers
    /\ Load \in [Deployments -> SUBSET Rows]
    /\ BatchSize \in Nat \ {0} /\ ReplicaMax \in Nat \ {0} /\ PodMax \in Nat \ {0}
    /\ Slow \in BOOLEAN /\ MaxFaults \in Nat /\ MaxClaims \in Nat

VARIABLES
    pods,      \* the drainers of the notification service; the others are the
               \* monolith's
    status,    \* notifications_outbox.status ("none": no row)
    attempts,  \* notifications_outbox.attempts
    when,      \* next_attempt_at: ahead, past, or past by more than the lease
    pc,        \* of each drainer: where it is,
    picked,    \* the ids it selected,
    mine,      \* the claimed rows it has still to send,
    cur,       \* the row it is sending,
    snap,      \* row.attempts as its claim returned them,
    outcome,   \* what the channel answered
    sent,      \* times a provider took the message
    faults,    \* drains that died, statements that threw, answers that were lost
    robbed     \* history: rows that the recovery took from a drain at work

table    == <<pods, status, attempts, when>>
drainer  == <<pc, picked, mine, cur, snap, outcome>>
vars     == <<table, drainer, sent, faults, robbed>>

TypeOK ==
    /\ pods \in Deployments
    /\ status \in [Rows -> {"none", "pending", "processing", "delivered", "failed"}]
    /\ attempts \in [Rows -> 0 .. MaxClaims]
    /\ when \in [Rows -> {"future", "due", "old"}]
    /\ pc \in [Drainers -> {"idle", "select", "claim", "send", "write"}]
    /\ picked \in [Drainers -> SUBSET Rows]
    /\ mine \in [Drainers -> SUBSET Rows]
    /\ cur \in [Drainers -> Rows \cup {NoRow}]
    /\ snap \in [Drainers -> [Rows -> 0 .. MaxClaims]]
    /\ outcome \in [Drainers -> {"none", "ok", "nowhere", "error"}]
    /\ sent \in [Rows -> Nat]
    /\ faults \in 0 .. MaxFaults
    /\ robbed \in SUBSET Rows

Init ==
    /\ pods \in Deployments
    /\ status = [r \in Rows |-> "none"]
    /\ attempts = [r \in Rows |-> 0]
    /\ when = [r \in Rows |-> "due"]
    /\ pc = [d \in Drainers |-> "idle"]
    /\ picked = [d \in Drainers |-> {}]
    /\ mine = [d \in Drainers |-> {}]
    /\ cur = [d \in Drainers |-> NoRow]
    /\ snap = [d \in Drainers |-> [r \in Rows |-> 0]]
    /\ outcome = [d \in Drainers |-> "none"]
    /\ sent = [r \in Rows |-> 0]
    /\ faults = 0
    /\ robbed = {}

Holds(d, r) == r \in mine[d] \/ cur[d] = r

\* enqueueNotification: one row per channel, due at once.
Enqueue(r) ==
    /\ r \in Load[pods] /\ status[r] = "none"
    /\ status' = [status EXCEPT ![r] = "pending"]
    /\ UNCHANGED <<pods, attempts, when, drainer, sent, faults, robbed>>

\* Time: a retry falls due, a backlog or a lease grows old.  The comments of the
\* constants promise that no drain of the monolith takes as long as the lease;
\* nobody promises it of the notification service.  The age of a row that is not
\* open is never looked at.
TimePasses(r) ==
    /\ when' = [when EXCEPT ![r] = IF @ = "future" THEN "due" ELSE "old"]
    /\ status[r] \in {"pending", "processing"} /\ when[r] # "old"
    /\ Slow \/ \A d \in Drainers \ pods : ~Holds(d, r)
    /\ UNCHANGED <<pods, status, attempts, drainer, sent, faults, robbed>>

-----------------------------------------------------------------------------
(* drainOutbox of the monolith.                                            *)

\* Mutant: rows left in processing are not looked for.
RecoverNothing(d) ==
    /\ d \notin pods /\ pc[d] = "idle"
    /\ pc' = [pc EXCEPT ![d] = "select"]
    /\ UNCHANGED <<table, picked, mine, cur, snap, outcome, sent, faults, robbed>>

Orphans == {r \in Rows : status[r] = "processing" /\ when[r] = "old"}

\* What looks like left in processing goes back to pending.  Only the age of
\* next_attempt_at tells, so the row of a drain at work may be among them.
Recover(d) ==
    /\ d \notin pods /\ pc[d] = "idle"
    /\ pc' = [pc EXCEPT ![d] = "select"]
    /\ status' = [r \in Rows |-> IF r \in Orphans THEN "pending" ELSE status[r]]
    /\ robbed' = robbed \cup {r \in Orphans : \E e \in Drainers : Holds(e, r)}
    /\ UNCHANGED <<pods, attempts, when, picked, mine, cur, snap, outcome, sent, faults>>

IsDue(r) == status[r] = "pending" /\ when[r] # "future"

\* What a SELECT ... LIMIT may return, in whatever order of the rows.
Batches == {S \in SUBSET {r \in Rows : IsDue(r)} :
                \/ Cardinality(S) = BatchSize
                \/ Cardinality(S) < BatchSize /\ \A r \in Rows : IsDue(r) => r \in S}

Select(d) ==
    /\ pc[d] = "select"
    /\ \E S \in Batches : picked' = [picked EXCEPT ![d] = S]
    /\ pc' = [pc EXCEPT ![d] = "claim"]
    /\ UNCHANGED <<table, mine, cur, snap, outcome, sent, faults, robbed>>

\* UPDATE ... RETURNING of the rows S.
Take(d, S) ==
    /\ \A r \in S : attempts[r] < MaxClaims
    /\ status' = [r \in Rows |-> IF r \in S THEN "processing" ELSE status[r]]
    /\ attempts' = [r \in Rows |-> IF r \in S THEN attempts[r] + 1 ELSE attempts[r]]
    /\ snap' = [snap EXCEPT ![d] = [r \in Rows |-> IF r \in S THEN attempts[r] + 1 ELSE 0]]
    /\ mine' = [mine EXCEPT ![d] = S]
    /\ picked' = [picked EXCEPT ![d] = {}]
    /\ pc' = [pc EXCEPT ![d] = "send"]
    /\ UNCHANGED <<pods, cur, outcome, sent, faults, robbed>>

\* Mutant: the claim does not look at the status.
ClaimPicked(d) ==
    /\ pc[d] = "claim"
    /\ Take(d, picked[d])
    /\ when' = [r \in Rows |-> IF r \in picked[d] THEN "due" ELSE when[r]]

\* Of the rows selected, those that are still pending; their lease starts now.
Claim(d) ==
    /\ pc[d] = "claim"
    /\ LET S == {r \in picked[d] : status[r] = "pending"}
       IN /\ Take(d, S)
          /\ when' = [r \in Rows |-> IF r \in S THEN "due" ELSE when[r]]

-----------------------------------------------------------------------------
(* drainBatch of the notification service.                                 *)

\* Select and claim in one statement, FOR UPDATE SKIP LOCKED; next_attempt_at
\* is left as it is, and nothing recovers rows left in processing.
ClaimBatch(d) ==
    /\ d \in pods /\ pc[d] = "idle"
    /\ \E S \in Batches : Take(d, S)
    /\ UNCHANGED when

-----------------------------------------------------------------------------
(* Sending and writing the outcome, in both programs.                      *)

\* "nowhere": no push token, no address, a suppressed address or one the
\* provider refuses for good, or a channel without an adapter.  "lost": the
\* provider takes the message, but its answer does not arrive or cannot be
\* used, and the adapter, which catches everything, says that it failed.
Answers == {"ok", "nowhere", "error", "lost"}

Send(d, r, answer) ==
    /\ pc[d] = "send" /\ r \in mine[d]
    /\ mine' = [mine EXCEPT ![d] = @ \ {r}]
    /\ cur' = [cur EXCEPT ![d] = r]
    /\ outcome' = [outcome EXCEPT ![d] = IF answer = "lost" THEN "error" ELSE answer]
    /\ sent' = [sent EXCEPT ![r] = IF answer \in {"ok", "lost"} THEN @ + 1 ELSE @]
    /\ \/ answer # "lost" /\ UNCHANGED faults
       \/ answer = "lost" /\ faults < MaxFaults /\ faults' = faults + 1
    /\ pc' = [pc EXCEPT ![d] = "write"]
    /\ UNCHANGED <<table, picked, snap, robbed>>

MaxOf(d) == IF d \in pods THEN PodMax ELSE ReplicaMax

NextRow(d) ==
    /\ pc' = [pc EXCEPT ![d] = "send"]
    /\ cur' = [cur EXCEPT ![d] = NoRow]
    /\ outcome' = [outcome EXCEPT ![d] = "none"]
    /\ UNCHANGED <<picked, mine, snap>>

Acknowledge(d, word) ==
    /\ pc[d] = "write" /\ outcome[d] # "error"
    /\ status' = [status EXCEPT ![cur[d]] = word]
    /\ NextRow(d)
    /\ UNCHANGED <<pods, attempts, when, sent, faults, robbed>>

\* Mutant: the channel's word goes into the column.
DeliveredRaw(d) == Acknowledge(d, outcome[d])

\* A row that has nowhere to go is closed the same way.
Delivered(d) == Acknowledge(d, "delivered")

Postpone(d) ==
    /\ status' = [status EXCEPT ![cur[d]] = "pending"]
    /\ when' = [when EXCEPT ![cur[d]] = "future"]

\* rescheduleOrFail, by the attempts that the claim returned.
RescheduleOrFail(d) ==
    /\ pc[d] = "write" /\ outcome[d] = "error"
    /\ IF snap[d][cur[d]] >= MaxOf(d)
       THEN status' = [status EXCEPT ![cur[d]] = "failed"] /\ UNCHANGED when
       ELSE Postpone(d)
    /\ NextRow(d)
    /\ UNCHANGED <<pods, attempts, sent, faults, robbed>>

EndDrain(d) ==
    /\ pc[d] = "send" /\ mine[d] = {}
    /\ pc' = [pc EXCEPT ![d] = "idle"]
    /\ snap' = [snap EXCEPT ![d] = [r \in Rows |-> 0]]
    /\ UNCHANGED <<table, picked, mine, cur, outcome, sent, faults, robbed>>

\* The process dies or a statement throws: its rows stay in processing.
Die(d) ==
    /\ pc[d] # "idle" /\ faults < MaxFaults
    /\ faults' = faults + 1
    /\ pc' = [pc EXCEPT ![d] = "idle"]
    /\ picked' = [picked EXCEPT ![d] = {}]
    /\ mine' = [mine EXCEPT ![d] = {}]
    /\ cur' = [cur EXCEPT ![d] = NoRow]
    /\ snap' = [snap EXCEPT ![d] = [r \in Rows |-> 0]]
    /\ outcome' = [outcome EXCEPT ![d] = "none"]
    /\ UNCHANGED <<table, sent, robbed>>

\* In the notification service the acknowledging UPDATE is inside the try: if it
\* throws, the row is treated as if the dispatch had failed.
AckThrows(d) ==
    /\ d \in pods /\ pc[d] = "write" /\ outcome[d] # "error" /\ faults < MaxFaults
    /\ faults' = faults + 1
    /\ outcome' = [outcome EXCEPT ![d] = "error"]
    /\ UNCHANGED <<table, pc, picked, mine, cur, snap, sent, robbed>>

\* If the UPDATE after a failed dispatch throws in turn, that is logged and the
\* drain goes on: the row stays in processing.
WriteThrows(d) ==
    /\ d \in pods /\ pc[d] = "write" /\ outcome[d] = "error" /\ faults < MaxFaults
    /\ faults' = faults + 1
    /\ NextRow(d)
    /\ UNCHANGED <<table, sent, robbed>>

-----------------------------------------------------------------------------
Continue(d) ==
    \/ Select(d) \/ Claim(d) \/ EndDrain(d)
    \/ Delivered(d) \/ RescheduleOrFail(d)
    \/ \E r \in Rows, answer \in Answers : Send(d, r, answer)

Begin(d) == Recover(d) \/ ClaimBatch(d)

Next ==
    \/ \E r \in Rows : Enqueue(r) \/ TimePasses(r)
    \/ \E d \in Drainers : Begin(d) \/ Continue(d) \/ Die(d) \/ AckThrows(d) \/ WriteThrows(d)

Spec == Init /\ [][Next]_vars

\* Both programs drain on a timer that fires for ever, and time passes.
Fairness ==
    /\ \A d \in Drainers : WF_vars(Begin(d) \/ Continue(d))
    /\ \A r \in Rows : WF_vars(TimePasses(r))

FairSpec == Spec /\ Fairness

-----------------------------------------------------------------------------
(* Properties.                                                             *)

\* Every notification ends up delivered or failed, through the deaths of the
\* monolith's drainers and, next to the monolith, of the notification service's;
\* alone, the notification service promises it if nothing dies.
EveryRowSettles ==
    \A r \in Rows :
        status[r] = "pending" ~>
            \/ status[r] \in {"delivered", "failed"}
            \/ (pods = Drainers /\ faults > 0)

\* A claim is not visible from outside: the row stays open until it is closed.
Fate == [r \in Rows |-> CASE status[r] = "none" -> "absent"
                          [] status[r] \in {"pending", "processing"} -> "open"
                          [] OTHER -> status[r]]

Promise == INSTANCE OutboxPromise WITH fate <- Fate, handed <- sent, void <- robbed

\* Whichever programs drain it, the table keeps the promise of the outbox: a
\* message is handed over again only after a fault, and a closed row is not
\* reopened by a late drain or by the recovery.  The promise of a row is void once
\* the recovery took it from a drain at work.
KeepsPromise == Promise!Spec
=============================================================================
