----------------------------- MODULE OutboxProofs -----------------------------
(***************************************************************************)
(* The drains implement OutboxPromise, for any number of rows and drainers *)
(* of either program or of both, however slow, and any number of attempts, *)
(* deaths, errors and lost answers.                                        *)
(*                                                                         *)
(* The mapping needs to know who holds a row: unless the recovery took it  *)
(* from a drain at work, only a row that is open is held, by one drainer   *)
(* (Held, OneHolder), and a row that nobody has just sent has been sent no *)
(* more often than faults account for (Sends).                             *)
(***************************************************************************)
EXTENDS Outbox, TLAPS

\* A drainer has rows in hand exactly in its loop, the one it sends in "write".
InLoop ==
    \A d \in Drainers :
        /\ pc[d] \in {"idle", "select", "claim"} => mine[d] = {}
        /\ pc[d] = "write" <=> cur[d] # NoRow
        /\ cur[d] \notin mine[d]

\* A row in hand is open, and in one hand.
Held ==
    \A d \in Drainers, r \in Rows : Holds(d, r) /\ r \notin robbed => status[r] = "processing"

OneHolder ==
    \A d, e \in Drainers, r \in Rows : Holds(d, r) /\ Holds(e, r) /\ r \notin robbed => d = e

JustSent(r) == \E d \in Drainers : cur[d] = r /\ outcome[d] # "error"

\* An open row was handed over once per fault, and once more if that is now.
Sends ==
    \A r \in Rows :
        r \notin robbed /\ status[r] \in {"none", "pending", "processing"} =>
            sent[r] <= faults \/ (sent[r] <= faults + 1 /\ JustSent(r))

IInv == TypeOK /\ InLoop /\ Held /\ OneHolder /\ Sends

-----------------------------------------------------------------------------
LEMMA InitInv == Init => IInv
<1> SUFFICES ASSUME Init PROVE IInv
  OBVIOUS
<1> USE OutboxAssumption DEF Init
<1>1. TypeOK
  BY DEF TypeOK
<1>2. InLoop /\ Held /\ OneHolder
  BY DEF InLoop, Held, OneHolder, Holds
<1>3. Sends
  BY DEF Sends
<1>. QED  BY <1>1, <1>2, <1>3 DEF IInv

\* A batch is a set of rows that are due.
LEMMA BatchDue == \A S \in Batches : S \subseteq Rows /\ \A r \in S : status[r] = "pending"
  BY DEF Batches, IsDue

-----------------------------------------------------------------------------
(* Types.                                                                  *)

LEMMA TakeType ==
    ASSUME TypeOK, NEW d \in Drainers, NEW S \in SUBSET Rows, Take(d, S)
    PROVE  /\ status' \in [Rows -> {"none", "pending", "processing", "delivered", "failed"}]
           /\ attempts' \in [Rows -> 0 .. MaxClaims]
           /\ snap' \in [Drainers -> [Rows -> 0 .. MaxClaims]]
           /\ mine' \in [Drainers -> SUBSET Rows]
           /\ picked' \in [Drainers -> SUBSET Rows]
           /\ pc' \in [Drainers -> {"idle", "select", "claim", "send", "write"}]
           /\ UNCHANGED <<pods, cur, outcome, sent, faults, robbed>>
<1> DEFINE counts == [r \in Rows |-> IF r \in S THEN attempts[r] + 1 ELSE 0]
<1>1. \A r \in Rows : r \in S => attempts[r] + 1 \in 0 .. MaxClaims
  BY OutboxAssumption DEF Take, TypeOK
<1>2. counts \in [Rows -> 0 .. MaxClaims]
  BY <1>1, OutboxAssumption
<1>3. attempts' \in [Rows -> 0 .. MaxClaims]
  BY <1>1 DEF Take, TypeOK
<1>4. snap' \in [Drainers -> [Rows -> 0 .. MaxClaims]]
  BY <1>2 DEF Take, TypeOK
<1>. QED  BY <1>3, <1>4 DEF Take, TypeOK

LEMMA SendType ==
    ASSUME TypeOK, NEW d \in Drainers, NEW r \in Rows, NEW answer \in Answers,
           Send(d, r, answer)
    PROVE  TypeOK'
<1>1. outcome' \in [Drainers -> {"none", "ok", "nowhere", "error"}]
  BY DEF Send, TypeOK, Answers
<1>2. sent' \in [Rows -> Nat]
  <2>1. sent[r] + 1 \in Nat
    BY DEF TypeOK
  <2>. QED  BY <2>1 DEF Send, TypeOK
<1>3. faults' \in 0 .. MaxFaults
  BY OutboxAssumption DEF Send, TypeOK
<1>4. /\ mine' \in [Drainers -> SUBSET Rows]
      /\ cur' \in [Drainers -> Rows \cup {NoRow}]
      /\ pc' \in [Drainers -> {"idle", "select", "claim", "send", "write"}]
      /\ UNCHANGED <<pods, status, attempts, when, picked, snap, robbed>>
  BY DEF Send, table, TypeOK
<1>. QED  BY <1>1, <1>2, <1>3, <1>4 DEF TypeOK

LEMMA StepType == TypeOK /\ [Next]_vars => TypeOK'
<1> SUFFICES ASSUME TypeOK, [Next]_vars PROVE TypeOK'
  OBVIOUS
<1> USE DEF TypeOK, table, drainer
<1>1. ASSUME NEW r \in Rows, Enqueue(r) PROVE TypeOK'
  BY <1>1 DEF Enqueue
<1>2. ASSUME NEW r \in Rows, TimePasses(r) PROVE TypeOK'
  BY <1>2 DEF TimePasses
<1>3. ASSUME NEW d \in Drainers, Recover(d) PROVE TypeOK'
  <2>1. status' \in [Rows -> {"none", "pending", "processing", "delivered", "failed"}]
    BY <1>3 DEF Recover
  <2>2. robbed' \in SUBSET Rows
    BY <1>3 DEF Recover, Orphans
  <2>3. pc' \in [Drainers -> {"idle", "select", "claim", "send", "write"}]
    BY <1>3 DEF Recover
  <2>. QED  BY <1>3, <2>1, <2>2, <2>3 DEF Recover
<1>4. ASSUME NEW d \in Drainers, ClaimBatch(d) PROVE TypeOK'
  BY <1>4, BatchDue, TakeType DEF ClaimBatch
<1>5. ASSUME NEW d \in Drainers, Select(d) PROVE TypeOK'
  BY <1>5, BatchDue DEF Select
<1>6. ASSUME NEW d \in Drainers, Claim(d) PROVE TypeOK'
  <2> DEFINE S == {r \in picked[d] : status[r] = "pending"}
  <2>1. S \in SUBSET Rows
    OBVIOUS
  <2>2. Take(d, S) /\ when' = [r \in Rows |-> IF r \in S THEN "due" ELSE when[r]]
    BY <1>6 DEF Claim
  <2>. QED  BY <2>1, <2>2, TakeType
<1>7. ASSUME NEW d \in Drainers, EndDrain(d) PROVE TypeOK'
  BY <1>7, OutboxAssumption DEF EndDrain
<1>8. ASSUME NEW d \in Drainers, Delivered(d) PROVE TypeOK'
  BY <1>8 DEF Delivered, Acknowledge, NextRow
<1>9. ASSUME NEW d \in Drainers, RescheduleOrFail(d) PROVE TypeOK'
  BY <1>9 DEF RescheduleOrFail, Postpone, NextRow
<1>10. ASSUME NEW d \in Drainers, NEW r \in Rows, NEW answer \in Answers,
              Send(d, r, answer)
       PROVE  TypeOK'
  BY <1>10, SendType
<1>11. ASSUME NEW d \in Drainers, Die(d) PROVE TypeOK'
  BY <1>11, OutboxAssumption DEF Die
<1>12. ASSUME NEW d \in Drainers, AckThrows(d) PROVE TypeOK'
  BY <1>12, OutboxAssumption DEF AckThrows
<1>13. ASSUME NEW d \in Drainers, WriteThrows(d) PROVE TypeOK'
  BY <1>13, OutboxAssumption DEF WriteThrows, NextRow
<1>14. CASE UNCHANGED vars
  BY <1>14 DEF vars
<1>. QED
  BY <1>1, <1>2, <1>3, <1>4, <1>5, <1>6, <1>7, <1>8, <1>9, <1>10, <1>11, <1>12, <1>13, <1>14
  DEF Next, Begin, Continue

-----------------------------------------------------------------------------
(* Who holds which row, and how often it was sent.                         *)

Table == InLoop /\ Held /\ OneHolder /\ Sends

\* A claim takes rows that are pending, hence held by nobody.
LEMMA TakeInv ==
    ASSUME IInv, NEW d \in Drainers, NEW S \in SUBSET Rows, Take(d, S),
           \A r \in S : status[r] = "pending",
           pc[d] \in {"idle", "claim"}
    PROVE  Table'
<1>1. mine[d] = {} /\ cur[d] = NoRow
  BY DEF IInv, InLoop, TypeOK
<1>2. \A e \in Drainers : mine'[e] = IF e = d THEN S ELSE mine[e]
  BY DEF Take, IInv, TypeOK
<1>3. \A r \in Rows : status'[r] = IF r \in S THEN "processing" ELSE status[r]
  BY DEF Take
<1>4. UNCHANGED <<cur, outcome, sent, faults, robbed>>
  BY DEF Take
<1>5. \A e \in Drainers, r \in S : r \notin robbed => ~Holds(e, r)
  BY DEF IInv, Held
<1>6. InLoop'
  BY <1>1, <1>2, <1>4, OutboxAssumption DEF IInv, InLoop, TypeOK, Take
<1>7. Held'
  BY <1>1, <1>2, <1>3, <1>4, <1>5 DEF IInv, Held, Holds
<1>8. OneHolder'
  BY <1>1, <1>2, <1>4, <1>5 DEF IInv, OneHolder, Holds
<1>9. Sends'
  BY <1>3, <1>4 DEF IInv, Sends, JustSent
<1>. QED  BY <1>6, <1>7, <1>8, <1>9 DEF Table

\* A drainer lets go of the row it was at, having written it or not.
LEMMA ReleaseInv ==
    ASSUME IInv, NEW d \in Drainers, pc[d] = "write", NextRow(d),
           UNCHANGED <<sent, robbed>>, faults' \in {faults, faults + 1},
           \A r \in Rows : r # cur[d] => status'[r] = status[r],
           \/ status'[cur[d]] \in {"delivered", "failed"}
           \/ status'[cur[d]] = "pending" /\ outcome[d] = "error"
           \/ status'[cur[d]] = status[cur[d]] /\ faults' = faults + 1
    PROVE  Table'
<1>1. cur[d] \in Rows /\ cur[d] \notin mine[d]
  BY DEF IInv, InLoop, TypeOK
<1>2. \A e \in Drainers : cur'[e] = IF e = d THEN NoRow ELSE cur[e]
  BY DEF NextRow, IInv, TypeOK
<1>3. \A e \in Drainers : e # d => outcome'[e] = outcome[e] /\ pc'[e] = pc[e]
  BY DEF NextRow, IInv, TypeOK
<1>4. mine' = mine /\ pc'[d] = "send"
  BY DEF NextRow, IInv, TypeOK
<1>5. ASSUME NEW e \in Drainers, cur[d] \notin robbed
      PROVE  cur[d] \notin mine[e] /\ cur'[e] # cur[d]
  BY <1>1, <1>2, <1>5, OutboxAssumption DEF IInv, OneHolder, Holds
<1>6. InLoop'
  BY <1>2, <1>3, <1>4, OutboxAssumption DEF IInv, InLoop, TypeOK
<1>7. \A e \in Drainers, r \in Rows :
          Holds(e, r)' => Holds(e, r) /\ (r # cur[d] \/ r \in robbed)
  BY <1>1, <1>2, <1>4, <1>5, OutboxAssumption DEF Holds
<1>8. Held'
  BY <1>7 DEF IInv, Held
<1>9. OneHolder'
  BY <1>7 DEF IInv, OneHolder
<1>10. ASSUME NEW r \in Rows, r # cur[d], JustSent(r) PROVE JustSent(r)'
  <2>1. PICK e \in Drainers : cur[e] = r /\ outcome[e] # "error"
    BY <1>10 DEF JustSent
  <2>. QED  BY <1>2, <1>3, <1>10, <2>1 DEF JustSent
<1>11. ASSUME cur[d] \notin robbed
       PROVE  sent[cur[d]] <= faults + 1 /\ (outcome[d] = "error" => sent[cur[d]] <= faults)
  <2>1. status[cur[d]] = "processing"
    BY <1>1, <1>11 DEF IInv, Held, Holds
  <2>2. outcome[d] = "error" => ~JustSent(cur[d])
    BY <1>1, <1>11 DEF IInv, OneHolder, Holds, JustSent
  <2>. QED  BY <1>1, <1>11, <2>1, <2>2 DEF IInv, Sends, TypeOK
<1>12. Sends'
  BY <1>1, <1>10, <1>11 DEF IInv, Sends, TypeOK
<1>. QED  BY <1>6, <1>8, <1>9, <1>12 DEF Table

\* A step that only counts a fault, or moves rows that nobody holds or that are
\* robbed by it, disturbs nothing.
LEMMA AsideInv ==
    ASSUME IInv, UNCHANGED <<mine, cur, sent>>, robbed \subseteq robbed',
           faults' \in {faults, faults + 1},
           \A d \in Drainers : pc'[d] = pc[d] \/
               (pc[d] \in {"idle", "select", "claim"} /\ pc'[d] \in {"idle", "select", "claim"}),
           \A d \in Drainers : outcome'[d] = outcome[d] \/ faults' = faults + 1,
           \A r \in Rows \ robbed' :
               \/ status'[r] = status[r]
               \/ status[r] \in {"none", "processing"} /\ \A d \in Drainers : ~Holds(d, r)
    PROVE  Table'
<1>1. \A d \in Drainers, r \in Rows : Holds(d, r)' <=> Holds(d, r)
  BY DEF Holds
<1>2. InLoop'
  BY DEF IInv, InLoop
<1>3. Held'
  BY <1>1 DEF IInv, Held
<1>4. OneHolder'
  BY <1>1 DEF IInv, OneHolder
<1>5. Sends'
  <2> SUFFICES ASSUME NEW r \in Rows \ robbed',
                      status'[r] \in {"none", "pending", "processing"}
               PROVE  sent[r] <= faults' \/ (sent[r] <= faults' + 1 /\ JustSent(r)')
    BY DEF Sends
  <2>1. sent[r] <= faults \/ (sent[r] <= faults + 1 /\ JustSent(r))
    BY DEF IInv, Sends
  <2>2. CASE faults' = faults + 1
    BY <2>1, <2>2 DEF IInv, TypeOK
  <2>3. CASE faults' = faults
    <3>1. \A d \in Drainers : outcome'[d] = outcome[d] /\ cur'[d] = cur[d]
      BY <2>3 DEF IInv, TypeOK
    <3>. QED  BY <2>1, <2>3, <3>1 DEF JustSent
  <2>. QED  BY <2>2, <2>3
<1>. QED  BY <1>2, <1>3, <1>4, <1>5 DEF Table

LEMMA SendInv ==
    ASSUME IInv, NEW d \in Drainers, NEW r \in Rows, NEW answer \in Answers,
           Send(d, r, answer)
    PROVE  Table'
<1>1. pc[d] = "send" /\ r \in mine[d] /\ cur[d] = NoRow
  BY DEF Send, IInv, InLoop
<1>2. \A e \in Drainers : /\ mine'[e] = IF e = d THEN mine[d] \ {r} ELSE mine[e]
                          /\ cur'[e] = IF e = d THEN r ELSE cur[e]
                          /\ pc'[e] = IF e = d THEN "write" ELSE pc[e]
                          /\ e # d => outcome'[e] = outcome[e]
  BY DEF Send, IInv, TypeOK
<1>3. UNCHANGED <<status, robbed>>
  BY DEF Send, table
<1>4. \A e \in Drainers, q \in Rows : Holds(e, q)' <=> Holds(e, q)
  BY <1>1, <1>2, OutboxAssumption DEF Holds
<1>5. InLoop'
  BY <1>1, <1>2, OutboxAssumption DEF IInv, InLoop, TypeOK
<1>6. Held'
  BY <1>3, <1>4 DEF IInv, Held
<1>7. OneHolder'
  BY <1>3, <1>4 DEF IInv, OneHolder
<1>8. ASSUME r \notin robbed PROVE sent[r] <= faults
  <2>1. status[r] = "processing"
    BY <1>1, <1>8 DEF IInv, Held, Holds
  <2>2. ~JustSent(r)
    BY <1>1, <1>8 DEF IInv, OneHolder, InLoop, Holds, JustSent
  <2>. QED  BY <1>8, <2>1, <2>2 DEF IInv, Sends, TypeOK
<1>9. ASSUME NEW q \in Rows, JustSent(q) PROVE JustSent(q)'
  <2>1. PICK e \in Drainers : cur[e] = q /\ outcome[e] # "error"
    BY <1>9 DEF JustSent
  <2>. QED  BY <1>1, <1>2, <2>1, OutboxAssumption DEF JustSent
<1>10. CASE answer = "ok"
  <2>1. /\ faults' = faults /\ JustSent(r)'
        /\ \A q \in Rows : sent'[q] = IF q = r THEN sent[q] + 1 ELSE sent[q]
    BY <1>2, <1>10 DEF Send, JustSent, IInv, TypeOK
  <2>2. Sends'
    BY <1>3, <1>8, <1>9, <2>1 DEF IInv, Sends, TypeOK
  <2>. QED  BY <1>5, <1>6, <1>7, <2>2 DEF Table
<1>11. CASE answer = "lost"
  <2>1. /\ faults' = faults + 1
        /\ \A q \in Rows : sent'[q] = IF q = r THEN sent[q] + 1 ELSE sent[q]
    BY <1>11 DEF Send, IInv, TypeOK
  <2>2. Sends'
    BY <1>3, <1>8, <1>9, <2>1 DEF IInv, Sends, TypeOK
  <2>. QED  BY <1>5, <1>6, <1>7, <2>2 DEF Table
<1>12. CASE answer \in {"nowhere", "error"}
  <2>1. faults' = faults /\ \A q \in Rows : sent'[q] = sent[q]
    BY <1>12 DEF Send, IInv, TypeOK
  <2>2. Sends'
    BY <1>3, <1>9, <2>1 DEF IInv, Sends, TypeOK
  <2>. QED  BY <1>5, <1>6, <1>7, <2>2 DEF Table
<1>. QED  BY <1>10, <1>11, <1>12 DEF Answers

\* Whatever a drainer held is nobody's, and the fault accounts for what it sent.
LEMMA DieInv ==
    ASSUME IInv, NEW d \in Drainers, Die(d)
    PROVE  Table'
<1>1. \A e \in Drainers : /\ mine'[e] = IF e = d THEN {} ELSE mine[e]
                          /\ cur'[e] = IF e = d THEN NoRow ELSE cur[e]
                          /\ pc'[e] = IF e = d THEN "idle" ELSE pc[e]
  BY DEF Die, IInv, TypeOK
<1>2. UNCHANGED <<status, sent, robbed>> /\ faults' = faults + 1
  BY DEF Die, table
<1>3. \A e \in Drainers, r \in Rows : Holds(e, r)' => Holds(e, r)
  BY <1>1, OutboxAssumption DEF Holds
<1>4. InLoop'
  BY <1>1 DEF IInv, InLoop
<1>5. Held' /\ OneHolder'
  BY <1>2, <1>3 DEF IInv, Held, OneHolder
<1>6. Sends'
  BY <1>2 DEF IInv, Sends, TypeOK
<1>. QED  BY <1>4, <1>5, <1>6 DEF Table

LEMMA StepTable == IInv /\ [Next]_vars => Table'
<1> SUFFICES ASSUME IInv, [Next]_vars PROVE Table'
  OBVIOUS
<1>1. ASSUME NEW r \in Rows, Enqueue(r) PROVE Table'
  <2>1. r \notin robbed => \A d \in Drainers : ~Holds(d, r)
    BY <1>1 DEF Enqueue, IInv, Held
  <2>2. \A q \in Rows : q # r => status'[q] = status[q]
    BY <1>1 DEF Enqueue, IInv, TypeOK
  <2>. QED  BY <1>1, <2>1, <2>2, AsideInv DEF Enqueue, drainer
<1>2. ASSUME NEW r \in Rows, TimePasses(r) PROVE Table'
  BY <1>2, AsideInv DEF TimePasses, drainer
<1>3. ASSUME NEW d \in Drainers, Recover(d) PROVE Table'
  <2>1. robbed \subseteq robbed' /\ UNCHANGED <<mine, cur, sent, outcome, faults>>
    BY <1>3 DEF Recover
  <2>2. ASSUME NEW r \in Rows \ robbed', status'[r] # status[r]
        PROVE  status[r] = "processing" /\ \A e \in Drainers : ~Holds(e, r)
    BY <1>3, <2>2 DEF Recover, Orphans
  <2>3. \A e \in Drainers : pc'[e] = pc[e] \/ (pc[e] = "idle" /\ pc'[e] = "select")
    BY <1>3 DEF Recover, IInv, TypeOK
  <2>. QED  BY <2>1, <2>2, <2>3, AsideInv
<1>4. ASSUME NEW d \in Drainers, ClaimBatch(d) PROVE Table'
  <2>1. PICK S \in Batches : Take(d, S)
    BY <1>4 DEF ClaimBatch
  <2>. QED  BY <1>4, <2>1, BatchDue, TakeInv DEF ClaimBatch
<1>5. ASSUME NEW d \in Drainers, Select(d) PROVE Table'
  <2>1. \A e \in Drainers : pc'[e] = IF e = d THEN "claim" ELSE pc[e]
    BY <1>5 DEF Select, IInv, TypeOK
  <2>. QED  BY <1>5, <2>1, AsideInv DEF Select, table
<1>6. ASSUME NEW d \in Drainers, Claim(d) PROVE Table'
  <2> DEFINE S == {r \in picked[d] : status[r] = "pending"}
  <2>1. S \in SUBSET Rows
    BY DEF IInv, TypeOK
  <2>2. Take(d, S) /\ when' = [r \in Rows |-> IF r \in S THEN "due" ELSE when[r]]
    BY <1>6 DEF Claim
  <2>3. \A r \in S : status[r] = "pending"
    OBVIOUS
  <2>4. pc[d] = "claim"
    BY <1>6 DEF Claim
  <2> HIDE DEF S
  <2>. QED  BY <2>1, <2>2, <2>3, <2>4, TakeInv
<1>7. ASSUME NEW d \in Drainers, EndDrain(d) PROVE Table'
  <2>1. \A e \in Drainers : pc'[e] = IF e = d THEN "idle" ELSE pc[e]
    BY <1>7 DEF EndDrain, IInv, TypeOK
  <2>2. InLoop'
    BY <1>7, <2>1 DEF EndDrain, IInv, InLoop
  <2>. QED
    BY <1>7, <2>2 DEF EndDrain, table, Table, IInv, Held, OneHolder, Sends, Holds, JustSent
<1>8. ASSUME NEW d \in Drainers, Delivered(d) PROVE Table'
  <2>1. \A r \in Rows : status'[r] = IF r = cur[d] THEN "delivered" ELSE status[r]
    BY <1>8 DEF Delivered, Acknowledge, IInv, TypeOK
  <2>2. cur[d] \in Rows
    BY <1>8 DEF Delivered, Acknowledge, IInv, InLoop, TypeOK
  <2>. QED  BY <1>8, <2>1, <2>2, ReleaseInv DEF Delivered, Acknowledge
<1>9. ASSUME NEW d \in Drainers, RescheduleOrFail(d) PROVE Table'
  <2>1. \A r \in Rows : r # cur[d] => status'[r] = status[r]
    BY <1>9 DEF RescheduleOrFail, Postpone, IInv, TypeOK
  <2>2. cur[d] \in Rows
    BY <1>9 DEF RescheduleOrFail, IInv, InLoop, TypeOK
  <2>3. status'[cur[d]] \in {"failed", "pending"}
    BY <1>9, <2>2 DEF RescheduleOrFail, Postpone, IInv, TypeOK
  <2>. QED  BY <1>9, <2>1, <2>2, <2>3, ReleaseInv DEF RescheduleOrFail
<1>10. ASSUME NEW d \in Drainers, NEW r \in Rows, NEW answer \in Answers,
              Send(d, r, answer)
       PROVE  Table'
  BY <1>10, SendInv
<1>11. ASSUME NEW d \in Drainers, Die(d) PROVE Table'
  BY <1>11, DieInv
<1>12. ASSUME NEW d \in Drainers, AckThrows(d) PROVE Table'
  BY <1>12, AsideInv DEF AckThrows, table
<1>13. ASSUME NEW d \in Drainers, WriteThrows(d) PROVE Table'
  BY <1>13, ReleaseInv DEF WriteThrows, table
<1>14. CASE UNCHANGED vars
  BY <1>14, AsideInv DEF vars, table, drainer
<1>. QED
  BY <1>1, <1>2, <1>3, <1>4, <1>5, <1>6, <1>7, <1>8, <1>9, <1>10, <1>11, <1>12, <1>13, <1>14
  DEF Next, Begin, Continue

\* The inductive invariant, whichever programs drain.
THEOREM Invariance == Spec => []IInv
<1>1. IInv /\ [Next]_vars => IInv'
  BY StepType, StepTable DEF IInv, Table
<1>. QED  BY InitInv, <1>1, PTL DEF Spec

\* Every variable keeps its type, whichever programs drain and however slow.
THEOREM TypeCorrect == Spec => []TypeOK
<1>1. Init => TypeOK
  BY InitInv DEF IInv
<1>. QED  BY <1>1, StepType, PTL DEF Spec

\* Nobody drains a row that another drainer holds, and what is held is open
\* (outbox.ts and OutboxDrainer.ts: each row is claimed by one worker), unless the
\* recovery took the row from a drain at work.
THEOREM HeldByOne == Spec => [](OneHolder /\ Held)
<1>1. IInv => OneHolder /\ Held
  BY DEF IInv
<1>. QED  BY Invariance, <1>1, PTL

-----------------------------------------------------------------------------
(* The refinement.                                                         *)

LEMMA InitPromise == Init => Promise!Init
  BY DEF Init, Promise!Init, Fate

\* A step that closes nothing and hands nothing over is a fault or a stutter.
LEMMA Quietly ==
    ASSUME UNCHANGED <<sent, robbed>>, Fate' = Fate, faults' \in {faults, faults + 1}
    PROVE  [Promise!Next]_<<Fate, sent, faults, robbed>>
<1>1. CASE faults' = faults
  BY <1>1
<1>2. CASE faults' = faults + 1
  BY <1>2 DEF Promise!Next, Promise!Fault
<1>. QED  BY <1>1, <1>2

\* Rows that move between pending and processing stay open.
LEMMA SameFate ==
    ASSUME \A r \in Rows : \/ status'[r] = status[r]
                           \/ {status[r], status'[r]} \subseteq {"pending", "processing"}
    PROVE  Fate' = Fate
  BY DEF Fate

\* One row changes its status, and with it its fate.
LEMMA FateOf ==
    ASSUME NEW q \in Rows, NEW word \in {"pending", "delivered", "failed"}, TypeOK,
           status' = [status EXCEPT ![q] = word]
    PROVE  Fate' = [Fate EXCEPT ![q] = IF word = "pending" THEN "open" ELSE word]
<1>1. \A r \in Rows : status'[r] = IF r = q THEN word ELSE status[r]
  BY DEF TypeOK
<1>2. \A r \in Rows : Fate'[r] = IF r = q THEN IF word = "pending" THEN "open" ELSE word
                                  ELSE Fate[r]
  BY <1>1 DEF Fate
<1>. QED  BY <1>2 DEF Fate

\* Closing the row a drainer holds is allowed by the promise.
LEMMA Closing ==
    ASSUME IInv, NEW d \in Drainers, pc[d] = "write", NEW word \in {"delivered", "failed"},
           status' = [status EXCEPT ![cur[d]] = word], UNCHANGED <<sent, faults, robbed>>,
           word = "failed" => outcome[d] = "error"
    PROVE  Promise!Next
<1>1. cur[d] \in Rows /\ Holds(d, cur[d])
  BY DEF IInv, InLoop, Holds, TypeOK
<1>2. Fate' = [Fate EXCEPT ![cur[d]] = word]
  BY <1>1, FateOf DEF IInv
<1>3. ASSUME cur[d] \notin robbed PROVE Fate[cur[d]] = "open"
  BY <1>1, <1>3 DEF Fate, IInv, Held
<1>4. ASSUME cur[d] \notin robbed, word = "failed" PROVE sent[cur[d]] = 0 \/ faults > 0
  <2>1. ~JustSent(cur[d])
    BY <1>1, <1>4 DEF IInv, OneHolder, Holds, JustSent
  <2>2. status[cur[d]] = "processing"
    BY <1>1, <1>4 DEF IInv, Held
  <2>. QED  BY <1>1, <1>4, <2>1, <2>2, OutboxAssumption DEF IInv, Sends, TypeOK
<1>5. Promise!Close(cur[d])
  BY <1>2, <1>3, <1>4 DEF Promise!Close
<1>. QED  BY <1>1, <1>5 DEF Promise!Next

LEMMA StepPromise ==
    IInv /\ [Next]_vars => [Promise!Next]_<<Fate, sent, faults, robbed>>
<1> SUFFICES ASSUME IInv, [Next]_vars PROVE [Promise!Next]_<<Fate, sent, faults, robbed>>
  OBVIOUS
<1>0. TypeOK
  BY DEF IInv
<1>1. ASSUME NEW r \in Rows, Enqueue(r) PROVE Promise!Next
  <2>1. Fate' = [Fate EXCEPT ![r] = "open"]
    BY <1>0, <1>1, FateOf DEF Enqueue
  <2>2. Promise!Enqueue(r)
    BY <1>1, <2>1 DEF Enqueue, Promise!Enqueue, Fate
  <2>. QED  BY <2>2 DEF Promise!Next
<1>2. ASSUME NEW r \in Rows, TimePasses(r) PROVE [Promise!Next]_<<Fate, sent, faults, robbed>>
  BY <1>2, SameFate, Quietly DEF TimePasses
<1>3. ASSUME NEW d \in Drainers, Recover(d) PROVE Promise!Next
  <2>1. Fate' = Fate
    BY <1>0, <1>3, SameFate DEF Recover, Orphans, TypeOK
  <2>2. PICK S \in SUBSET Rows : robbed' = robbed \cup S
    BY <1>3 DEF Recover, Orphans
  <2>3. Promise!Lapse
    BY <1>3, <2>1, <2>2 DEF Recover, Promise!Lapse
  <2>. QED  BY <2>3 DEF Promise!Next
<1>4. ASSUME NEW d \in Drainers, NEW S \in SUBSET Rows, Take(d, S),
             \A r \in S : status[r] = "pending"
      PROVE  [Promise!Next]_<<Fate, sent, faults, robbed>>
  <2>1. Fate' = Fate
    BY <1>4, SameFate DEF Take
  <2>. QED  BY <1>4, <2>1, Quietly DEF Take
<1>5. ASSUME NEW d \in Drainers, ClaimBatch(d) PROVE [Promise!Next]_<<Fate, sent, faults, robbed>>
  BY <1>4, <1>5, BatchDue DEF ClaimBatch
<1>6. ASSUME NEW d \in Drainers, Claim(d) PROVE [Promise!Next]_<<Fate, sent, faults, robbed>>
  <2> DEFINE S == {r \in picked[d] : status[r] = "pending"}
  <2>1. S \in SUBSET Rows /\ \A r \in S : status[r] = "pending"
    BY <1>0 DEF TypeOK
  <2>2. Take(d, S)
    BY <1>6 DEF Claim
  <2> HIDE DEF S
  <2>. QED  BY <1>4, <2>1, <2>2
<1>7. ASSUME NEW d \in Drainers, Select(d) \/ EndDrain(d)
      PROVE  [Promise!Next]_<<Fate, sent, faults, robbed>>
  BY <1>7, SameFate, Quietly DEF Select, EndDrain, table
<1>8. ASSUME NEW d \in Drainers, Delivered(d) PROVE Promise!Next
  BY <1>8, Closing DEF Delivered, Acknowledge
<1>9. ASSUME NEW d \in Drainers, RescheduleOrFail(d)
      PROVE  [Promise!Next]_<<Fate, sent, faults, robbed>>
  <2>1. CASE status' = [status EXCEPT ![cur[d]] = "failed"]
    BY <1>9, <2>1, Closing DEF RescheduleOrFail
  <2>2. CASE status' = [status EXCEPT ![cur[d]] = "pending"]
    <3>1. cur[d] \in Rows /\ UNCHANGED <<sent, faults, robbed>>
      BY <1>9 DEF RescheduleOrFail, IInv, InLoop, TypeOK
    <3>2. CASE cur[d] \in robbed
      <4>1. Fate' = [Fate EXCEPT ![cur[d]] = "open"]
        BY <1>0, <2>2, <3>1, FateOf
      <4>2. Promise!Reopen(cur[d])
        BY <3>1, <3>2, <4>1 DEF Promise!Reopen
      <4>. QED  BY <3>1, <4>2 DEF Promise!Next
    <3>3. CASE cur[d] \notin robbed
      <4>1. status[cur[d]] = "processing"
        BY <1>9, <3>1, <3>3 DEF IInv, Held, Holds
      <4>2. Fate' = Fate
        BY <1>0, <2>2, <3>1, <4>1, SameFate DEF TypeOK
      <4>. QED  BY <3>1, <4>2, Quietly
    <3>. QED  BY <3>2, <3>3
  <2>. QED  BY <1>9, <2>1, <2>2 DEF RescheduleOrFail, Postpone
<1>10. ASSUME NEW d \in Drainers, NEW r \in Rows, NEW answer \in Answers,
              Send(d, r, answer)
       PROVE  [Promise!Next]_<<Fate, sent, faults, robbed>>
  <2>1. Fate' = Fate /\ UNCHANGED robbed
    BY <1>10 DEF Send, table, Fate
  <2>2. CASE answer \in {"ok", "lost"}
    <3>1. ASSUME r \notin robbed PROVE Fate[r] = "open" /\ sent[r] <= faults
      <4>1. status[r] = "processing" /\ ~JustSent(r)
        BY <1>10, <3>1 DEF Send, IInv, InLoop, Held, OneHolder, Holds, JustSent
      <4>. QED  BY <3>1, <4>1 DEF Fate, IInv, Sends
    <3>2. sent' = [sent EXCEPT ![r] = @ + 1] /\ faults' \in {faults, faults + 1}
      BY <1>10, <2>2 DEF Send
    <3>3. Promise!Hand(r)
      BY <2>1, <3>1, <3>2 DEF Promise!Hand
    <3>. QED  BY <3>3 DEF Promise!Next
  <2>3. CASE answer \notin {"ok", "lost"}
    <3>1. sent' = sent /\ faults' = faults
      BY <1>0, <1>10, <2>3 DEF Send, TypeOK
    <3>. QED  BY <2>1, <3>1
  <2>. QED  BY <2>2, <2>3
<1>11. ASSUME NEW d \in Drainers, Die(d) \/ AckThrows(d) \/ WriteThrows(d)
       PROVE  [Promise!Next]_<<Fate, sent, faults, robbed>>
  BY <1>11, SameFate, Quietly DEF Die, AckThrows, WriteThrows, table
<1>12. CASE UNCHANGED vars
  BY <1>12, SameFate, Quietly DEF vars, table
<1>. QED
  BY <1>1, <1>2, <1>3, <1>5, <1>6, <1>7, <1>8, <1>9, <1>10, <1>11, <1>12
  DEF Next, Begin, Continue

\* Any number of drainers of either program or of both, as slow as they may be,
\* dying, meeting errors and losing answers, implement the abstract outbox
\* (outbox.ts, OutboxDrainer.ts).
THEOREM Implementation == Spec => KeepsPromise
  BY Invariance, InitPromise, StepPromise, PTL DEF Spec, KeepsPromise, Promise!Spec
=============================================================================
