---------------------------- MODULE WebhookProofs -----------------------------
(***************************************************************************)
(* Two components that answer the webhooks of a provider: what             *)
(* PaymentIntents and Streams promise, for any number of intents, requests *)
(* and faults, and of workers, viewers and plans of the seller.            *)
(*                                                                         *)
(* That money is there before anything is credited follows the requests    *)
(* (Earned); that the side effects happen once follows the token that the  *)
(* conditional UPDATE of markIntentSucceeded hands out: as long as nothing *)
(* overwrites the success, the intent is succeeded exactly if there has    *)
(* been a winner, and one request at most is on the winner's way.          *)
(*                                                                         *)
(* For Streams: an announcement, made or to be made, has its session       *)
(* (Announcements); before the end of the first session nobody works on a  *)
(* recording (FirstSession); a rotation is followed through its statements *)
(* and calls (Assigned, Reachable, Only); and the peak covers the room,    *)
(* the count on record and every count that a leave is about to write, or  *)
(* will when a join that is on its way has written (Peaks).                *)
(***************************************************************************)
EXTENDS PaymentIntents, Streams, FiniteSetTheorems, SequenceTheorems, TLAPS

\* A request in progress works on an intent.
Working == \A a \in Actors : pc[a] # "idle" => cur[a] \in Intents

\* Before its charge is accepted no request works on an intent, the gateway has no
\* answer and nobody has won.
Opened ==
    /\ \A a \in Actors : pc[a] # "idle" => creator[cur[a]] = "done"
    /\ \A i \in Intents :
          captured[i] # "no" \/ declined[i] \/ intent[i] = "succeeded" => creator[i] = "done"

\* A request gets past the gateway's word only with the gateway's money.
Earned ==
    \A a \in Actors :
        \/ pc[a] \in {"cas", "credit", "read", "stamp", "notify", "split"}
        \/ pc[a] \in {"reopen", "apply"} /\ via[a] = "success"
        => captured[cur[a]] # "no"

\* Nothing is paid out or credited without the gateway's money.
Backed ==
    \A i \in Intents :
        /\ credited[i] <= 1
        /\ credited[i] > 0 \/ paid[i] \/ split[i] => captured[i] # "no"

\* The winner of i on its way to what must happen once.
Winning(a, i) == cur[a] = i /\ pc[a] \in {"credit", "read", "stamp", "notify"}

\* It is past the check that the order has not been paid, and will tell the buyer.
Telling(a, i) == cur[a] = i /\ pc[a] \in {"stamp", "notify"}

\* While no failure was written over the success of i, and until i is refunded: there
\* has been a winner exactly if i is succeeded, and one request at most is winning.
OneWinner(i) ==
    /\ winners[i] = IF intent[i] = "succeeded" THEN 1 ELSE 0
    /\ \A a \in Actors : Winning(a, i) => intent[i] = "succeeded"
    /\ \A a, b \in Actors : Winning(a, i) /\ Winning(b, i) => a = b

\* While no failure was written over the success of i: one request at most is about to
\* tell the buyer, and none is once the buyer was told.  What keeps a winner after a
\* refund from it is that the order has been paid then, and stays paid.
OneNotice(i) ==
    /\ notices[i] \in {0, 1} /\ (notices[i] = 1 => paid[i]) /\ (refund[i] # "no" => paid[i])
    /\ \A a, b \in Actors : Telling(a, i) /\ Telling(b, i) => a = b
    /\ \A a \in Actors : Telling(a, i) =>
           notices[i] = 0 /\ (pc[a] = "stamp" => ~paid[i]) /\ (pc[a] = "notify" => paid[i])

Token ==
    \A i \in Intents : i \in reopened \/ (OneNotice(i) /\ (refund[i] = "done" \/ OneWinner(i)))

IInv == TypeOK /\ Working /\ Opened /\ Earned /\ Backed /\ Token

-----------------------------------------------------------------------------
LEMMA InitInv == Init => IInv
<1> SUFFICES ASSUME Init PROVE IInv
  OBVIOUS
<1> USE IntentsAssumption DEF Init
<1>1. TypeOK
  <2>1. /\ credited \in [Intents -> Nat] /\ cancelling \in SUBSET Intents
        /\ fails \in 0 .. MaxFails /\ reopened \in SUBSET Intents
        /\ winners \in [Intents -> 0 .. Many] /\ notices \in [Intents -> 0 .. Many]
    OBVIOUS
  <2>2. /\ purpose \in [Intents -> {"none", "order", "wallet_topup"}]
        /\ intent \in [Intents -> {"none", "pending", "processing", "succeeded", "failed",
                                   "refunded"}]
        /\ creator \in [Intents -> {"idle", "charging", "rollback", "refused", "done"}]
        /\ order \in [Intents -> {"none", "pending_payment", "ready", "cancelled",
                                  "refunded"}]
    OBVIOUS
  <2>3. /\ paid \in [Intents -> BOOLEAN] /\ split \in [Intents -> BOOLEAN]
        /\ declined \in [Intents -> BOOLEAN]
        /\ refund \in [Intents -> {"no", "order", "done"}]
        /\ captured \in [Intents -> {"no", "exact", "other"}]
    OBVIOUS
  <2>4. /\ hook \in [Events -> {"none", "open", "done", "error"}]
        /\ pc \in [Actors -> {"idle", "reopen", "apply", "ask", "mark", "cas", "credit",
                              "read", "stamp", "notify", "split", "close"}]
        /\ cur \in [Actors -> Intents \cup {NoIntent}]
        /\ via \in [Actors -> {"none", "success", "failed", "verify"}]
    OBVIOUS
  <2>. QED  BY <2>1, <2>2, <2>3, <2>4, Zenon DEF TypeOK
<1>2. Working /\ Opened /\ Earned /\ Backed
  BY DEF Working, Opened, Earned, Backed
<1>3. ASSUME NEW i \in Intents PROVE OneNotice(i) /\ OneWinner(i)
  <2>1. \A a \in Actors : ~Telling(a, i) /\ ~Winning(a, i)
    BY DEF Telling, Winning
  <2>2. /\ notices[i] = 0 /\ winners[i] = 0 /\ refund[i] = "no" /\ ~paid[i]
        /\ intent[i] = "none"
    OBVIOUS
  <2>. QED  BY <2>1, <2>2 DEF OneWinner, OneNotice
<1>4. Token
  BY <1>3 DEF Token
<1>. QED  BY <1>1, <1>2, <1>4 DEF IInv

LEMMA BumpType == \A n \in 0 .. Many : Bump(n) \in 0 .. Many
  BY IntentsAssumption DEF Bump

-----------------------------------------------------------------------------
(* Types.                                                                  *)

LEMMA IntentType ==
    ASSUME TypeOK, Working, NEW i \in Intents, IntentStep(i)
    PROVE  TypeOK' /\ Working'
<1> USE DEF TypeOK, Working, database, requests, gateway, actor, counters
<1>1. CASE Create(i)
  BY <1>1 DEF Create
<1>2. CASE ChargeAccepted(i) \/ ChargeRefused(i)
  BY <1>2 DEF ChargeAccepted, ChargeRefused
<1>3. CASE RollBack(i)
  BY <1>3 DEF RollBack
<1>4. CASE Pay(i)
  BY <1>4 DEF Pay
<1>6. CASE Decline(i)
  BY <1>6 DEF Decline
<1>5. CASE CancelCheck(i) \/ CancelWrite(i)
  BY <1>5 DEF CancelCheck, CancelWrite
<1>7. CASE RefundOrder(i) \/ RefundIntent(i)
  BY <1>7 DEF RefundOrder, RefundIntent
<1>. QED  BY <1>1, <1>2, <1>3, <1>4, <1>5, <1>6, <1>7 DEF IntentStep

LEMMA BeginType ==
    ASSUME TypeOK, Working, NEW a \in Actors, NEW i \in Intents, Begin(a, i)
    PROVE  TypeOK' /\ Working'
<1> USE DEF TypeOK, Working, database, requests, gateway, actor, counters
<1>1. CASE Verify(a, i)
  BY <1>1 DEF Verify
<1>2. ASSUME NEW kind \in {"success", "failed"}, Deliver(a, i, kind) PROVE TypeOK' /\ Working'
  BY <1>2 DEF Deliver, Events
<1>. QED  BY <1>1, <1>2 DEF Begin

\* What the unconditional UPDATE writes, and what it overwrites.
LEMMA WrittenOver ==
    ASSUME TypeOK, NEW i \in Intents, WriteOver(i, "failed")
    PROVE  /\ intent' \in [Intents -> {"none", "pending", "processing", "succeeded", "failed",
                                      "refunded"}]
           /\ reopened' \in SUBSET Intents /\ reopened \subseteq reopened'
           /\ \A j \in Intents : j # i => intent'[j] = intent[j]
           /\ intent'[i] = "failed"
           /\ intent[i] = "succeeded" => i \in reopened'
  BY DEF TypeOK, WriteOver

LEMMA ContinueType ==
    ASSUME TypeOK, Working, NEW a \in Actors, Continue(a)
    PROVE  TypeOK' /\ Working'
<1> USE DEF TypeOK, Working, database, requests, gateway, actor, counters, Goto, Finish
<1>1. CASE Reopen(a)
  <2>1. hook' \in [Events -> {"none", "open", "done", "error"}]
    BY <1>1 DEF Reopen
  <2>2. /\ pc[a] = "reopen" /\ pc' = [pc EXCEPT ![a] = "apply"]
        /\ UNCHANGED <<cur, via, purpose, intent, order, paid, credited, split, requests,
                       gateway, counters>>
    BY <1>1 DEF Reopen
  <2>. QED  BY <2>1, <2>2
<1>2. CASE ApplySuccess(a)
  BY <1>2 DEF ApplySuccess
<1>3. CASE ApplyMismatch(a)
  <2>1. hook' \in [Events -> {"none", "open", "done", "error"}]
    BY <1>3 DEF ApplyMismatch
  <2>2. /\ \A b \in Actors : pc'[b] # "idle" => pc[b] # "idle" /\ cur'[b] = cur[b]
        /\ UNCHANGED <<purpose, intent, order, paid, credited, split, creator, cancelling,
                       refund, captured, declined, fails, reopened, winners, notices>>
    BY <1>3 DEF ApplyMismatch
  <2>. QED  BY <1>3, <2>1, <2>2 DEF ApplyMismatch
<1>4. CASE ApplyFailure(a)
  <2>1. cur[a] \in Intents
    BY <1>4 DEF ApplyFailure, Overwrite
  <2>. QED  BY <1>4, <2>1, WrittenOver DEF ApplyFailure, Overwrite
<1>5. CASE Answer(a)
  BY <1>5 DEF Answer, AfterAnswer
<1>6. CASE MarkFailed(a)
  <2>1. cur[a] \in Intents
    BY <1>6 DEF MarkFailed
  <2>. QED  BY <1>6, <2>1, WrittenOver DEF MarkFailed
<1>7. CASE Cas(a)
  BY <1>7, BumpType DEF Cas, Win, SideEffects
<1>8. CASE CreditTopUp(a)
  BY <1>8 DEF CreditTopUp
<1>9. CASE ReadOrder(a)
  BY <1>9 DEF ReadOrder
<1>10. CASE StampOrder(a)
  BY <1>10 DEF StampOrder
<1>11. CASE NotifyAndDispatch(a)
  BY <1>11, BumpType DEF NotifyAndDispatch
<1>12. CASE SplitPayouts(a)
  BY <1>12 DEF SplitPayouts
<1>13. CASE Close(a)
  <2>1. hook' \in [Events -> {"none", "open", "done", "error"}]
    BY <1>13 DEF Close
  <2>2. /\ pc' = [pc EXCEPT ![a] = "idle"] /\ cur' = [cur EXCEPT ![a] = NoIntent]
        /\ via' = [via EXCEPT ![a] = "none"]
        /\ UNCHANGED <<purpose, intent, order, paid, credited, split, requests, gateway,
                       counters>>
    BY <1>13 DEF Close
  <2>. QED  BY <2>1, <2>2
<1>. QED
  BY <1>1, <1>2, <1>3, <1>4, <1>5, <1>6, <1>7, <1>8, <1>9, <1>10, <1>11, <1>12, <1>13
     DEF Continue

LEMMA FailType ==
    ASSUME TypeOK, Working, NEW a \in Actors, Fail(a)
    PROVE  TypeOK' /\ Working'
<1> USE DEF Fail, Finish, TypeOK, Working, database, requests, gateway, actor, counters
<1>1. hook' \in [Events -> {"none", "open", "done", "error"}]
  OBVIOUS
<1>2. fails' \in 0 .. MaxFails
  BY IntentsAssumption
<1>. QED  BY <1>1, <1>2

LEMMA StepType == TypeOK /\ Working /\ [Next]_vars => TypeOK' /\ Working'
<1> SUFFICES ASSUME TypeOK, Working, [Next]_vars PROVE TypeOK' /\ Working'
  OBVIOUS
<1>1. CASE UNCHANGED vars
  BY <1>1 DEF vars, TypeOK, Working, database, requests, gateway, actor, counters
<1>. QED  BY <1>1, IntentType, BeginType, ContinueType, FailType DEF Next

\* TypeOK holds in every reachable state, whatever the constants are.
THEOREM TypeCorrect == Spec => []TypeOK
<1>1. Init => TypeOK /\ Working
  BY InitInv DEF IInv
<1>. QED  BY <1>1, StepType, PTL DEF Spec

-----------------------------------------------------------------------------
(* The money.                                                              *)

LEMMA IntentMoney ==
    ASSUME IInv, NEW i \in Intents, IntentStep(i)
    PROVE  Opened' /\ Earned' /\ Backed'
<1> USE DEF IInv, TypeOK, Working, Opened, Earned, Backed, database, requests, gateway,
            actor, counters
<1>1. CASE Create(i)
  BY <1>1 DEF Create
<1>2. CASE ChargeAccepted(i)
  BY <1>2 DEF ChargeAccepted
<1>3. CASE ChargeRefused(i)
  BY <1>3 DEF ChargeRefused
<1>4. CASE RollBack(i)
  BY <1>4 DEF RollBack
<1>5. CASE Pay(i)
  BY <1>5 DEF Pay
<1>6. CASE Decline(i)
  BY <1>6 DEF Decline
<1>7. CASE CancelCheck(i)
  BY <1>7 DEF CancelCheck
<1>8. CASE CancelWrite(i)
  BY <1>8 DEF CancelWrite
<1>9. CASE RefundOrder(i) \/ RefundIntent(i)
  BY <1>9 DEF RefundOrder, RefundIntent
<1>. QED  BY <1>1, <1>2, <1>3, <1>4, <1>5, <1>6, <1>7, <1>8, <1>9 DEF IntentStep

LEMMA BeginMoney ==
    ASSUME IInv, NEW a \in Actors, NEW i \in Intents, Begin(a, i)
    PROVE  Opened' /\ Earned' /\ Backed'
<1> USE DEF IInv, TypeOK, Working, Opened, Earned, Backed, database, requests, gateway,
            actor, counters
<1>1. CASE Verify(a, i)
  BY <1>1 DEF Verify
<1>2. ASSUME NEW kind \in {"success", "failed"}, Deliver(a, i, kind)
      PROVE  Opened' /\ Earned' /\ Backed'
  BY <1>2 DEF Deliver, Emitted
<1>. QED  BY <1>1, <1>2 DEF Begin

LEMMA ContinueMoney ==
    ASSUME IInv, NEW a \in Actors, Continue(a)
    PROVE  Opened' /\ Earned' /\ Backed'
<1> USE DEF IInv, TypeOK, Working, Opened, Earned, Backed,
            database, requests, gateway, actor, counters, Goto, Finish
<1>1. CASE Reopen(a)
  BY <1>1 DEF Reopen
<1>2. CASE ApplySuccess(a)
  BY <1>2 DEF ApplySuccess
<1>3. CASE ApplyMismatch(a)
  BY <1>3 DEF ApplyMismatch
<1>4. CASE ApplyFailure(a)
  BY <1>4, WrittenOver DEF ApplyFailure, Overwrite
<1>5. CASE Answer(a)
  BY <1>5 DEF Answer, AfterAnswer, Answers
<1>6. CASE MarkFailed(a)
  BY <1>6, WrittenOver DEF MarkFailed
<1>7. CASE Cas(a)
  BY <1>7 DEF Cas, Win, SideEffects
<1>8. CASE CreditTopUp(a)
  BY <1>8 DEF CreditTopUp
<1>9. CASE ReadOrder(a)
  BY <1>9 DEF ReadOrder
<1>10. CASE StampOrder(a)
  BY <1>10 DEF StampOrder
<1>11. CASE NotifyAndDispatch(a)
  BY <1>11 DEF NotifyAndDispatch
<1>12. CASE SplitPayouts(a)
  BY <1>12 DEF SplitPayouts
<1>13. CASE Close(a)
  BY <1>13 DEF Close
<1>. QED
  BY <1>1, <1>2, <1>3, <1>4, <1>5, <1>6, <1>7, <1>8, <1>9, <1>10, <1>11, <1>12, <1>13
     DEF Continue

LEMMA StepMoney == IInv /\ [Next]_vars => Opened' /\ Earned' /\ Backed'
<1> SUFFICES ASSUME IInv, [Next]_vars PROVE Opened' /\ Earned' /\ Backed'
  OBVIOUS
<1> USE DEF IInv, Opened, Earned, Backed, database, requests, gateway,
            actor, counters
<1>1. ASSUME NEW a \in Actors, Fail(a) PROVE Opened' /\ Earned' /\ Backed'
  BY <1>1 DEF Fail, Finish, TypeOK
<1>2. CASE UNCHANGED vars
  BY <1>2 DEF vars
<1>. QED  BY <1>1, <1>2, IntentMoney, BeginMoney, ContinueMoney DEF Next

-----------------------------------------------------------------------------
(* The token.                                                              *)

\* Nobody starts to win or goes on with it; who is done with it leaves.
Idling ==
    \A a \in Actors : pc'[a] \in {"credit", "read", "stamp", "notify"} =>
        pc[a] = pc'[a] /\ cur[a] = cur'[a]

\* Nothing happens to the token in a step in which nobody goes on with winning.
LEMMA Kept ==
    ASSUME Token, Idling, UNCHANGED <<paid, refund>>, reopened \subseteq reopened',
           \A i \in Intents :
              \/ i \in reopened'
              \/ /\ intent'[i] = "succeeded" <=> intent[i] = "succeeded"
                 /\ winners'[i] = winners[i] /\ notices'[i] = notices[i]
    PROVE  Token'
<1> SUFFICES ASSUME NEW i \in Intents, i \notin reopened'
             PROVE  OneNotice(i)' /\ (refund'[i] = "done" \/ OneWinner(i)')
  BY DEF Token
<1>1. OneNotice(i) /\ (refund[i] = "done" \/ OneWinner(i))
  BY DEF Token
<1>2. /\ \A a \in Actors : Winning(a, i)' => Winning(a, i)
      /\ \A a \in Actors : Telling(a, i)' => Telling(a, i) /\ pc'[a] = pc[a]
  BY DEF Idling, Winning, Telling
<1>3. OneNotice(i)'
  BY <1>1, <1>2 DEF OneNotice
<1>4. refund'[i] = "done" \/ OneWinner(i)'
  BY <1>1, <1>2 DEF OneWinner
<1>. QED  BY <1>3, <1>4

\* A refund: the order has been paid, and from the mark on the intent on there may be
\* another winner.
LEMMA RefundToken ==
    ASSUME IInv, NEW i \in Intents, RefundOrder(i) \/ RefundIntent(i)
    PROVE  Token'
<1>1. /\ UNCHANGED <<paid, reopened, winners, notices, pc, cur>>
      /\ \A j \in Intents : j # i => refund'[j] = refund[j] /\ intent'[j] = intent[j]
      /\ \/ refund[i] = "no" /\ paid[i] /\ refund'[i] = "order" /\ intent'[i] = intent[i]
         \/ refund[i] = "order" /\ refund'[i] = "done"
  BY DEF RefundOrder, RefundIntent, IInv, TypeOK, counters, actor
<1>2. SUFFICES ASSUME NEW j \in Intents, j \notin reopened'
               PROVE  OneNotice(j)' /\ (refund'[j] = "done" \/ OneWinner(j)')
  BY DEF Token
<1>3. OneNotice(j) /\ (refund[j] = "done" \/ OneWinner(j))
  BY <1>1, <1>2 DEF IInv, Token
<1>4. OneNotice(j)'
  BY <1>1, <1>3 DEF OneNotice, Telling
<1>5. refund'[j] = "done" \/ OneWinner(j)'
  BY <1>1, <1>3 DEF OneWinner, Winning
<1>. QED  BY <1>4, <1>5

LEMMA IntentToken ==
    ASSUME IInv, NEW i \in Intents, IntentStep(i)
    PROVE  Token'
<1>1. CASE RefundOrder(i) \/ RefundIntent(i)
  BY <1>1, RefundToken
<1>2. CASE ~(RefundOrder(i) \/ RefundIntent(i))
  <2>1. UNCHANGED <<counters, actor, paid, refund>>
    BY <1>2 DEF IntentStep, Create, ChargeAccepted, ChargeRefused, RollBack, Pay, Decline,
           CancelCheck, CancelWrite, database, requests
  <2>2. Idling
    BY <2>1 DEF Idling, actor
  <2>3. \A j \in Intents : intent'[j] = "succeeded" <=> intent[j] = "succeeded"
    <3>1. \/ UNCHANGED intent
          \/ /\ creator[i] # "done"
             /\ \E word \in {"pending", "processing", "failed"} :
                   intent' = [intent EXCEPT ![i] = word]
      BY <1>2 DEF IntentStep, Create, ChargeAccepted, ChargeRefused, RollBack, Pay, Decline,
             CancelCheck, CancelWrite, database
    <3>. QED  BY <3>1 DEF IInv, TypeOK, Opened
  <2>. QED  BY <2>1, <2>2, <2>3, Kept DEF IInv, counters
<1>. QED  BY <1>1, <1>2

\* A step of a request that writes no intent, no winner and no notice.
LEMMA Aside ==
    ASSUME Token, UNCHANGED <<intent, paid, refund, reopened, winners, notices>>, Idling
    PROVE  Token'
  BY Kept

LEMMA BeginToken ==
    ASSUME IInv, NEW a \in Actors, NEW i \in Intents, Begin(a, i)
    PROVE  Token'
<1>1. UNCHANGED <<intent, paid, refund, reopened, winners, notices>>
  BY DEF Begin, Verify, Deliver, database, requests, counters
<1>2. Idling
  BY DEF Begin, Verify, Deliver, Idling, IInv, TypeOK
<1>. QED  BY <1>1, <1>2, Aside DEF IInv

\* A failure written over i costs i its token or finds none.
LEMMA OverToken ==
    ASSUME IInv, NEW i \in Intents, WriteOver(i, "failed"),
           UNCHANGED <<paid, refund, winners, notices>>, Idling
    PROVE  Token'
  BY WrittenOver, Kept DEF IInv

LEMMA CasToken ==
    ASSUME IInv, NEW a \in Actors, Cas(a)
    PROVE  Token'
<1> DEFINE i == cur[a]
<1> USE DEF IInv, TypeOK
<1>1. i \in Intents /\ pc[a] = "cas" /\ cur' = cur
  BY DEF Working, Cas, Win, Goto
<1>2. intent' = [intent EXCEPT ![i] = "succeeded"]
         /\ UNCHANGED <<reopened, notices, paid, refund>>
  BY DEF Cas, Win, requests
<1>3. CASE intent[i] = "succeeded"
  <2>1. pc' = [pc EXCEPT ![a] = "close"] /\ winners' = winners
    BY <1>1, <1>3 DEF Cas, Win, Goto
  <2>2. Idling
    BY <1>1, <2>1 DEF Idling
  <2>. QED  BY <1>1, <1>2, <1>3, <2>1, <2>2, Kept
<1>4. CASE intent[i] # "succeeded"
  <2>1. /\ pc' = [pc EXCEPT ![a] = SideEffects(i)]
        /\ winners' = [winners EXCEPT ![i] = Bump(@)]
        /\ SideEffects(i) \in {"read", "credit"}
    BY <1>1, <1>4 DEF Cas, Win, Goto, SideEffects
  <2>2. SUFFICES ASSUME NEW j \in Intents, j \notin reopened'
                 PROVE  OneNotice(j)' /\ (refund'[j] = "done" \/ OneWinner(j)')
    BY DEF Token
  <2>3. OneNotice(j) /\ (refund[j] = "done" \/ OneWinner(j))
    BY <1>2, <2>2 DEF Token
  <2>n. OneNotice(j)'
    <3>1. \A b \in Actors : Telling(b, j)' => Telling(b, j) /\ pc'[b] = pc[b]
      BY <1>1, <2>1 DEF Telling
    <3>. QED  BY <1>2, <2>3, <3>1 DEF OneNotice
  <2>4. CASE refund[j] # "done" /\ j # i
    <3>1. \A b \in Actors : Winning(b, j)' => Winning(b, j)
      BY <1>1, <2>1, <2>4 DEF Winning
    <3>. QED  BY <1>1, <1>2, <2>1, <2>3, <2>4, <2>n, <3>1 DEF OneWinner
  <2>5. CASE refund[j] # "done" /\ j = i
    <3>1. winners[j] = 0 /\ \A b \in Actors : ~Winning(b, j)
      BY <1>4, <2>3, <2>5 DEF OneWinner
    <3>2. intent'[j] = "succeeded" /\ winners'[j] = 1
      BY <1>1, <1>2, <2>1, <2>5, <3>1, IntentsAssumption DEF Bump
    <3>3. \A b \in Actors : Winning(b, j)' => b = a
      BY <1>1, <2>1, <3>1 DEF Winning
    <3>. QED  BY <2>n, <3>2, <3>3 DEF OneWinner
  <2>. QED  BY <1>2, <2>4, <2>5, <2>n
<1>. QED  BY <1>3, <1>4

\* The winner of i goes on to another statement.
LEMMA Onward ==
    ASSUME IInv, NEW a \in Actors, NEW i \in Intents, cur[a] = i, NEW label,
           Winning(a, i), Goto(a, label), UNCHANGED <<intent, refund, reopened, winners>>,
           NEW j \in Intents, j \notin reopened
    PROVE  refund'[j] = "done" \/ OneWinner(j)'
<1>1. \A b \in Actors, k \in Intents : Winning(b, k)' => Winning(b, k)
  BY DEF Goto, Winning, IInv, TypeOK
<1>2. refund[j] = "done" \/ OneWinner(j)
  BY DEF IInv, Token
<1>. QED  BY <1>1, <1>2 DEF OneWinner

LEMMA ReadToken ==
    ASSUME IInv, NEW a \in Actors, ReadOrder(a)
    PROVE  Token'
<1> DEFINE i == cur[a]
<1> USE DEF IInv, TypeOK
<1>1. i \in Intents /\ cur' = cur /\ Winning(a, i) /\ pc[a] = "read"
  BY DEF Working, ReadOrder, Goto, Winning
<1>2. /\ UNCHANGED <<intent, paid, refund, reopened, winners, notices>>
      /\ pc' = [pc EXCEPT ![a] = IF paid[i] THEN "close" ELSE "stamp"]
      /\ Goto(a, IF paid[i] THEN "close" ELSE "stamp")
  BY DEF ReadOrder, Goto, database, requests, counters
<1>3. SUFFICES ASSUME NEW j \in Intents, j \notin reopened
               PROVE  OneNotice(j)' /\ (refund'[j] = "done" \/ OneWinner(j)')
  BY <1>2 DEF Token
<1>4. OneNotice(j) /\ (refund[j] = "done" \/ OneWinner(j))
  BY <1>3 DEF Token
<1>5. refund'[j] = "done" \/ OneWinner(j)'
  BY <1>1, <1>2, <1>3, Onward
<1>6. CASE j # i \/ paid[i]
  <2>1. \A b \in Actors : Telling(b, j)' => Telling(b, j) /\ pc'[b] = pc[b]
    BY <1>1, <1>2, <1>6 DEF Telling
  <2>2. OneNotice(j)'
    BY <1>2, <1>4, <2>1 DEF OneNotice
  <2>. QED  BY <1>5, <2>2
<1>7. CASE j = i /\ ~paid[i]
  <2>1. refund[j] = "no" /\ notices[j] = 0
    BY <1>4, <1>7 DEF OneNotice
  <2>2. \A b \in Actors : Winning(b, j) => b = a
    BY <1>1, <1>4, <1>7, <2>1 DEF OneWinner
  <2>3. \A b \in Actors : Telling(b, j)' => b = a /\ pc'[b] = "stamp"
    BY <1>1, <1>2, <1>7, <2>2 DEF Telling, Winning
  <2>4. OneNotice(j)'
    BY <1>2, <1>7, <2>1, <2>3 DEF OneNotice
  <2>. QED  BY <1>5, <2>4
<1>. QED  BY <1>6, <1>7

LEMMA StampToken ==
    ASSUME IInv, NEW a \in Actors, StampOrder(a)
    PROVE  Token'
<1> DEFINE i == cur[a]
<1> USE DEF IInv, TypeOK
<1>1. i \in Intents /\ cur' = cur /\ Winning(a, i) /\ Telling(a, i)
  BY DEF Working, StampOrder, Goto, Winning, Telling
<1>2. /\ UNCHANGED <<intent, refund, reopened, winners, notices>>
      /\ pc' = [pc EXCEPT ![a] = "notify"] /\ Goto(a, "notify")
      /\ paid' = [paid EXCEPT ![i] = TRUE]
  BY DEF StampOrder, Goto, requests, counters
<1>3. SUFFICES ASSUME NEW j \in Intents, j \notin reopened
               PROVE  OneNotice(j)' /\ (refund'[j] = "done" \/ OneWinner(j)')
  BY <1>2 DEF Token
<1>4. OneNotice(j)
  BY <1>3 DEF Token
<1>5. refund'[j] = "done" \/ OneWinner(j)'
  BY <1>1, <1>2, <1>3, Onward
<1>6. CASE j # i
  <2>1. \A b \in Actors : Telling(b, j)' => Telling(b, j) /\ pc'[b] = pc[b]
    BY <1>1, <1>2, <1>6 DEF Telling
  <2>2. OneNotice(j)' /\ paid'[j] = paid[j]
    BY <1>1, <1>2, <1>4, <1>6, <2>1 DEF OneNotice
  <2>. QED  BY <1>5, <2>2
<1>7. CASE j = i
  <2>1. notices[j] = 0 /\ \A b \in Actors : Telling(b, j) => b = a
    BY <1>1, <1>4, <1>7 DEF OneNotice
  <2>2. \A b \in Actors : Telling(b, j)' => b = a /\ pc'[b] = "notify"
    BY <1>1, <1>2, <1>7, <2>1 DEF Telling
  <2>3. OneNotice(j)'
    BY <1>1, <1>2, <1>7, <2>1, <2>2 DEF OneNotice
  <2>. QED  BY <1>5, <2>3
<1>. QED  BY <1>6, <1>7

LEMMA NotifyToken ==
    ASSUME IInv, NEW a \in Actors, NotifyAndDispatch(a)
    PROVE  Token'
<1> DEFINE i == cur[a]
<1> USE DEF IInv, TypeOK
<1>1. i \in Intents /\ cur' = cur /\ Winning(a, i) /\ Telling(a, i) /\ pc[a] = "notify"
  BY DEF Working, NotifyAndDispatch, Goto, Winning, Telling
<1>2. /\ pc' = [pc EXCEPT ![a] = "split"] /\ Goto(a, "split")
      /\ notices' = [notices EXCEPT ![i] = Bump(@)]
      /\ UNCHANGED <<intent, paid, refund, reopened, winners>>
  BY DEF NotifyAndDispatch, Goto, database, requests
<1>3. \A b \in Actors, j \in Intents :
         Telling(b, j)' => Telling(b, j) /\ b # a /\ pc'[b] = pc[b]
  BY <1>1, <1>2 DEF Telling
<1>4. SUFFICES ASSUME NEW j \in Intents, j \notin reopened
               PROVE  OneNotice(j)' /\ (refund'[j] = "done" \/ OneWinner(j)')
  BY <1>2 DEF Token
<1>5. OneNotice(j)
  BY <1>4 DEF Token
<1>6. refund'[j] = "done" \/ OneWinner(j)'
  BY <1>1, <1>2, <1>4, Onward
<1>7. CASE j # i
  <2>1. OneNotice(j)'
    BY <1>1, <1>2, <1>3, <1>5, <1>7 DEF OneNotice
  <2>. QED  BY <1>6, <2>1
<1>8. CASE j = i
  <2>1. notices[j] = 0 /\ paid[j] /\ \A b \in Actors : Telling(b, j) => b = a
    BY <1>1, <1>5, <1>8 DEF OneNotice
  <2>2. notices'[j] = 1
    BY <1>1, <1>2, <1>8, <2>1, IntentsAssumption DEF Bump
  <2>3. \A b \in Actors : ~Telling(b, j)'
    BY <1>3, <2>1
  <2>4. OneNotice(j)'
    BY <1>2, <2>1, <2>2, <2>3 DEF OneNotice
  <2>. QED  BY <1>6, <2>4
<1>. QED  BY <1>7, <1>8

LEMMA ContinueToken ==
    ASSUME IInv, NEW a \in Actors, Continue(a)
    PROVE  Token'
<1> USE DEF IInv, TypeOK, Goto, Finish
<1>1. CASE ApplyFailure(a)
  <2>1. cur[a] \in Intents /\ UNCHANGED <<paid, refund, winners, notices>>
    BY <1>1 DEF ApplyFailure, Overwrite, Working, requests
  <2>2. Idling
    BY <1>1 DEF ApplyFailure, Overwrite, Idling
  <2>. QED  BY <1>1, <2>1, <2>2, OverToken DEF ApplyFailure, Overwrite
<1>2. CASE MarkFailed(a)
  <2>1. cur[a] \in Intents /\ UNCHANGED <<paid, refund, winners, notices>>
    BY <1>2 DEF MarkFailed, Working, requests
  <2>2. Idling
    BY <1>2 DEF MarkFailed, Idling
  <2>. QED  BY <1>2, <2>1, <2>2, OverToken DEF MarkFailed
<1>3. CASE Reopen(a) \/ ApplySuccess(a) \/ ApplyMismatch(a) \/ Answer(a) \/ Close(a)
  <2>1. UNCHANGED <<intent, paid, refund, reopened, winners, notices>>
    BY <1>3 DEF Reopen, ApplySuccess, ApplyMismatch, Answer, Close, database, requests, counters
  <2>2. Idling
    BY <1>3 DEF Reopen, ApplySuccess, ApplyMismatch, Answer, AfterAnswer, Close, Idling
  <2>. QED  BY <2>1, <2>2, Aside
<1>4. CASE CreditTopUp(a) \/ SplitPayouts(a)
  <2>1. UNCHANGED <<intent, paid, refund, reopened, winners, notices>>
    BY <1>4 DEF CreditTopUp, SplitPayouts, requests, counters
  <2>2. Idling
    BY <1>4 DEF CreditTopUp, SplitPayouts, Idling
  <2>. QED  BY <2>1, <2>2, Aside
<1>. QED
  BY <1>1, <1>2, <1>3, <1>4, CasToken, ReadToken, StampToken, NotifyToken DEF Continue

LEMMA StepToken == IInv /\ [Next]_vars => Token'
<1> SUFFICES ASSUME IInv, [Next]_vars PROVE Token'
  OBVIOUS
<1>1. ASSUME NEW a \in Actors, Fail(a) PROVE Token'
  <2>1. UNCHANGED <<intent, paid, refund, reopened, winners, notices>>
    BY <1>1 DEF Fail, requests
  <2>2. Idling
    BY <1>1 DEF Fail, Finish, Idling, IInv, TypeOK
  <2>. QED  BY <2>1, <2>2, Aside DEF IInv
<1>2. CASE UNCHANGED vars
  BY <1>2, Aside DEF vars, database, requests, counters, actor, IInv, Idling
<1>. QED  BY <1>1, <1>2, IntentToken, BeginToken, ContinueToken DEF Next

-----------------------------------------------------------------------------
THEOREM Invariance == Spec => []IInv
<1>1. IInv /\ [Next]_vars => IInv'
  BY StepType, StepMoney, StepToken DEF IInv
<1>. QED  BY InitInv, <1>1, PTL DEF Spec

\* Whatever dies, repeats or overlaps: the wallet is credited once and never without
\* the gateway's money; until a failure is written over the success the order's buyer
\* is told once, and until the intent is refunded there is one winner
\* (markIntentSucceeded).
THEOREM SideEffectsHappenOnce == Spec => []SideEffectsOnce
<1>1. IInv => SideEffectsOnce
  <2> SUFFICES ASSUME IInv, NEW i \in Intents, i \notin reopened
               PROVE  notices[i] <= 1 /\ (refund[i] = "done" \/ winners[i] <= 1)
    BY DEF IInv, Backed, SideEffectsOnce
  <2>1. notices[i] \in {0, 1} /\ (refund[i] = "done" \/ winners[i] \in {0, 1})
    BY DEF IInv, Token, OneWinner, OneNotice
  <2>. QED  BY <2>1
<1>. QED  BY <1>1, Invariance, PTL

-----------------------------------------------------------------------------
(* Streams.                                                                *)

\* What a worker has read.
Job == [was : {"idle", "live", "ended"}, input : Nat, hls : Playbacks, video : Nat,
        of : Nat, url : Playbacks, notified : BOOLEAN]

\* A worker has read of inputs and recordings that exist.
Jobs ==
    /\ job \in [Workers -> Job]
    /\ \A w \in Workers : /\ job[w].input <= made /\ job[w].video <= Len(videos)
                          /\ job[w].of <= Len(videos)

\* The provider's recordings, one of a session at most, and what is told of them.
Recordings ==
    /\ videos \in Seq([input : Nat, ready : BOOLEAN]) /\ Len(videos) <= sessions
    /\ \A n \in DOMAIN videos : videos[n].input \in 1 .. made
    /\ made \in Nat /\ inputs \subseteq 1 .. made /\ input \in 0 .. made
    /\ video \in 0 .. Len(videos) /\ hls \in Playbacks
    /\ replay.of \in 0 .. Len(videos) /\ replay.playable \in BOOLEAN
    /\ events \subseteq ((1 .. Len(videos)) \X {"inprogress", "ready"})

\* The room and its counts.
Seats ==
    /\ current \in 0 .. Cardinality(Viewers) /\ peak \in 0 .. Cardinality(Viewers)
    /\ room \subseteq Viewers /\ calls \subseteq Calls

\* Where a worker can be.
Labels == {"idle", "start", "announce", "stop", "list", "delete", "create",
           "assign", "look", "replay", "insert", "sync", "final"}

\* Who is at one of these labels.
At(labels) == {w \in Workers : at[w] \in labels}

\* What the seller has asked for is paid of the plan: a start is under way, has made a
\* session, or is left; the same for announcements and for live inputs.
Budgeted ==
    /\ plan \in Plans /\ left \in Budgets /\ status \in {"idle", "live", "ended"}
    /\ at \in [Workers -> Labels] /\ sessions \in Nat /\ announced \in Nat /\ made \in Nat
    /\ IsFiniteSet(At({"start"})) /\ IsFiniteSet(At({"announce"}))
    /\ IsFiniteSet(At({"delete", "create"}))
    /\ Cardinality(At({"start"})) + sessions + left.starts <= plan.starts
    /\ Cardinality(At({"start"})) + Cardinality(At({"announce"})) + announced + left.starts
          <= plan.starts
    /\ Cardinality(At({"delete", "create"})) + made + left.rotations <= plan.rotations + 1
    /\ left.deaths <= plan.deaths

\* The types, and what they need to be inductive.
Typed == Budgeted /\ Jobs /\ Recordings /\ Seats

\* The types follow from what is stronger than them.
LEMMA TypedType == Typed => StreamTypeOK
  <1> SUFFICES ASSUME Typed PROVE StreamTypeOK
    OBVIOUS
  <1>1. plan \in Budgets /\ left \in Budgets
    BY StreamsAssumption DEF Typed, Budgeted
  <1>2. /\ Cardinality(At({"start"})) \in Nat /\ Cardinality(At({"announce"})) \in Nat
        /\ Cardinality(At({"delete", "create"})) \in Nat
    BY FS_CardinalityType DEF Typed, Budgeted
  <1>3. sessions <= plan.starts /\ announced <= plan.starts /\ made <= plan.rotations + 1
    BY <1>1, <1>2 DEF Typed, Budgeted, Budgets
  <1>4. /\ DOMAIN videos = 1 .. Len(videos)
        /\ \A n \in DOMAIN videos : videos[n] \in [input : Nat, ready : BOOLEAN]
    <2> DEFINE R == [input : Nat, ready : BOOLEAN]
    <2>1. videos \in Seq(R)
      BY DEF Typed, Recordings
    <2> HIDE DEF R
    <2>2. DOMAIN videos = 1 .. Len(videos) /\ \A n \in DOMAIN videos : videos[n] \in R
      BY <2>1, LenProperties, ElementOfSeq
    <2> QED BY <2>2 DEF R
  <1>5. \A n \in DOMAIN videos : videos[n] \in [input : inputs \cup 1 .. made, ready : BOOLEAN]
    BY <1>4 DEF Typed, Recordings
  <1> QED BY <1>1, <1>3, <1>4, <1>5 DEF Typed, Budgeted, Jobs, Recordings, Seats, StreamTypeOK,
                                        Labels, Stub

-----------------------------------------------------------------------------
(* The workers.                                                            *)

\* How many workers are at some labels when one of them moves.
LEMMA Moved ==
    ASSUME NEW labels, NEW w \in Workers, NEW label, at \in [Workers -> Labels],
           at' = [at EXCEPT ![w] = label], IsFiniteSet(At(labels)),
           NEW S, S = {v \in Workers : at'[v] \in labels}
    PROVE  /\ IsFiniteSet(S) /\ Cardinality(S) \in Nat /\ Cardinality(At(labels)) \in Nat
           /\ Cardinality(S) = Cardinality(At(labels))
                  + (IF label \in labels THEN 1 ELSE 0) - (IF at[w] \in labels THEN 1 ELSE 0)
  <1>1. at'[w] = label /\ \A v \in Workers : v # w => at'[v] = at[v]
    OBVIOUS
  <1>2. Cardinality(At(labels)) \in Nat
    BY FS_CardinalityType
  <1>3. CASE label \in labels <=> at[w] \in labels
    <2>1. S = At(labels)
      BY <1>1, <1>3 DEF At
    <2>2. IsFiniteSet(S) /\ Cardinality(S) = Cardinality(At(labels))
      BY <2>1
    <2> QED BY <1>2, <1>3, <2>2
  <1>4. CASE label \in labels /\ at[w] \notin labels
    <2>1. S = At(labels) \cup {w} /\ w \notin At(labels)
      BY <1>1, <1>4 DEF At
    <2>2. IsFiniteSet(S) /\ Cardinality(S) = Cardinality(At(labels)) + 1
      <3> DEFINE T == At(labels)
      <3>1. IsFiniteSet(T) /\ S = T \cup {w} /\ w \notin T
        BY <2>1
      <3> HIDE DEF T
      <3>2. IsFiniteSet(T \cup {w}) /\ Cardinality(T \cup {w}) = Cardinality(T) + 1
        BY <3>1, FS_AddElement
      <3> QED BY <3>1, <3>2 DEF T
    <2> QED BY <1>2, <1>4, <2>2
  <1>5. CASE label \notin labels /\ at[w] \in labels
    <2>1. S = At(labels) \ {w} /\ w \in At(labels)
      BY <1>1, <1>5 DEF At
    <2>2. IsFiniteSet(S) /\ Cardinality(S) = Cardinality(At(labels)) - 1
      BY <2>1, FS_RemoveElement
    <2>3. Cardinality(S) \in Nat
      BY <2>2, FS_CardinalityType
    <2> QED BY <1>2, <1>5, <2>2, <2>3
  <1> QED BY <1>3, <1>4, <1>5

\* A step that moves no worker: it spends a fault at most.
LEMMA BudgetSame ==
    ASSUME Budgeted, UNCHANGED <<plan, sessions, announced, made, at>>,
           left' = left \/ Spend("deaths"), status' \in {"idle", "live", "ended"}
    PROVE  Budgeted'
  <1>1. plan \in Budgets /\ plan.deaths \in Nat /\ left \in Budgets
    BY StreamsAssumption DEF Budgeted, Budgets
  <1>2. /\ left' \in Budgets /\ left'.starts = left.starts
        /\ left'.rotations = left.rotations /\ left'.deaths <= left.deaths
    <2>1. CASE left' = left
      BY <1>1, <2>1 DEF Budgets
    <2>2. CASE Spend("deaths")
      BY <1>1, <2>2 DEF Spend, Budgets
    <2> QED BY <2>1, <2>2
  <1>3. left'.deaths <= plan.deaths
    <2>1. left.deaths \in Nat /\ left'.deaths \in Nat /\ left.deaths <= plan.deaths
      BY <1>1, <1>2 DEF Budgeted, Budgets
    <2> QED BY <1>1, <1>2, <2>1
  <1>4. /\ At({"start"})' = At({"start"}) /\ At({"announce"})' = At({"announce"})
        /\ At({"delete", "create"})' = At({"delete", "create"})
    BY DEF At
  <1> HIDE DEF At
  <1> QED BY <1>2, <1>3, <1>4 DEF Budgeted

\* A step of a worker spends what it starts with and makes one of anything at most.
Spends(w, label) ==
    /\ at' = [at EXCEPT ![w] = label] /\ plan' = plan /\ left' \in Budgets
    /\ status' \in {"idle", "live", "ended"}
    /\ sessions' \in Nat /\ announced' \in Nat /\ made' \in Nat
    /\ left'.starts = left.starts - (IF label = "start" THEN 1 ELSE 0)
    /\ left'.rotations = left.rotations - (IF label = "delete" THEN 1 ELSE 0)
    /\ left'.deaths <= left.deaths
    /\ sessions' <= sessions + (IF at[w] = "start" THEN 1 ELSE 0)
    /\ announced' <= announced + (IF at[w] = "announce" THEN 1 ELSE 0)
    /\ made' <= made + (IF at[w] = "create" THEN 1 ELSE 0)
    /\ label \in {"start", "delete"} => at[w] = "idle"
    /\ label = "announce" => at[w] = "start"
    /\ label = "create" => at[w] = "delete"

\* A step of a worker stays within the plan.
LEMMA BudgetMoves ==
    ASSUME Budgeted, NEW w \in Workers, NEW label \in Labels, Spends(w, label)
    PROVE  Budgeted'
  <1> USE DEF Spends
  <1>0. /\ left.starts \in Nat /\ left.rotations \in Nat /\ left.deaths \in Nat
        /\ plan \in Budgets
        /\ plan.starts \in Nat /\ plan.rotations \in Nat /\ plan.deaths \in Nat
        /\ left'.starts \in Nat /\ left'.rotations \in Nat /\ left'.deaths \in Nat
    BY StreamsAssumption DEF Budgeted, Budgets
  <1>1. at' \in [Workers -> Labels] /\ at \in [Workers -> Labels]
    BY DEF Budgeted
  <1> DEFINE S1 == {v \in Workers : at'[v] \in {"start"}}
             S2 == {v \in Workers : at'[v] \in {"announce"}}
             S3 == {v \in Workers : at'[v] \in {"delete", "create"}}
             T1 == At({"start"})
             T2 == At({"announce"})
             T3 == At({"delete", "create"})
  <1>2. /\ IsFiniteSet(S1) /\ Cardinality(S1) \in Nat /\ Cardinality(T1) \in Nat
        /\ Cardinality(S1) = Cardinality(T1)
              + (IF label \in {"start"} THEN 1 ELSE 0) - (IF at[w] \in {"start"} THEN 1 ELSE 0)
    BY <1>1, Moved DEF Budgeted
  <1>3. /\ IsFiniteSet(S2) /\ Cardinality(S2) \in Nat /\ Cardinality(T2) \in Nat
        /\ Cardinality(S2) = Cardinality(T2) + (IF label \in {"announce"} THEN 1 ELSE 0)
                                             - (IF at[w] \in {"announce"} THEN 1 ELSE 0)
    BY <1>1, Moved DEF Budgeted
  <1>4. /\ IsFiniteSet(S3) /\ Cardinality(S3) \in Nat /\ Cardinality(T3) \in Nat
        /\ Cardinality(S3) = Cardinality(T3) + (IF label \in {"delete", "create"} THEN 1 ELSE 0)
                                             - (IF at[w] \in {"delete", "create"} THEN 1 ELSE 0)
    BY <1>1, Moved DEF Budgeted
  <1>5. /\ At({"start"})' = S1 /\ At({"announce"})' = S2 /\ At({"delete", "create"})' = S3
    BY DEF At
  <1>6. /\ Cardinality(T1) + sessions + left.starts <= plan.starts
        /\ Cardinality(T1) + Cardinality(T2) + announced + left.starts <= plan.starts
        /\ Cardinality(T3) + made + left.rotations <= plan.rotations + 1
        /\ left.deaths <= plan.deaths /\ sessions \in Nat /\ announced \in Nat /\ made \in Nat
    BY DEF Budgeted
  <1> HIDE DEF S1, S2, S3, T1, T2, T3
  <1>7. Cardinality(S1) + sessions' + left'.starts <= plan.starts
    BY <1>0, <1>2, <1>6
  <1>8. Cardinality(S1) + Cardinality(S2) + announced' + left'.starts <= plan.starts
    BY <1>0, <1>2, <1>3, <1>6
  <1>9. Cardinality(S3) + made' + left'.rotations <= plan.rotations + 1
    BY <1>0, <1>4, <1>6
  <1>10. left'.deaths <= plan.deaths
    BY <1>0, <1>6
  <1> QED BY <1>1, <1>2, <1>3, <1>4, <1>5, <1>7, <1>8, <1>9, <1>10 DEF Budgeted

\* A notice that a worker takes up is what its job is about from then on.
LEMMA Reception ==
    ASSUME NEW w \in Workers, Receive(w), job' # job
    PROVE  \E e \in events, has \in BOOLEAN, found \in BOOLEAN :
              job' = [job EXCEPT ![w].of = e[1], ![w].url = Hydrated(e[1], has, found),
                                 ![w].notified = TRUE]
  <1>1. PICK e \in events, has \in BOOLEAN, found \in BOOLEAN, named \in BOOLEAN :
           IF e[2] \in Handled /\ Matched(e[1], named)
           THEN job' = [job EXCEPT ![w].of = e[1], ![w].url = Hydrated(e[1], has, found),
                                   ![w].notified = TRUE]
           ELSE UNCHANGED local
    BY ZenonT(120) DEF Receive
  <1>2. e[2] \in Handled /\ Matched(e[1], named)
    <2>1. CASE UNCHANGED local
      BY <2>1 DEF local
    <2> QED BY <1>1, <2>1
  <1> QED BY <1>1, <1>2, Zenon

\* What comes of a notice: a worker takes it up, or it is forgotten.
LEMMA Receptions ==
    ASSUME NEW w \in Workers, Receive(w)
    PROVE  /\ UNCHANGED <<plan, left, row, replay, inputs, made, videos, sockets, sessions,
                          announced, raced, crossed, leaky, counts>>
           /\ events' \subseteq events
           /\ \/ UNCHANGED local
              \/ /\ at[w] = "idle" /\ at' = [at EXCEPT ![w] = "look"]
                 /\ \E e \in events : e[2] = "ready"
  BY DEF Receive, Forget, Handled

\* Every step of a worker.
LEMMA BudgetSteps ==
    ASSUME Budgeted, NEW w \in Workers, Seller(w) \/ Work(w) \/ Die(w)
    PROVE  Budgeted'
  <1>0. /\ at \in [Workers -> Labels] /\ left \in Budgets /\ status \in {"idle", "live", "ended"}
        /\ sessions \in Nat /\ announced \in Nat /\ made \in Nat
        /\ left.starts \in Nat /\ left.rotations \in Nat /\ left.deaths \in Nat
    BY DEF Budgeted, Budgets
  <1>s. ASSUME NEW what \in {"starts", "stops", "rotations", "deaths"}, Spend(what)
        PROVE  /\ left' \in Budgets
               /\ left'.starts = left.starts - (IF what = "starts" THEN 1 ELSE 0)
               /\ left'.rotations = left.rotations - (IF what = "rotations" THEN 1 ELSE 0)
               /\ left'.deaths <= left.deaths
    BY <1>0, <1>s DEF Spend, Budgets
  <1>m. ASSUME NEW label \in Labels, Spends(w, label) PROVE Budgeted'
    BY <1>m, BudgetMoves
  <1> USE <1>0 DEF row, remote, sockets, past, local, MoveTo, Rest
  <1>1. CASE Start(w)
    <2>1. Spends(w, "start") /\ "start" \in Labels
      BY <1>1, <1>s DEF Start, Spends, Labels
    <2> QED BY <2>1, <1>m
  <1>2. CASE Stop(w)
    <2>1. Spends(w, "stop") /\ "stop" \in Labels
      BY <1>2, <1>s DEF Stop, Spends, Labels
    <2> QED BY <2>1, <1>m
  <1>3. CASE Rotate(w)
    <2>1. Spends(w, "delete") /\ "delete" \in Labels
      BY <1>3, <1>s DEF Rotate, Spends, Labels
    <2> QED BY <2>1, <1>m
  <1>4. CASE GoLive(w)
    <2> DEFINE label == AfterStart(job[w].was)
    <2>1. label \in {"idle", "announce"} /\ at' = [at EXCEPT ![w] = label] /\ at[w] = "start"
      BY <1>4 DEF GoLive, AfterStart
    <2>2. /\ sessions' \in Nat /\ sessions' <= sessions + 1 /\ status' = "live"
          /\ UNCHANGED <<plan, left, announced, made>>
      BY <1>4 DEF GoLive
    <2> HIDE DEF label
    <2>3. label \in Labels /\ Spends(w, label)
      BY <2>1, <2>2 DEF Spends, Labels
    <2> QED BY <2>3, <1>m
  <1>5. CASE Announce(w)
    <2>1. Spends(w, "idle") /\ "idle" \in Labels
      BY <1>5 DEF Announce, Spends, Labels
    <2> QED BY <2>1, <1>m
  <1>6. CASE EndStream(w)
    <2>1. Spends(w, "list") /\ "list" \in Labels
      BY <1>6 DEF EndStream, Spends, Labels
    <2> QED BY <2>1, <1>m
  <1>7. CASE ListRecordings(w)
    <2>1. PICK label \in {"idle", "look"} : at' = [at EXCEPT ![w] = label]
      BY <1>7 DEF ListRecordings
    <2>2. label \in Labels /\ Spends(w, label)
      BY <1>7, <2>1 DEF ListRecordings, Spends, Labels
    <2> QED BY <2>2, <1>m
  <1>8. CASE DeleteInput(w)
    <2>1. Spends(w, "create") /\ "create" \in Labels
      BY <1>8 DEF DeleteInput, Spends, Labels
    <2> QED BY <2>1, <1>m
  <1>9. CASE CreateInput(w)
    <2>1. Spends(w, "assign") /\ "assign" \in Labels
      BY <1>9 DEF CreateInput, Spends, Labels
    <2> QED BY <2>1, <1>m
  <1>10. CASE AssignInput(w)
    <2>1. Spends(w, "idle") /\ "idle" \in Labels
      BY <1>10 DEF AssignInput, Spends, Labels
    <2> QED BY <2>1, <1>m
  <1>11. CASE Receive(w)
    <2>0. UNCHANGED <<plan, left, status, sessions, announced, made>>
      BY <1>11, Receptions
    <2>1. CASE UNCHANGED at
      BY <2>0, <2>1, BudgetSame
    <2>2. CASE at[w] = "idle" /\ at' = [at EXCEPT ![w] = "look"]
      <3>1. "look" \in Labels /\ Spends(w, "look")
        BY <2>0, <2>2 DEF Spends, Labels
      <3> QED BY <3>1, <1>m
    <2> QED BY <1>11, <2>1, <2>2, Receptions
  <1>12. CASE ReadStream(w)
    <2>1. Spends(w, "replay") /\ "replay" \in Labels
      BY <1>12 DEF ReadStream, Spends, Labels
    <2> QED BY <2>1, <1>m
  <1>13. CASE ReadReplay(w)
    <2>1. PICK label \in {"insert", "sync"} : at' = [at EXCEPT ![w] = label]
      BY <1>13 DEF ReadReplay
    <2>2. at[w] = "replay" /\ UNCHANGED <<plan, left, status, sessions, announced, made>>
      BY <1>13 DEF ReadReplay
    <2>3. label \in Labels /\ Spends(w, label)
      BY <2>1, <2>2 DEF Spends, Labels
    <2> QED BY <2>3, <1>m
  <1>14. CASE InsertReplay(w)
    <2>1. PICK label \in {"final", "sync"} : at' = [at EXCEPT ![w] = label]
      BY <1>14 DEF InsertReplay
    <2>2. label \in Labels /\ Spends(w, label)
      BY <1>14, <2>1 DEF InsertReplay, Spends, Labels
    <2> QED BY <2>2, <1>m
  <1>15. CASE SyncStream(w) \/ FinalUpdate(w)
    <2>1. "idle" \in Labels /\ Spends(w, "idle")
      BY <1>15 DEF SyncStream, FinalUpdate, Spends, Labels
    <2> QED BY <2>1, <1>m
  <1>16. CASE Die(w)
    <2>1. Spends(w, "idle") /\ "idle" \in Labels
      BY <1>16, <1>s DEF Die, Spends, Labels
    <2> QED BY <2>1, <1>m
  <1> QED BY <1>1, <1>2, <1>3, <1>4, <1>5, <1>6, <1>7, <1>8, <1>9, <1>10, <1>11, <1>12, <1>13,
            <1>14, <1>15, <1>16 DEF Seller, Work

\* A worker reads of what exists, and nothing is unmade.
LEMMA JobsSteps ==
    ASSUME Typed, NEW w \in Workers, Seller(w) \/ Work(w) \/ Die(w)
    PROVE  Jobs' /\ made <= made' /\ videos' = videos
  <1>0. /\ job \in [Workers -> Job] /\ job[w] \in Job /\ made \in Nat /\ Len(videos) \in Nat
        /\ input \in Nat /\ input <= made /\ video \in Nat /\ video <= Len(videos)
        /\ hls \in Playbacks
        /\ status \in {"idle", "live", "ended"}
        /\ events \subseteq ((1 .. Len(videos)) \X {"inprogress", "ready"})
    BY LenProperties DEF Typed, Jobs, Recordings, Budgeted
  <1> DEFINE Becomes(j) == /\ j \in Job /\ job' = [job EXCEPT ![w] = j] /\ videos' = videos
                           /\ made' \in Nat /\ made <= made' /\ j.input <= made'
                           /\ j.video <= Len(videos) /\ j.of <= Len(videos)
  <1>j. ASSUME NEW j, Becomes(j)
        PROVE  Jobs' /\ made <= made' /\ videos' = videos
    <2>1. job' \in [Workers -> Job] /\ job'[w] = j /\ \A v \in Workers : v # w => job'[v] = job[v]
      BY <1>0, <1>j
    <2>2. \A v \in Workers : job[v].input \in Nat
      BY <1>0 DEF Job
    <2> QED BY <1>0, <1>j, <2>1, <2>2 DEF Typed, Jobs
  <1>n. NoJob \in Job /\ NoJob.input = 0 /\ NoJob.video = 0 /\ NoJob.of = 0
    BY DEF NoJob, Job, Stub, Blank, Playbacks
  <1>f. ASSUME Rest(w), made' = made, videos' = videos
        PROVE  Jobs' /\ made <= made' /\ videos' = videos
    <2>1. Becomes(NoJob)
      BY <1>0, <1>n, <1>f DEF Rest
    <2> QED BY <2>1, <1>j
  <1>s. ASSUME UNCHANGED <<job, made, videos>> PROVE Jobs' /\ made <= made' /\ videos' = videos
    BY <1>0, <1>s DEF Typed, Jobs
  <1>b. job[w].input <= made /\ job[w].video <= Len(videos) /\ job[w].of <= Len(videos)
    BY DEF Typed, Jobs
  <1>p. \A n \in Nat : Playing(n) \in Playbacks /\ LiveOf(n) \in Playbacks /\ Blank \in Playbacks
    BY DEF Playing, LiveOf, Playbacks, Blank
  <1> USE DEF row, remote, sockets, past, local, MoveTo
  <1>1. CASE Start(w)
    <2> DEFINE j == [job[w] EXCEPT !.was = status]
    <2>1. j \in Job /\ j.input <= made /\ j.video = job[w].video /\ j.of = job[w].of
      BY <1>0, <1>b DEF Job
    <2>2. job' = [job EXCEPT ![w] = j] /\ UNCHANGED <<made, videos>>
      BY <1>0, <1>1 DEF Start
    <2> HIDE DEF j
    <2>3. Becomes(j)
      BY <1>0, <1>b, <2>1, <2>2
    <2> QED BY <2>3, <1>j
  <1>2. CASE Stop(w) \/ GoLive(w) \/ EndStream(w) \/ DeleteInput(w) \/ ReadReplay(w)
             \/ InsertReplay(w)
    BY <1>2, <1>s DEF Stop, GoLive, EndStream, DeleteInput, ReadReplay, InsertReplay
  <1>3. CASE Rotate(w)
    <2> DEFINE j == [job[w] EXCEPT !.input = input]
    <2>1. j \in Job /\ j.input <= made /\ j.video = job[w].video /\ j.of = job[w].of
      BY <1>0, <1>b DEF Job
    <2>2. job' = [job EXCEPT ![w] = j] /\ UNCHANGED <<made, videos>>
      BY <1>0, <1>3 DEF Rotate
    <2> HIDE DEF j
    <2>3. Becomes(j)
      BY <1>0, <1>b, <2>1, <2>2
    <2> QED BY <2>3, <1>j
  <1>4. CASE Announce(w) \/ AssignInput(w) \/ SyncStream(w) \/ FinalUpdate(w) \/ Die(w)
    BY <1>4, <1>f DEF Announce, AssignInput, SyncStream, FinalUpdate, Die
  <1>5. CASE ListRecordings(w)
    <2>1. CASE Rest(w)
      BY <1>5, <1>f, <2>1 DEF ListRecordings
    <2>2. CASE ~Rest(w)
      <3>1. PICK n \in DOMAIN videos, known \in BOOLEAN :
                job' = [job EXCEPT ![w].of = n, ![w].url = IF known THEN Playing(n) ELSE Blank]
        BY <1>5, <2>2 DEF ListRecordings
      <3> DEFINE j == [job[w] EXCEPT !.of = n, !.url = IF known THEN Playing(n) ELSE Blank]
      <3>2. n \in 1 .. Len(videos)
        BY LenProperties DEF Typed, Recordings
      <3>3. j \in Job /\ j.input = job[w].input /\ j.video = job[w].video /\ j.of = n
        <4>1. n \in Nat /\ Playing(n) \in Playbacks /\ Blank \in Playbacks
          BY <1>p, <3>2
        <4> QED BY <1>0, <4>1 DEF Job
      <3>4. job' = [job EXCEPT ![w] = j] /\ UNCHANGED <<made, videos>>
        BY <1>0, <1>5, <3>1 DEF ListRecordings
      <3> HIDE DEF j
      <3>5. Becomes(j)
        BY <1>0, <1>b, <3>2, <3>3, <3>4
      <3> QED BY <3>5, <1>j
    <2> QED BY <2>1, <2>2
  <1>6. CASE CreateInput(w)
    <2>1. PICK i \in {Stub, made + 1} : /\ job' = [job EXCEPT ![w].input = i]
                                        /\ i <= made' /\ made <= made' /\ made' \in Nat
      <3>1. CASE job' = [job EXCEPT ![w].input = made + 1] /\ made' = made + 1
        BY <1>0, <3>1
      <3>2. CASE job' = [job EXCEPT ![w].input = Stub] /\ made' = made
        BY <1>0, <3>2 DEF Stub
      <3> QED BY <1>6, <3>1, <3>2 DEF CreateInput
    <2> DEFINE j == [job[w] EXCEPT !.input = i]
    <2>2. j \in Job /\ j.input = i /\ j.video = job[w].video /\ j.of = job[w].of
      <3>1. i \in Nat
        BY <1>0, <2>1 DEF Stub
      <3> QED BY <1>0, <3>1 DEF Job
    <2>3. job' = [job EXCEPT ![w] = j] /\ videos' = videos
      BY <1>0, <1>6, <2>1 DEF CreateInput
    <2> HIDE DEF j
    <2>4. Becomes(j)
      BY <1>0, <1>b, <2>1, <2>2, <2>3
    <2> QED BY <2>4, <1>j
  <1>7. CASE Receive(w)
    <2>1. CASE UNCHANGED job
      BY <1>7, <1>s, <2>1, Receptions
    <2>2. CASE job' # job
      <3>1. PICK e \in events, has \in BOOLEAN, found \in BOOLEAN :
                job' = [job EXCEPT ![w].of = e[1], ![w].url = Hydrated(e[1], has, found),
                                   ![w].notified = TRUE]
        BY <1>7, <2>2, Reception
      <3> DEFINE j == [job[w] EXCEPT !.of = e[1], !.url = Hydrated(e[1], has, found),
                                     !.notified = TRUE]
      <3>2. e[1] \in 1 .. Len(videos)
        BY <1>0
      <3>3. Hydrated(e[1], has, found) \in Playbacks
        BY <1>0, <1>p, <3>2 DEF Hydrated
      <3>4. j \in Job /\ j.input = job[w].input /\ j.video = job[w].video /\ j.of = e[1]
        <4>1. e[1] \in Nat
          BY <3>2
        <4> QED BY <1>0, <3>3, <4>1 DEF Job
      <3>5. job' = [job EXCEPT ![w] = j] /\ UNCHANGED <<made, videos>>
        BY <1>0, <1>7, <3>1, Receptions
      <3> HIDE DEF j
      <3>6. Becomes(j)
        BY <1>0, <1>b, <3>2, <3>4, <3>5
      <3> QED BY <3>6, <1>j
    <2> QED BY <2>1, <2>2
  <1>8. CASE ReadStream(w)
    <2> DEFINE j == [job[w] EXCEPT !.hls = hls, !.video = video]
    <2>1. j \in Job /\ j.input = job[w].input /\ j.video = video /\ j.of = job[w].of
      BY <1>0 DEF Job
    <2>2. job' = [job EXCEPT ![w] = j] /\ UNCHANGED <<made, videos>>
      BY <1>0, <1>8 DEF ReadStream
    <2> HIDE DEF j
    <2>3. Becomes(j)
      BY <1>0, <1>b, <2>1, <2>2
    <2> QED BY <2>3, <1>j
  <1> QED BY <1>1, <1>2, <1>3, <1>4, <1>5, <1>6, <1>7, <1>8 DEF Seller, Work

\* A worker writes of what exists.
LEMMA RecordingsSteps ==
    ASSUME Typed, NEW w \in Workers, Seller(w) \/ Work(w) \/ Die(w)
    PROVE  Recordings'
  <1>0. /\ job[w] \in Job /\ job[w].input \in 0 .. made /\ made \in Nat /\ Len(videos) \in Nat
        /\ job[w].of \in 0 .. Len(videos) /\ sessions \in Nat
    <2>1. job[w] \in Job /\ made \in Nat /\ Len(videos) \in Nat /\ sessions \in Nat
      BY LenProperties DEF Typed, Jobs, Recordings, Budgeted
    <2>2. job[w].input \in Nat /\ job[w].of \in Nat
      BY <2>1 DEF Job
    <2> QED BY <2>1, <2>2 DEF Typed, Jobs
  <1>r. Recordings
    BY DEF Typed
  <1>a. Ack(w) \subseteq events
    BY DEF Ack
  <1>h. \A n \in Nat : LiveOf(n) \in Playbacks
    BY DEF LiveOf, Playbacks
  <1>j. job[w].hls \in Playbacks /\ job[w].url \in Playbacks
    BY <1>0 DEF Job
  <1> USE DEF row, remote, sockets, past, local
  <1>1. CASE \/ Start(w) \/ Announce(w) \/ Stop(w) \/ EndStream(w) \/ ListRecordings(w)
             \/ Rotate(w) \/ ReadStream(w) \/ ReadReplay(w)
    BY <1>1, <1>r DEF Start, Announce, Stop, EndStream, ListRecordings, Rotate, ReadStream,
                      ReadReplay, Recordings
  <1>2. CASE GoLive(w)
    <2>1. sessions <= sessions'
      BY <1>0, <1>2 DEF GoLive
    <2>2. sessions' \in Nat
      BY <1>0, <1>2 DEF GoLive
    <2>3. UNCHANGED <<videos, made, inputs, input, video, hls, replay, events>>
      BY <1>2 DEF GoLive
    <2> QED BY <1>0, <1>r, <2>1, <2>2, <2>3 DEF Recordings
  <1>3. CASE DeleteInput(w)
    BY <1>3, <1>r DEF DeleteInput, Remaining, Recordings
  <1>4. CASE CreateInput(w)
    <2>a. /\ UNCHANGED <<videos, sessions, input, video, hls, replay, events>>
          /\ \/ made' = made + 1 /\ inputs' = inputs \cup {made + 1}
             \/ UNCHANGED <<made, inputs>>
      BY <1>4 DEF CreateInput
    <2>b. inputs \subseteq 1 .. made
      BY <1>r DEF Recordings
    <2>c. made' \in Nat /\ made <= made' /\ (made' = made + 1 => made + 1 \in 1 .. made')
      <3>1. made' = made + 1 \/ made' = made
        BY <2>a
      <3> HIDE <2>a, <2>b
      <3> QED BY <1>0, <3>1
    <2>0. 1 .. made \subseteq 1 .. made' /\ 0 .. made \subseteq 0 .. made'
      BY <1>0, <2>c
    <2>d. inputs' \subseteq 1 .. made'
      <3>1. CASE made' = made + 1 /\ inputs' = inputs \cup {made + 1}
        BY <2>b, <2>c, <2>0, <3>1, Zenon
      <3>2. CASE UNCHANGED <<made, inputs>>
        BY <2>b, <3>2
      <3> QED BY <2>a, <3>1, <3>2
    <2>1. /\ made' \in Nat /\ made <= made' /\ inputs' \subseteq 1 .. made'
          /\ UNCHANGED <<videos, sessions, input, video, hls, replay, events>>
      BY <2>a, <2>c, <2>d
    <2>2. \A n \in DOMAIN videos : videos[n].input \in 1 .. made'
      <3>1. \A n \in DOMAIN videos : videos[n].input \in 1 .. made
        BY <1>r DEF Recordings
      <3> QED BY <2>0, <3>1, Zenon
    <2>3. input \in 0 .. made'
      BY <1>r, <2>0 DEF Recordings
    <2> QED BY <1>r, <2>1, <2>2, <2>3 DEF Recordings
  <1>5. CASE AssignInput(w)
    BY <1>0, <1>5, <1>r, <1>h DEF AssignInput, NewInput, Recordings
  <1>6. CASE Receive(w)
    BY <1>6, <1>r, Receptions DEF Recordings
  <1>7. CASE InsertReplay(w)
    <2>1. UNCHANGED <<videos, sessions, made, inputs, input, video, hls, events>>
      BY <1>7 DEF InsertReplay
    <2>2. replay'.of \in 0 .. Len(videos) /\ replay'.playable \in BOOLEAN
      <3>1. CASE replay = NoReplay
        <4> DEFINE r == [of |-> job[w].of, playable |-> job[w].url # Blank]
        <4>1. replay' = r
          BY <1>7, <3>1 DEF InsertReplay
        <4>2. r.of = job[w].of /\ r.playable \in BOOLEAN
          OBVIOUS
        <4> HIDE DEF r
        <4> QED BY <1>0, <4>1, <4>2
      <3>2. CASE replay # NoReplay
        BY <1>7, <1>r, <3>2 DEF InsertReplay, Recordings
      <3> QED BY <3>1, <3>2
    <2> QED BY <1>0, <1>r, <2>1, <2>2 DEF Recordings
  <1>8. CASE SyncStream(w)
    BY <1>0, <1>8, <1>r, <1>a, <1>j DEF SyncStream, ShowRecording, Recordings
  <1>9. CASE FinalUpdate(w)
    BY <1>0, <1>9, <1>r, <1>a, <1>j DEF FinalUpdate, ShowRecording, Recordings
  <1>10. CASE Die(w)
    BY <1>10, <1>r DEF Die, Unanswered, Recordings
  <1> QED BY <1>1, <1>2, <1>3, <1>4, <1>5, <1>6, <1>7, <1>8, <1>9, <1>10 DEF Seller, Work

\* Only a start and a stop touch the counts.
LEMMA Unseated ==
    ASSUME NEW w \in Workers, Seller(w) \/ Work(w) \/ Die(w), ~(GoLive(w) \/ EndStream(w))
    PROVE  UNCHANGED <<current, peak, room, calls, miscounted, doubled, unpeaked>>
  <1> USE DEF row, sockets, past, counts
  <1>1. CASE Receive(w)
    BY <1>1, Receptions
  <1>2. CASE Seller(w) \/ Die(w)
    BY <1>2 DEF Seller, Start, Stop, Rotate, Die
  <1>3. CASE Work(w) /\ ~Receive(w)
    BY <1>3 DEF Work, Announce, ListRecordings, DeleteInput, CreateInput, AssignInput,
                ReadStream, ReadReplay, InsertReplay, SyncStream, FinalUpdate
  <1> QED BY <1>1, <1>2, <1>3

\* A worker resets the counts at most.
LEMMA SeatsSteps ==
    ASSUME Typed, NEW w \in Workers, Seller(w) \/ Work(w) \/ Die(w)
    PROVE  Seats'
  <1>1. Cardinality(Viewers) \in Nat
    BY StreamsAssumption, FS_CardinalityType
  <1> USE DEF row, remote, sockets, past, local, Typed, Seats
  <1>2. CASE GoLive(w) \/ EndStream(w)
    BY <1>1, <1>2 DEF GoLive, EndStream
  <1>3. CASE ~(GoLive(w) \/ EndStream(w))
    BY <1>3, Unseated
  <1> QED BY <1>2, <1>3

-----------------------------------------------------------------------------
(* The provider and the viewers.                                           *)

\* What the provider does.
World == Record \/ \E n \in DOMAIN videos : Ready(n)

\* A recording starts or is complete.
LEMMA WorldSteps ==
    ASSUME Typed, World
    PROVE  Typed' /\ Len(videos) <= Len(videos')
  <1> DEFINE R == [input : Nat, ready : BOOLEAN]
  <1>0. videos \in Seq(R) /\ Len(videos) \in Nat /\ sessions \in Nat /\ made \in Nat
           /\ DOMAIN videos = 1 .. Len(videos)
    BY LenProperties DEF Typed, Recordings, Budgeted
  <1>1. UNCHANGED <<plan, left, row, replay, inputs, made, sockets, past, local>>
    BY DEF World, Record, Ready
  <1>2. Seats' /\ Budgeted'
    BY <1>1 DEF Typed, Seats, Budgeted, At, row, sockets, past, local
  <1>3. CASE Record
    <2> DEFINE v == [input |-> input, ready |-> FALSE]
    <2>1. v \in R /\ v.input \in 1 .. made
      BY <1>3 DEF Record, Typed, Recordings
    <2>2. videos' = Append(videos, v) /\ Len(videos) < sessions
             /\ events' = events \cup {<<Len(videos) + 1, "inprogress">>}
      BY <1>3 DEF Record
    <2> HIDE DEF v, R
    <2>3. /\ videos' \in Seq(R) /\ Len(videos') = Len(videos) + 1
          /\ videos'[Len(videos) + 1] = v
          /\ \A n \in 1 .. Len(videos) : videos'[n] = videos[n]
      <3>1. ASSUME NEW seq \in Seq(R), NEW elt \in R
            PROVE  /\ Append(seq, elt) \in Seq(R) /\ Len(Append(seq, elt)) = Len(seq) + 1
                   /\ Append(seq, elt)[Len(seq) + 1] = elt
                   /\ \A n \in 1 .. Len(seq) : Append(seq, elt)[n] = seq[n]
        BY AppendProperties
      <3> QED BY <1>0, <2>1, <2>2, <3>1
    <2>4. DOMAIN videos' = 1 .. Len(videos')
      BY <2>3, LenProperties
    <2>5. \A n \in DOMAIN videos' : videos'[n].input \in 1 .. made
      <3>1. \A n \in 1 .. Len(videos) : videos[n].input \in 1 .. made
        BY <1>0 DEF Typed, Recordings
      <3>2. DOMAIN videos' = 1 .. Len(videos) \cup {Len(videos) + 1}
        BY <1>0, <2>3, <2>4
      <3> QED BY <2>1, <2>3, <3>1, <3>2
    <2>6. events' \subseteq ((1 .. Len(videos')) \X {"inprogress", "ready"})
      BY <1>0, <2>2, <2>3 DEF Typed, Recordings
    <2>7. Recordings'
      BY <1>0, <1>1, <2>2, <2>3, <2>5, <2>6 DEF Typed, Recordings, row, past, R
    <2>8. Jobs'
      BY <1>0, <1>1, <2>3 DEF Typed, Jobs, Job, local
    <2> QED BY <1>0, <1>2, <2>3, <2>7, <2>8 DEF Typed
  <1>4. ASSUME NEW n \in DOMAIN videos, Ready(n) PROVE Typed' /\ Len(videos) <= Len(videos')
    <2>1. videos' = [videos EXCEPT ![n].ready = TRUE] /\ events' = events \cup {<<n, "ready">>}
      BY <1>4 DEF Ready
    <2>2. videos[n] \in R
      BY <1>0, ElementOfSeq
    <2>3. videos' = [videos EXCEPT ![n] = [videos[n] EXCEPT !.ready = TRUE]]
             /\ [videos[n] EXCEPT !.ready = TRUE] \in R
      BY <1>0, <2>1, <2>2
    <2>4. videos' \in Seq(R) /\ Len(videos') = Len(videos)
      BY <1>0, <2>3, ExceptSeq
    <2>5. /\ DOMAIN videos' = DOMAIN videos
          /\ \A k \in DOMAIN videos : videos'[k].input = videos[k].input
      BY <1>0, <2>1, <2>2
    <2>6. Recordings'
      BY <1>0, <1>1, <2>1, <2>4, <2>5 DEF Typed, Recordings, row, past
    <2>7. Jobs'
      BY <1>1, <2>4 DEF Typed, Jobs, local
    <2> QED BY <1>0, <1>2, <2>4, <2>6, <2>7 DEF Typed
  <1> QED BY <1>3, <1>4 DEF World

\* What a handler of a socket leaves alone.
LEMMA Sidelong ==
    ASSUME Sockets
    PROVE  /\ UNCHANGED <<plan, status, input, hls, video, replay, remote, local>>
           /\ UNCHANGED <<sessions, announced, raced, crossed, leaky>>
           /\ left' = left \/ Spend("deaths")
  <1> USE DEF row, past
  <1>1. ASSUME NEW v \in Viewers, NEW kind, NEW count, Enter(v, kind, count)
        PROVE  /\ UNCHANGED <<plan, status, input, hls, video, replay, remote, local>>
               /\ UNCHANGED <<sessions, announced, raced, crossed, leaky, left>>
    BY <1>1 DEF Enter
  <1>2. ASSUME NEW v \in Viewers, NEW first,
               Join(v) \/ Leave(v) \/ Disconnect(v, first)
        PROVE  \E kind, count : Enter(v, kind, count)
    BY <1>2 DEF Join, Leave, Disconnect
  <1>3. ASSUME NEW c \in calls, Count(c) \/ WriteCount(c) \/ LoseCount(c)
        PROVE  /\ UNCHANGED <<plan, status, input, hls, video, replay, remote, local>>
               /\ UNCHANGED <<sessions, announced, raced, crossed, leaky>>
               /\ left' = left \/ Spend("deaths")
    BY <1>3 DEF Count, WriteCount, LoseCount
  <1> QED BY <1>1, <1>2, <1>3 DEF Sockets

\* A count is of viewers.
LEMMA SocketsSteps ==
    ASSUME Typed, Sockets
    PROVE  Typed'
  <1>0. /\ Cardinality(Viewers) \in Nat /\ IsFiniteSet(room) /\ Cardinality(room) \in Nat
        /\ Cardinality(room) <= Cardinality(Viewers)
    BY StreamsAssumption, FS_CardinalityType, FS_Subset DEF Typed, Seats
  <1>1. /\ UNCHANGED <<plan, status, input, hls, video, replay, remote, local>>
        /\ UNCHANGED <<sessions, announced>> /\ (left' = left \/ Spend("deaths"))
    BY Sidelong
  <1>2. Budgeted'
    BY <1>1, BudgetSame DEF Typed, Budgeted, remote, local
  <1>3. Jobs' /\ Recordings'
    BY <1>1 DEF Typed, Jobs, Recordings, remote, local
  <1>u. Uncounted \in 0 .. Uncounted /\ Uncounted = Cardinality(Viewers) + 1
    BY <1>0 DEF Uncounted
  <1>w. \A n \in 0 .. Cardinality(Viewers) : WithoutSelf(n) \in 0 .. Cardinality(Viewers)
    BY <1>0 DEF WithoutSelf
  <1>n. Cardinality(room) \in 0 .. Cardinality(Viewers)
    BY <1>0
  <1>c. ASSUME NEW k \in 0 .. Cardinality(Viewers) PROVE k \in 0 .. Uncounted
    BY <1>0, <1>u
  <1>s. Seats
    BY DEF Typed
  <1>4. ASSUME NEW v \in Viewers, NEW kind \in {"join", "leave", "gone"},
               NEW count \in 0 .. Uncounted, Enter(v, kind, count), room' \subseteq Viewers
        PROVE  Seats'
    <2>1. [by |-> v, kind |-> kind, count |-> count] \in Calls
      BY DEF Calls
    <2> QED BY <1>s, <1>4, <2>1 DEF Seats, Enter, row
  <1>5. ASSUME NEW v \in Viewers, Join(v) \/ Leave(v) PROVE Seats'
    <2>1. room' \subseteq Viewers
      BY <1>s, <1>5 DEF Join, Leave, Seats
    <2> QED BY <1>u, <1>4, <1>5, <2>1 DEF Join, Leave
  <1>6. ASSUME NEW v \in Viewers, NEW first \in BOOLEAN, Disconnect(v, first) PROVE Seats'
    <2>1. room' \subseteq Viewers
      BY <1>s, <1>6 DEF Disconnect, Seats
    <2>2. WithoutSelf(Cardinality(room)) \in 0 .. Uncounted
      BY <1>n, <1>w, <1>c
    <2>3. \/ Enter(v, "leave", WithoutSelf(Cardinality(room)))
          \/ Enter(v, "gone", Uncounted)
      BY <1>6 DEF Disconnect
    <2> QED BY <1>u, <1>4, <2>1, <2>2, <2>3
  <1>7. ASSUME NEW c \in calls, Count(c) PROVE Seats'
    <2>1. Size(c) \in 0 .. Cardinality(Viewers)
      BY <1>n, <1>w DEF Size
    <2>2. Size(c) \in 0 .. Uncounted /\ c \in Calls
      BY <1>c, <1>s, <2>1 DEF Seats
    <2>3. [c EXCEPT !.count = Size(c)] \in Calls
      BY <2>2 DEF Calls
    <2>4. /\ calls' = (calls \ {c}) \cup {[c EXCEPT !.count = Size(c)]}
          /\ UNCHANGED <<current, peak, room>>
      BY <1>7 DEF Count, row
    <2> QED BY <1>s, <2>3, <2>4 DEF Seats
  <1>8. ASSUME NEW c \in calls, WriteCount(c) PROVE Seats'
    <2>1. c.count \in 0 .. Uncounted /\ c.count # Uncounted
      BY <1>s, <1>8 DEF WriteCount, Seats, Calls
    <2>2. c.count \in 0 .. Cardinality(Viewers)
      BY <1>0, <1>u, <2>1
    <2> QED BY <1>s, <1>8, <2>2 DEF WriteCount, PeakAfter, Seats
  <1>9. ASSUME NEW c \in calls, LoseCount(c) PROVE Seats'
    BY <1>s, <1>9 DEF LoseCount, Seats, row
  <1>10. Seats'
    BY <1>5, <1>6, <1>7, <1>8, <1>9 DEF Sockets
  <1> QED BY <1>2, <1>3, <1>10 DEF Typed

\* A delivery that is rejected.
LEMMA Rejection ==
    ASSUME Typed, NEW w \in Workers, Reject(w)
    PROVE  /\ UNCHANGED <<plan, row, replay, inputs, made, videos, sockets, local>>
           /\ UNCHANGED <<sessions, announced, raced, crossed, leaky>>
           /\ UNCHANGED <<miscounted, doubled, unpeaked>>
           /\ events' \subseteq events /\ left'.deaths # plan.deaths /\ Typed'
  <1>1. /\ UNCHANGED <<plan, row, replay, inputs, made, videos, sockets, local>>
        /\ UNCHANGED <<sessions, announced, raced, crossed, leaky>>
        /\ UNCHANGED <<miscounted, doubled, unpeaked>>
        /\ events' \subseteq events /\ Spend("deaths")
    BY DEF Reject, Forget, counts
  <1>2. left'.deaths # plan.deaths
    <2>1. left.deaths \in Nat /\ plan.deaths \in Nat /\ left.deaths <= plan.deaths
          /\ left \in Budgets
      BY StreamsAssumption DEF Typed, Budgeted, Budgets
    <2>2. left'.deaths = left.deaths - 1
      BY <1>1, <2>1 DEF Spend, Budgets
    <2> QED BY <2>1, <2>2
  <1>3. Budgeted'
    BY <1>1, BudgetSame DEF Typed, Budgeted, row, local
  <1>4. Jobs' /\ Recordings' /\ Seats'
    BY <1>1 DEF Typed, Jobs, Recordings, Seats, row, sockets, local
  <1> QED BY <1>1, <1>2, <1>3, <1>4 DEF Typed

\* The types at the start.
LEMMA TypedInit == StreamInit => Typed
  <1> SUFFICES ASSUME StreamInit PROVE Typed
    OBVIOUS
  <1> USE DEF StreamInit
  <1>0. plan \in Budgets /\ Cardinality(Viewers) \in Nat
    BY StreamsAssumption, FS_CardinalityType
  <1>1. At({"start"}) = {} /\ At({"announce"}) = {} /\ At({"delete", "create"}) = {}
    BY DEF At
  <1>2. Budgeted
    <2>1. Cardinality({}) = 0 /\ IsFiniteSet({})
      BY FS_EmptySet
    <2>2. plan.starts \in Nat /\ plan.rotations \in Nat /\ plan.deaths \in Nat /\ left = plan
      BY <1>0 DEF Budgets
    <2>3. /\ Cardinality(At({"start"})) = 0 /\ IsFiniteSet(At({"start"}))
          /\ Cardinality(At({"announce"})) = 0 /\ IsFiniteSet(At({"announce"}))
          /\ Cardinality(At({"delete", "create"})) = 0 /\ IsFiniteSet(At({"delete", "create"}))
      BY <1>1, <2>1
    <2>4. at \in [Workers -> Labels]
      BY DEF Labels
    <2> QED BY <1>0, <2>2, <2>3, <2>4 DEF Budgeted
  <1>3. NoJob \in Job /\ LiveOf(1) \in Playbacks
    BY DEF NoJob, Job, Stub, Blank, Playbacks, LiveOf
  <1>4. Jobs
    <2>1. \A w \in Workers : job[w] = NoJob
      OBVIOUS
    <2>2. NoJob.input = 0 /\ NoJob.video = 0 /\ NoJob.of = 0 /\ made = 1 /\ Len(videos) = 0
      BY DEF NoJob, Stub
    <2>3. job \in [Workers -> Job]
      BY <1>3
    <2> QED BY <2>1, <2>2, <2>3 DEF Jobs
  <1>5. Recordings
    BY <1>3 DEF Recordings, NoReplay
  <1>6. Seats
    BY <1>0 DEF Seats
  <1> QED BY <1>2, <1>4, <1>5, <1>6 DEF Typed

\* The types are inductive.
LEMMA TypedKept == Typed /\ [StreamNext]_streamVars => Typed'
  <1> SUFFICES ASSUME Typed, [StreamNext]_streamVars PROVE Typed'
    OBVIOUS
  <1>1. ASSUME NEW w \in Workers, Seller(w) \/ Work(w) \/ Die(w) PROVE Typed'
    <2>1. Budgeted
      BY DEF Typed
    <2> QED BY <1>1, <2>1, BudgetSteps, JobsSteps, RecordingsSteps, SeatsSteps DEF Typed
  <1>2. CASE World
    BY <1>2, WorldSteps
  <1>3. CASE Sockets
    BY <1>3, SocketsSteps
  <1>4. CASE UNCHANGED streamVars
    BY <1>4 DEF streamVars, row, remote, sockets, past, local, Typed, Budgeted, At, Jobs,
                Recordings, Seats
  <1>5. ASSUME NEW w \in Workers, Reject(w) PROVE Typed'
    BY <1>5, Rejection
  <1> QED BY <1>1, <1>2, <1>3, <1>4, <1>5 DEF StreamNext, World

-----------------------------------------------------------------------------
(* What the followers are told.                                            *)

\* Unless two starts overlapped: one start is under way at most, it knows whether the
\* stream is live, and every announcement, made or to be made, has a session.
Announcements ==
    ~raced =>
        /\ \A v, w \in Workers : (at[v] = "start" /\ at[w] = "start") => v = w
        /\ \A w \in Workers : (at[w] = "start" /\ status = "live") => job[w].was = "live"
        /\ announced + Cardinality(At({"announce"})) <= sessions

\* A worker's step leaves the others where they are.
LEMMA Apart ==
    ASSUME Typed, NEW w \in Workers, Seller(w) \/ Work(w) \/ Die(w)
    PROVE  /\ \A v \in Workers : v # w => at'[v] = at[v] /\ job'[v] = job[v]
           /\ at \in [Workers -> Labels] /\ job \in [Workers -> Job]
  <1>1. at \in [Workers -> Labels] /\ job \in [Workers -> Job]
    BY DEF Typed, Budgeted, Jobs
  <1> USE <1>1 DEF MoveTo, Rest, past, local
  <1>2. CASE \/ Start(w) \/ Stop(w) \/ Rotate(w) \/ GoLive(w) \/ Announce(w) \/ EndStream(w)
             \/ Die(w)
    BY <1>2 DEF Start, Stop, Rotate, GoLive, Announce, EndStream, Die
  <1>3. CASE ListRecordings(w) \/ DeleteInput(w) \/ CreateInput(w) \/ AssignInput(w)
    BY <1>3 DEF ListRecordings, DeleteInput, CreateInput, AssignInput
  <1>4. CASE ReadStream(w) \/ ReadReplay(w)
    BY <1>4 DEF ReadStream, ReadReplay
  <1>6. CASE Receive(w)
    BY <1>6, ZenonT(40) DEF Receive
  <1>5. CASE InsertReplay(w) \/ SyncStream(w) \/ FinalUpdate(w)
    BY <1>5 DEF InsertReplay, SyncStream, FinalUpdate
  <1> QED BY <1>2, <1>3, <1>4, <1>5, <1>6 DEF Seller, Work

\* Starts, announcements, and the steps between them.
LEMMA AnnouncementsSteps ==
    ASSUME Typed, Announcements, NEW w \in Workers, Seller(w) \/ Work(w) \/ Die(w)
    PROVE  Announcements'
  <1>0. /\ sessions \in Nat /\ announced \in Nat /\ IsFiniteSet(At({"announce"}))
        /\ job[w] \in Job /\ Cardinality(At({"announce"})) \in Nat
        /\ status \in {"idle", "live", "ended"}
    BY FS_CardinalityType DEF Typed, Budgeted, Jobs
  <1>a. /\ \A v \in Workers : v # w => at'[v] = at[v] /\ job'[v] = job[v]
        /\ at \in [Workers -> Labels] /\ job \in [Workers -> Job]
    BY Apart
  <1> DEFINE S == {v \in Workers : at'[v] \in {"announce"}}
  <1>s. At({"announce"})' = S
    BY DEF At
  <1> DEFINE Goes(label) == at' = [at EXCEPT ![w] = label]
  <1>c. ASSUME NEW label, Goes(label)
        PROVE  Cardinality(S) \in Nat
                  /\ Cardinality(S) = Cardinality(At({"announce"}))
                        + (IF label = "announce" THEN 1 ELSE 0)
                        - (IF at[w] = "announce" THEN 1 ELSE 0)
    <2>1. /\ Cardinality(S) \in Nat
          /\ Cardinality(S) = Cardinality(At({"announce"}))
                  + (IF label \in {"announce"} THEN 1 ELSE 0)
                  - (IF at[w] \in {"announce"} THEN 1 ELSE 0)
      BY <1>0, <1>a, <1>c, Moved
    <2> QED BY <2>1
  <1> HIDE DEF S
  <1> SUFFICES ASSUME ~raced'
      PROVE  /\ \A u, v \in Workers : (at'[u] = "start" /\ at'[v] = "start") => u = v
             /\ \A v \in Workers :
                    (at'[v] = "start" /\ status' = "live") => job'[v].was = "live"
             /\ announced' + Cardinality(S) <= sessions'
    BY <1>s DEF Announcements
  <1> DEFINE Plainly(label) ==
          /\ at' = [at EXCEPT ![w] = label] /\ label \notin {"start", "announce"}
          /\ status' \in {status, "ended"} /\ UNCHANGED <<announced, sessions, raced>>
  <1>p. ASSUME NEW label, Plainly(label)
        PROVE  /\ \A u, v \in Workers : (at'[u] = "start" /\ at'[v] = "start") => u = v
               /\ \A v \in Workers :
                    (at'[v] = "start" /\ status' = "live") => job'[v].was = "live"
               /\ announced' + Cardinality(S) <= sessions'
    <2>0. /\ Goes(label) /\ at'[w] = label /\ ~raced /\ label # "announce"
      BY <1>a, <1>p
    <2>1. /\ Cardinality(S) \in Nat /\ Cardinality(S) <= Cardinality(At({"announce"}))
          /\ at'[w] = label /\ ~raced
      <3> HIDE DEF Goes
      <3> QED BY <1>0, <1>c, <2>0
    <2>2. announced' + Cardinality(S) <= sessions'
      BY <1>0, <1>p, <2>1 DEF Announcements
    <2> QED BY <1>a, <1>p, <2>1, <2>2 DEF Announcements
  <1> USE DEF row, remote, sockets, past, local, MoveTo, Rest
  <1>1. CASE Start(w)
    <2>1. /\ ~raced /\ \A v \in Workers : at[v] # "start"
          /\ UNCHANGED <<status, announced, sessions>> /\ at' = [at EXCEPT ![w] = "start"]
          /\ job' = [job EXCEPT ![w].was = status]
      BY <1>1 DEF Start
    <2>2. job'[w].was = status /\ at'[w] = "start"
      BY <1>0, <1>a, <2>1 DEF Job
    <2>3. Cardinality(S) \in Nat /\ Cardinality(S) <= Cardinality(At({"announce"}))
      <3>1. Goes("start") /\ "start" # "announce"
        BY <2>1
      <3> HIDE DEF Goes
      <3> QED BY <1>0, <1>c, <3>1
    <2>4. announced' + Cardinality(S) <= sessions'
      BY <1>0, <2>1, <2>3 DEF Announcements
    <2> QED BY <1>a, <2>1, <2>2, <2>4
  <1>2. CASE GoLive(w)
    <2> DEFINE label == AfterStart(job[w].was)
    <2>1. /\ ~raced /\ at[w] = "start" /\ UNCHANGED announced /\ at' = [at EXCEPT ![w] = label]
          /\ sessions' = IF status = "live" THEN sessions ELSE sessions + 1
      BY <1>2 DEF GoLive
    <2>2. label = IF job[w].was = "live" THEN "idle" ELSE "announce"
      BY DEF AfterStart
    <2> HIDE DEF label
    <2>3. /\ Cardinality(S) \in Nat
          /\ Cardinality(S) = Cardinality(At({"announce"}))
                                  + (IF label = "announce" THEN 1 ELSE 0)
      <3>1. Goes(label) /\ at[w] # "announce"
        BY <2>1
      <3> HIDE DEF Goes
      <3> QED BY <1>0, <1>c, <3>1
    <2>4. status = "live" => label = "idle"
      BY <2>1, <2>2 DEF Announcements
    <2>5. announced + Cardinality(At({"announce"})) <= sessions
      BY <2>1 DEF Announcements
    <2>6. announced' + Cardinality(S) <= sessions'
      BY <1>0, <2>1, <2>2, <2>3, <2>4, <2>5
    <2>7. at'[w] # "start"
      BY <1>a, <2>1, <2>2
    <2>8. \A v \in Workers : at'[v] # "start"
      BY <1>a, <2>1, <2>7 DEF Announcements
    <2> QED BY <2>6, <2>8
  <1>3. CASE Announce(w)
    <2>1. /\ ~raced /\ at[w] = "announce" /\ announced' = announced + 1
          /\ UNCHANGED <<status, sessions>> /\ at' = [at EXCEPT ![w] = "idle"]
      BY <1>3 DEF Announce
    <2>2. Cardinality(S) = Cardinality(At({"announce"})) - 1 /\ Cardinality(S) \in Nat
      <3>1. Goes("idle") /\ at[w] = "announce" /\ "idle" # "announce"
        BY <2>1
      <3> HIDE DEF Goes
      <3> QED BY <1>0, <1>c, <3>1
    <2>3. announced' + Cardinality(S) <= sessions'
      BY <1>0, <2>1, <2>2 DEF Announcements
    <2>4. at'[w] = "idle"
      BY <1>a, <2>1
    <2> QED BY <1>a, <2>1, <2>3, <2>4 DEF Announcements
  <1>4. CASE Stop(w) \/ EndStream(w) \/ Rotate(w) \/ DeleteInput(w) \/ CreateInput(w)
    <2>1. \E label \in {"stop", "list", "delete", "create", "assign"} : Plainly(label)
      BY <1>4 DEF Stop, EndStream, Rotate, DeleteInput, CreateInput
    <2> QED BY <1>p, <2>1
  <1>5. CASE ListRecordings(w) \/ AssignInput(w) \/ Die(w) \/ SyncStream(w) \/ FinalUpdate(w)
    <2>1. \E label \in {"idle", "look"} : Plainly(label)
      BY <1>5 DEF ListRecordings, AssignInput, Die, SyncStream, FinalUpdate
    <2> QED BY <1>p, <2>1
  <1>6. CASE ReadStream(w) \/ ReadReplay(w) \/ InsertReplay(w)
    <2>1. \E label \in {"replay", "insert", "sync", "final"} : Plainly(label)
      BY <1>6 DEF ReadStream, ReadReplay, InsertReplay
    <2> QED BY <1>p, <2>1
  <1>7. CASE Receive(w)
    <2>1. CASE UNCHANGED local
      <3>1. S = At({"announce"})
        BY <2>1 DEF S, At
      <3>2. UNCHANGED <<status, announced, sessions, raced>>
        BY <1>7, Receptions
      <3> QED BY <2>1, <3>1, <3>2 DEF Announcements
    <2>2. CASE at' = [at EXCEPT ![w] = "look"]
      <3>1. Plainly("look")
        BY <1>7, <2>2, Receptions
      <3> QED BY <1>p, <3>1
    <2> QED BY <1>7, <2>1, <2>2, Receptions
  <1> QED BY <1>1, <1>2, <1>3, <1>4, <1>5, <1>6, <1>7 DEF Seller, Work

-----------------------------------------------------------------------------
(* What is played while the first session lasts.                           *)

\* Until the first session is over nobody works on a recording, and the player's URL is
\* the live one.
FirstSession ==
    /\ \A w \in Workers : at[w] = "stop" => sessions > 0
    /\ (sessions = 0 \/ (sessions = 1 /\ status = "live")) =>
           /\ hls[1] = "live"
           /\ \A e \in events : e[2] # "ready"
           /\ \A w \in Workers :
                  at[w] \notin {"list", "look", "replay", "insert", "sync", "final"}

\* Before the end of the first session there is nothing to replay.
LEMMA FirstSessionSteps ==
    ASSUME Typed, FirstSession, NEW w \in Workers, Seller(w) \/ Work(w) \/ Die(w)
    PROVE  FirstSession'
  <1>0. sessions \in Nat /\ at \in [Workers -> Labels]
    BY DEF Typed, Budgeted
  <1>a. \A v \in Workers : v # w => at'[v] = at[v]
    BY Apart
  <1> DEFINE Late == {"list", "look", "replay", "insert", "sync", "final"}
             P == sessions = 0 \/ (sessions = 1 /\ status = "live")
             Q == sessions' = 0 \/ (sessions' = 1 /\ status' = "live")
             Moves(label) ==
                 /\ at' = [at EXCEPT ![w] = label] /\ sessions' \in Nat /\ sessions <= sessions'
                 /\ label = "stop" => sessions' > 0
                 /\ Q => P /\ hls'[1] = "live" /\ label \notin Late /\ events' \subseteq events
  <1>k. ASSUME NEW label, Moves(label)
        PROVE  FirstSession'
    <2>1. at'[w] = label
      BY <1>0, <1>k
    <2>2. \A v \in Workers : at'[v] = "stop" => sessions' > 0
      BY <1>0, <1>a, <1>k, <2>1 DEF FirstSession
    <2>3. ASSUME Q PROVE /\ hls'[1] = "live" /\ \A e \in events' : e[2] # "ready"
                         /\ \A v \in Workers : at'[v] \notin Late
      BY <1>a, <1>k, <2>1, <2>3 DEF FirstSession
    <2> QED BY <2>2, <2>3 DEF FirstSession
  <1> USE <1>0 DEF row, remote, sockets, past, local, MoveTo, Rest
  <1>1. CASE GoLive(w)
    <2> DEFINE label == AfterStart(job[w].was)
    <2>1. label \in {"idle", "announce"}
      BY DEF AfterStart
    <2>2. /\ at' = [at EXCEPT ![w] = label] /\ UNCHANGED <<hls, events>> /\ status' = "live"
          /\ sessions' = IF status = "live" THEN sessions ELSE sessions + 1
      BY <1>1 DEF GoLive
    <2> HIDE DEF label
    <2>3. sessions' \in Nat /\ sessions <= sessions' /\ (Q => P)
      BY <2>2
    <2>4. Moves(label)
      BY <2>1, <2>2, <2>3 DEF FirstSession
    <2> QED BY <1>k, <2>4
  <1>2. CASE EndStream(w)
    <2>1. sessions > 0 /\ status' = "ended" /\ sessions' = sessions
      BY <1>2 DEF EndStream, FirstSession
    <2>2. ~Q
      BY <2>1
    <2>3. Moves("list")
      BY <1>2, <2>1, <2>2 DEF EndStream
    <2> QED BY <1>k, <2>3
  <1>3. CASE Start(w) \/ Stop(w) \/ Rotate(w) \/ Announce(w) \/ DeleteInput(w) \/ CreateInput(w)
              \/ Die(w)
    <2>1. UNCHANGED <<sessions, status, hls, events>>
      BY <1>3 DEF Start, Stop, Rotate, Announce, DeleteInput, CreateInput, Die, Unanswered
    <2>2. PICK label \in {"start", "stop", "delete", "idle", "create", "assign"} :
              at' = [at EXCEPT ![w] = label] /\ (label = "stop" => sessions > 0)
      BY <1>3 DEF Start, Stop, Rotate, Announce, DeleteInput, CreateInput, Die
    <2>3. Moves(label)
      BY <2>1, <2>2 DEF FirstSession
    <2> QED BY <1>k, <2>3
  <1>4. CASE AssignInput(w)
    <2>1. /\ UNCHANGED <<sessions, status, events>> /\ hls'[1] = "live"
          /\ at' = [at EXCEPT ![w] = "idle"]
      BY <1>4 DEF AssignInput, LiveOf
    <2>2. Moves("idle")
      BY <2>1 DEF FirstSession
    <2> QED BY <1>k, <2>2
  <1>5. CASE ListRecordings(w) \/ ReadStream(w) \/ ReadReplay(w) \/ InsertReplay(w)
                \/ SyncStream(w) \/ FinalUpdate(w)
    <2>1. at[w] \in Late /\ UNCHANGED <<sessions, status>>
      BY <1>5 DEF ListRecordings, ReadStream, ReadReplay, InsertReplay, SyncStream, FinalUpdate
    <2>2. PICK label \in {"idle", "look", "replay", "insert", "sync", "final"} :
              at' = [at EXCEPT ![w] = label]
      BY <1>5 DEF ListRecordings, ReadStream, ReadReplay, InsertReplay, SyncStream, FinalUpdate
    <2>3. ~P
      BY <2>1 DEF FirstSession
    <2>4. Moves(label)
      BY <2>1, <2>2, <2>3
    <2> QED BY <1>k, <2>4
  <1>6. CASE Receive(w)
    <2>0. UNCHANGED <<sessions, status, hls>> /\ events' \subseteq events
      BY <1>6, Receptions
    <2>1. CASE UNCHANGED local
      BY <2>0, <2>1 DEF FirstSession
    <2>2. CASE ~UNCHANGED local
      <3>1. PICK e \in events : e[2] = "ready"
        BY <1>6, <2>2, Receptions
      <3>2. ~P
        BY <3>1 DEF FirstSession
      <3>3. at' = [at EXCEPT ![w] = "look"]
        BY <1>6, <2>2, Receptions
      <3>4. Moves("look")
        BY <2>0, <3>2, <3>3
      <3> QED BY <1>k, <3>4
    <2> QED BY <2>1, <2>2
  <1> QED BY <1>1, <1>2, <1>3, <1>4, <1>5, <1>6 DEF Seller, Work

\* A recording is complete only after its session.
LEMMA FirstSessionWorld ==
    ASSUME Typed, FirstSession, World
    PROVE  FirstSession'
  <1>0. sessions \in Nat /\ Len(videos) \in Nat /\ DOMAIN videos = 1 .. Len(videos)
           /\ Len(videos) <= sessions
    BY LenProperties DEF Typed, Recordings, Budgeted
  <1>1. UNCHANGED <<sessions, status, hls, at>>
    BY DEF World, Record, Ready, row, past, local
  <1>2. CASE Record
    <2>1. events' = events \cup {<<Len(videos) + 1, "inprogress">>}
      BY <1>2 DEF Record
    <2>2. (\A e \in events : e[2] # "ready") => \A e \in events' : e[2] # "ready"
      BY <2>1
    <2> QED BY <1>1, <2>2 DEF FirstSession
  <1>3. ASSUME NEW n \in DOMAIN videos, Ready(n) PROVE FirstSession'
    <2>1. status # "live" \/ n < sessions
      BY <1>3 DEF Ready
    <2>2. ~(sessions = 0 \/ (sessions = 1 /\ status = "live"))
      BY <1>0, <2>1
    <2> QED BY <1>1, <2>2 DEF FirstSession
  <1> QED BY <1>2, <1>3 DEF World

-----------------------------------------------------------------------------
(* The live inputs.                                                        *)

\* A new input that is about to be stored exists, is not yet stored, and nobody is about
\* to delete or to store it too.
Assigned ==
    \A w \in Workers : (at[w] = "assign" /\ job[w].input # Stub) =>
        /\ job[w].input \in inputs /\ job[w].input # input
        /\ \A v \in Workers : (at[v] = "delete" \/ (at[v] = "assign" /\ v # w)) =>
               job[v].input # job[w].input

\* No worker has died.
Undying == left.deaths = plan.deaths

\* The input on record exists, is the stub, or a rotation is under way.
Reachable == Undying => input = Stub \/ input \in inputs \/ \E w \in Workers : Rotating(w)

\* Rotations one by one, none with an error of the provider: the inputs there are, at
\* each point of a rotation.
Only ==
    (Undying /\ ~crossed /\ ~leaky) =>
        /\ \A v, w \in Workers : (Rotating(v) /\ Rotating(w)) => v = w
        /\ (\A w \in Workers : ~Rotating(w)) => inputs = {input}
        /\ \A w \in Workers :
               /\ at[w] = "delete" => inputs = {input} /\ job[w].input = input
               /\ at[w] = "create" => inputs = {}
               /\ at[w] = "assign" => inputs = {job[w].input}

\* The live inputs, on record and at the provider.
Inputs == Assigned /\ Reachable /\ Only

\* A step that turns nothing: it spends a fault at most.
LEMMA InputsSame ==
    ASSUME Inputs, UNCHANGED <<plan, inputs, input, at, job, crossed, leaky>>,
           left' = left \/ left'.deaths # plan'.deaths
    PROVE  Inputs'
  <1>1. Undying' => Undying
    BY DEF Undying
  <1>2. \A w \in Workers : Rotating(w)' <=> Rotating(w)
    BY DEF Rotating
  <1>3. Assigned'
    BY DEF Inputs, Assigned
  <1>4. Reachable' /\ Only'
    BY <1>1, <1>2 DEF Inputs, Reachable, Only
  <1> QED BY <1>3, <1>4 DEF Inputs

\* Rotations, alone and across each other.
LEMMA InputsSteps ==
    ASSUME Typed, Inputs, NEW w \in Workers, Seller(w) \/ Work(w) \/ Die(w)
    PROVE  Inputs'
  <1>0. /\ made \in Nat /\ inputs \subseteq 1 .. made /\ input \in 0 .. made /\ job[w] \in Job
        /\ \A v \in Workers : job[v].input \in Nat /\ job[v].input <= made
    BY DEF Typed, Budgeted, Recordings, Jobs, Job
  <1>l. /\ left \in Budgets /\ left.deaths \in Nat /\ plan.deaths \in Nat
        /\ left.deaths <= plan.deaths
    BY StreamsAssumption DEF Typed, Budgeted, Budgets
  <1>a. /\ \A v \in Workers : v # w => at'[v] = at[v] /\ job'[v] = job[v]
        /\ at \in [Workers -> Labels] /\ job \in [Workers -> Job]
    BY Apart
  <1>i. Assigned /\ Reachable /\ Only
    BY DEF Inputs
  <1> DEFINE Still == /\ UNCHANGED <<inputs, input, crossed, leaky, plan>>
                      /\ left'.deaths = left.deaths
             Turning == {"delete", "create", "assign"}
             Quiet == Still /\ at[w] \notin Turning /\ at'[w] \notin Turning
  <1>q. ASSUME Quiet PROVE Inputs'
    <2>1. \A v \in Workers : Rotating(v)' <=> Rotating(v)
      BY <1>a, <1>q DEF Rotating
    <2>2. Assigned'
      BY <1>a, <1>i, <1>q DEF Assigned
    <2>3. Undying' <=> Undying
      BY <1>q DEF Undying
    <2>4. Reachable'
      BY <1>i, <1>q, <2>1, <2>3 DEF Reachable
    <2>5. Only'
      BY <1>a, <1>i, <1>q, <2>1, <2>3 DEF Only
    <2> QED BY <2>2, <2>4, <2>5 DEF Inputs
  <1>s. ASSUME NEW what \in {"starts", "stops", "rotations"}, Spend(what)
        PROVE  left'.deaths = left.deaths
    BY <1>l, <1>s DEF Spend, Budgets
  <1> USE DEF row, remote, sockets, past, local, MoveTo, Rest
  <1>1. CASE Start(w) \/ Stop(w)
    <2>1. Quiet
      BY <1>1, <1>a, <1>s DEF Start, Stop
    <2> QED BY <1>q, <2>1
  <1>2. CASE Announce(w) \/ EndStream(w) \/ ListRecordings(w) \/ ReadStream(w) \/ ReadReplay(w)
    <2>1. Quiet
      BY <1>2, <1>a DEF Announce, EndStream, ListRecordings, ReadStream, ReadReplay
    <2> QED BY <1>q, <2>1
  <1>3. CASE InsertReplay(w) \/ SyncStream(w) \/ FinalUpdate(w)
    <2>1. Quiet
      BY <1>3, <1>a DEF InsertReplay, SyncStream, FinalUpdate
    <2> QED BY <1>q, <2>1
  <1>4. CASE GoLive(w)
    <2>1. at'[w] \in {"idle", "announce"}
      BY <1>4, <1>a DEF GoLive, AfterStart
    <2>2. Quiet
      BY <1>4, <2>1 DEF GoLive
    <2> QED BY <1>q, <2>2
  <1>5. CASE Receive(w)
    <2>1. UNCHANGED <<inputs, input, crossed, leaky, plan, left>>
      BY <1>5, Receptions
    <2>2. (at[w] \notin Turning /\ at'[w] \notin Turning) \/ UNCHANGED local
      BY <1>5, <1>a, Receptions
    <2>3. CASE at[w] \notin Turning /\ at'[w] \notin Turning
      BY <1>q, <2>1, <2>3
    <2>4. CASE UNCHANGED local
      BY <1>i, <2>1, <2>4 DEF Inputs, Assigned, Reachable, Only, Undying, Rotating
    <2> QED BY <2>2, <2>3, <2>4
  <1>6. CASE Die(w)
    <2>1. /\ UNCHANGED <<inputs, input, plan>> /\ at' = [at EXCEPT ![w] = "idle"]
          /\ left' = [left EXCEPT !["deaths"] = @ - 1] /\ left.deaths > 0
      BY <1>6 DEF Die, Spend
    <2>2. left'.deaths = left.deaths - 1
      BY <1>l, <2>1 DEF Budgets
    <2>3. ~Undying'
      BY <1>l, <2>1, <2>2 DEF Undying
    <2>4. at'[w] = "idle"
      BY <1>a, <2>1
    <2>5. Assigned'
      BY <1>a, <1>i, <2>1, <2>4 DEF Assigned
    <2> QED BY <2>3, <2>5 DEF Inputs, Reachable, Only
  <1>7. CASE Rotate(w)
    <2>1. /\ at[w] = "idle" /\ at' = [at EXCEPT ![w] = "delete"] /\ UNCHANGED <<inputs, input>>
          /\ job' = [job EXCEPT ![w].input = input] /\ UNCHANGED <<leaky, plan>>
          /\ crossed' = (crossed \/ \E v \in Workers : Rotating(v))
      BY <1>7 DEF Rotate
    <2>2. at'[w] = "delete" /\ job'[w].input = input
      BY <1>0, <1>a, <2>1 DEF Job
    <2>3. left'.deaths = left.deaths
      BY <1>7, <1>s DEF Rotate
    <2>4. Assigned'
      BY <1>a, <1>i, <2>1, <2>2 DEF Assigned
    <2>5. Reachable'
      BY <2>2 DEF Reachable, Rotating
    <2>6. ASSUME Undying', ~crossed', ~leaky'
          PROVE  /\ \A u, v \in Workers : (Rotating(u)' /\ Rotating(v)') => u = v
                 /\ \A v \in Workers : Rotating(v)' => v = w
                 /\ inputs = {input}
      <3>1. Undying /\ ~crossed /\ ~leaky /\ \A v \in Workers : ~Rotating(v)
        BY <2>1, <2>3, <2>6 DEF Undying
      <3>2. inputs = {input}
        BY <1>i, <3>1 DEF Only
      <3>3. \A v \in Workers : Rotating(v)' => v = w
        BY <1>a, <3>1 DEF Rotating
      <3> QED BY <3>2, <3>3
    <2>7. Only'
      BY <2>1, <2>2, <2>6 DEF Only, Rotating
    <2> QED BY <2>4, <2>5, <2>7 DEF Inputs
  <1>8. CASE DeleteInput(w)
    <2>1. /\ at[w] = "delete" /\ at' = [at EXCEPT ![w] = "create"]
          /\ UNCHANGED <<job, input, crossed, plan, left>>
          /\ \/ inputs' = inputs \ {job[w].input} /\ leaky' = leaky
             \/ inputs' = inputs /\ leaky' = TRUE
      BY <1>8 DEF DeleteInput, Remaining
    <2>2. at'[w] = "create"
      BY <1>a, <2>1
    <2>3. Assigned'
      BY <1>a, <1>i, <2>1, <2>2 DEF Assigned
    <2>4. Reachable'
      BY <2>2 DEF Reachable, Rotating
    <2>5. \A v \in Workers : Rotating(v)' <=> Rotating(v)
      BY <1>a, <2>1, <2>2 DEF Rotating
    <2>6. ASSUME Undying', ~crossed', ~leaky'
          PROVE  /\ \A u, v \in Workers : (Rotating(u) /\ Rotating(v)) => u = v
                 /\ inputs' = {} /\ Rotating(w)
      BY <1>i, <2>1, <2>6 DEF Undying, Only, Rotating
    <2>7. Only'
      BY <2>2, <2>5, <2>6 DEF Only, Rotating
    <2> QED BY <2>3, <2>4, <2>7 DEF Inputs
  <1>9. CASE CreateInput(w)
    <2>0. /\ at[w] = "create" /\ at' = [at EXCEPT ![w] = "assign"]
          /\ UNCHANGED <<input, crossed, plan, left>>
      BY <1>9 DEF CreateInput
    <2>1. at'[w] = "assign"
      BY <1>a, <2>0
    <2>2. Reachable'
      BY <2>1 DEF Reachable, Rotating
    <2>3. \A v \in Workers : Rotating(v)' <=> Rotating(v)
      BY <1>a, <2>0, <2>1 DEF Rotating
    <2>4. CASE job' = [job EXCEPT ![w].input = made + 1] /\ inputs' = inputs \cup {made + 1}
                   /\ leaky' = leaky
      <3>1. job'[w].input = made + 1
        BY <1>0, <1>a, <2>4 DEF Job
      <3>2. made + 1 \notin inputs /\ made + 1 # input
               /\ \A v \in Workers : job[v].input # made + 1
        BY <1>0
      <3>3. Assigned'
        BY <1>a, <1>i, <2>0, <2>1, <2>4, <3>1, <3>2 DEF Assigned
      <3>4. ASSUME Undying', ~crossed', ~leaky'
            PROVE  /\ \A u, v \in Workers : (Rotating(u) /\ Rotating(v)) => u = v
                   /\ inputs' = {job'[w].input} /\ Rotating(w)
        BY <1>i, <2>0, <2>4, <3>1, <3>4 DEF Undying, Only, Rotating
      <3>5. Only'
        BY <2>1, <2>3, <3>4 DEF Only, Rotating
      <3> QED BY <2>2, <3>3, <3>5 DEF Inputs
    <2>5. CASE job' = [job EXCEPT ![w].input = Stub] /\ leaky' = TRUE /\ inputs' = inputs
      <3>1. job'[w].input = Stub
        BY <1>0, <1>a, <2>5 DEF Job
      <3>2. Assigned'
        BY <1>a, <1>i, <2>0, <2>1, <2>5, <3>1 DEF Assigned
      <3> QED BY <2>2, <2>5, <3>2 DEF Inputs, Only
    <2> QED BY <1>9, <2>4, <2>5 DEF CreateInput
  <1>10. CASE AssignInput(w)
    <2>1. /\ at[w] = "assign" /\ at' = [at EXCEPT ![w] = "idle"] /\ input' = job[w].input
          /\ UNCHANGED <<inputs, crossed, leaky, plan, left>>
      BY <1>10 DEF AssignInput, NewInput
    <2>2. at'[w] = "idle"
      BY <1>a, <2>1
    <2>3. Assigned'
      BY <1>a, <1>i, <2>1, <2>2 DEF Assigned
    <2>4. input' = Stub \/ input' \in inputs'
      BY <1>i, <2>1 DEF Assigned
    <2>5. Reachable'
      BY <2>4 DEF Reachable
    <2>6. ASSUME Undying', ~crossed', ~leaky'
          PROVE  inputs' = {input'} /\ \A v \in Workers : ~Rotating(v)'
      <3>1. Undying /\ ~crossed /\ ~leaky /\ Rotating(w)
        BY <2>1, <2>6 DEF Undying, Rotating
      <3>2. inputs = {job[w].input} /\ \A v \in Workers : Rotating(v) => v = w
        BY <1>i, <2>1, <3>1 DEF Only
      <3> QED BY <1>a, <2>1, <2>2, <3>2 DEF Rotating
    <2>7. Only'
      BY <2>6 DEF Only, Rotating
    <2> QED BY <2>3, <2>5, <2>7 DEF Inputs
  <1> QED BY <1>1, <1>2, <1>3, <1>4, <1>5, <1>6, <1>7, <1>8, <1>9, <1>10 DEF Seller, Work

-----------------------------------------------------------------------------
(* The counts.                                                             *)

\* Since a handler ran alone: it is the only one at work, what it counted is what there
\* is, and so is what it wrote, unless it left out a viewer who had gone already.
Sole ==
    ~miscounted =>
        /\ \A c, d \in calls : c = d
        /\ \A c \in calls :
               IF c.kind = "gone" THEN doubled ELSE c.count \in {Uncounted, Cardinality(room)}
        /\ (calls = {} /\ ~doubled) => current = Cardinality(room)

\* A join is being handled.
Coming == \E c \in calls : c.kind = "join"

\* The peak covers k, or will when a join that is on its way has written.
Covered(k) ==
    \/ k <= peak
    \/ \E c \in calls :
           /\ c.kind = "join"
           /\ k <= (IF c.count = Uncounted THEN Cardinality(room) ELSE c.count)

\* The room and every count that somebody who leaves is about to write are covered, and
\* the count on record is, or a join will overwrite it.
Peaks ==
    ~unpeaked =>
        /\ Covered(Cardinality(room)) /\ (Coming \/ current <= peak)
        /\ \A c \in calls : (c.kind # "join" /\ c.count # Uncounted) => Covered(c.count)

\* The counts, written one by one or not.
Counts == Sole /\ Peaks

\* What both parts of the invariant depend on.
Tally == <<current, peak, room, calls, miscounted, doubled, unpeaked>>

\* A step that leaves it alone.
LEMMA CountsSame == ASSUME Counts, UNCHANGED Tally PROVE Counts'
  BY DEF Counts, Sole, Peaks, Coming, Covered, Tally

\* Start and stop reset the counts.
LEMMA CountsSteps ==
    ASSUME Typed, Counts, NEW w \in Workers, Seller(w) \/ Work(w) \/ Die(w)
    PROVE  Counts'
  <1>1. Cardinality({}) = 0
    BY FS_EmptySet
  <1> USE DEF row, sockets, past, counts
  <1>2. CASE GoLive(w)
    <2>1. CASE UNCHANGED Tally
      BY <2>1, CountsSame
    <2>2. CASE /\ current' = 0 /\ peak' = 0 /\ UNCHANGED <<room, calls>>
               /\ miscounted' = Peopled /\ unpeaked' = Peopled
      <3>1. Sole'
        BY <1>1, <2>2 DEF Sole, Peopled
      <3>2. ASSUME ~unpeaked' PROVE room' = {} /\ calls' = {} /\ current' = 0 /\ peak' = 0
        BY <2>2, <3>2 DEF Peopled
      <3>3. ASSUME ~unpeaked'
            PROVE  Cardinality(room') <= peak' /\ current' <= peak' /\ calls' = {}
        BY <1>1, <3>2, <3>3
      <3>4. Peaks'
        BY <3>3 DEF Peaks, Covered
      <3> QED BY <3>1, <3>4 DEF Counts
    <2> QED BY <1>2, <2>1, <2>2 DEF GoLive, Tally
  <1>3. CASE EndStream(w)
    <2>1. /\ current' = 0 /\ UNCHANGED <<room, calls, peak, unpeaked>> /\ peak \in Nat
          /\ miscounted' = Peopled
      BY <1>3 DEF EndStream, Typed, Seats
    <2>2. Sole'
      BY <1>1, <2>1 DEF Sole, Peopled
    <2>3. current' <= peak'
      BY <2>1
    <2>4. \A k : Covered(k) => Covered(k)'
      BY <2>1 DEF Covered
    <2>5. Peaks'
      BY <2>1, <2>3, <2>4 DEF Peaks, Counts
    <2> QED BY <2>2, <2>5 DEF Counts
  <1>4. CASE ~(GoLive(w) \/ EndStream(w))
    BY <1>4, Unseated, CountsSame DEF Tally
  <1> QED BY <1>2, <1>3, <1>4

\* Of a handler that begins: what it does to the room, and what it has counted.
LEMMA Entrance ==
    ASSUME Typed, NEW v \in Viewers, NEW first \in BOOLEAN,
           Join(v) \/ Leave(v) \/ Disconnect(v, first)
    PROVE  \E n :
              /\ calls' = calls \cup {n} /\ n.count \in {Uncounted, Cardinality(room')}
              /\ n.kind \in {"join", "leave", "gone"}
              /\ (n.kind = "gone" <=> doubled') /\ miscounted' = (calls # {})
              /\ Cardinality(room) \in Nat /\ Cardinality(room') \in Nat
              /\ \/ /\ n.kind = "join" /\ n.count = Uncounted
                    /\ unpeaked' = (unpeaked /\ calls # {})
                    /\ Cardinality(room') = Cardinality(room) + 1
                 \/ /\ n.kind # "join" /\ unpeaked' = (unpeaked \/ Coming)
                    /\ Cardinality(room') = Cardinality(room) - 1
              /\ UNCHANGED <<current, peak>>
  <1>0. IsFiniteSet(room) /\ Cardinality(room) \in Nat
    BY StreamsAssumption, FS_CardinalityType, FS_Subset DEF Typed, Seats
  <1>e. ASSUME NEW kind \in {"join", "leave", "gone"}, NEW count, Enter(v, kind, count)
        PROVE  \E n :
                  /\ calls' = calls \cup {n} /\ n.count = count /\ n.kind = kind
                  /\ (n.kind = "gone" <=> doubled') /\ miscounted' = (calls # {})
                  /\ unpeaked' = IF n.kind = "join" THEN unpeaked /\ calls # {}
                                  ELSE unpeaked \/ Coming
                  /\ UNCHANGED <<current, peak>>
    <2> DEFINE m == [by |-> v, kind |-> kind, count |-> count]
    <2>1. m.count = count /\ m.kind = kind /\ calls' = calls \cup {m}
      BY <1>e DEF Enter
    <2>2. /\ miscounted' = (calls # {}) /\ doubled' = (kind = "gone")
          /\ UNCHANGED <<current, peak>>
          /\ unpeaked' = IF kind = "join" THEN unpeaked /\ calls # {} ELSE unpeaked \/ Coming
      BY <1>e DEF Enter, row, Coming
    <2> HIDE DEF m
    <2> QED BY <2>1, <2>2
  <1>1. CASE Join(v)
    <2>1. Cardinality(room') = Cardinality(room) + 1
      BY <1>0, <1>1, FS_AddElement DEF Join
    <2> QED BY <1>0, <1>1, <1>e, <2>1 DEF Join
  <1>2. ASSUME v \in room, room' = room \ {v}
        PROVE  Cardinality(room') = Cardinality(room) - 1 /\ Cardinality(room') \in Nat
    <2>1. IsFiniteSet(room') /\ Cardinality(room') = Cardinality(room) - 1
      BY <1>0, <1>2, FS_RemoveElement
    <2> QED BY <2>1, FS_CardinalityType
  <1>3. CASE Leave(v)
    BY <1>0, <1>2, <1>3, <1>e DEF Leave
  <1>4. CASE Disconnect(v, first)
    <2>1. Cardinality(room') = Cardinality(room) - 1 /\ Cardinality(room') \in Nat
      BY <1>2, <1>4 DEF Disconnect
    <2>2. WithoutSelf(Cardinality(room)) = Cardinality(room')
      BY <1>0, <2>1 DEF WithoutSelf
    <2>3. Enter(v, "leave", Cardinality(room')) \/ Enter(v, "gone", Uncounted)
      BY <1>4, <2>2 DEF Disconnect
    <2>4. CASE Enter(v, "leave", Cardinality(room'))
      BY <1>0, <1>e, <2>1, <2>4
    <2>5. CASE Enter(v, "gone", Uncounted)
      BY <1>0, <1>e, <2>1, <2>5
    <2> QED BY <2>3, <2>4, <2>5
  <1> QED BY <1>1, <1>3, <1>4

\* A handler that runs alone.
LEMMA SoleSockets ==
    ASSUME Typed, Counts, Sockets
    PROVE  Sole'
  <1>0. Sole
    BY DEF Counts
  <1> USE DEF row, past, counts
  <1>1. ASSUME NEW v \in Viewers, NEW first \in BOOLEAN,
               Join(v) \/ Leave(v) \/ Disconnect(v, first)
        PROVE Sole'
    <2>1. PICK n : /\ calls' = calls \cup {n} /\ n.count \in {Uncounted, Cardinality(room')}
                   /\ (n.kind = "gone" <=> doubled') /\ miscounted' = (calls # {})
      BY <1>1, Entrance
    <2>2. ASSUME ~miscounted'
          PROVE  calls' = {n} /\ (n.kind = "gone" => doubled')
      BY <2>1, <2>2
    <2> QED BY <2>1, <2>2 DEF Sole
  <1>2. ASSUME NEW c \in calls, Count(c) PROVE Sole'
    <2>1. /\ calls' = (calls \ {c}) \cup {[c EXCEPT !.count = Size(c)]}
          /\ UNCHANGED <<miscounted, doubled, room>>
      BY <1>2 DEF Count
    <2>2. c \in Calls
      BY DEF Typed, Seats
    <2> DEFINE d == [c EXCEPT !.count = Size(c)]
    <2>3. d.count = Size(c) /\ d.kind = c.kind
      BY <2>2 DEF Calls
    <2>4. calls' = (calls \ {c}) \cup {d}
      BY <2>1
    <2> HIDE DEF d
    <2>5. ASSUME ~miscounted'
          PROVE  /\ calls' = {d}
                 /\ IF d.kind = "gone" THEN doubled' ELSE d.count = Cardinality(room')
      BY <1>0, <2>1, <2>3, <2>4, <2>5 DEF Sole, Size
    <2> QED BY <2>5 DEF Sole
  <1>3. ASSUME NEW c \in calls, WriteCount(c) PROVE Sole'
    BY <1>0, <1>3 DEF WriteCount, Sole
  <1>4. ASSUME NEW c \in calls, LoseCount(c) PROVE Sole'
    BY <1>4 DEF LoseCount, Sole
  <1> QED BY <1>1, <1>2, <1>3, <1>4 DEF Sockets

\* What was covered still is when the room does not shrink and no join ends.
LEMMA Covering ==
    ASSUME Typed, Cardinality(room) \in Nat, Cardinality(room') \in Nat,
           Cardinality(room) <= Cardinality(room'), UNCHANGED peak,
           \A c \in calls : c.kind = "join" => c \in calls'
    PROVE  \A k \in Nat : Covered(k) => Covered(k)'
  <1> SUFFICES ASSUME NEW k \in Nat, Covered(k) PROVE Covered(k)'
    OBVIOUS
  <1>1. CASE k <= peak
    BY <1>1 DEF Covered
  <1>2. ASSUME NEW c \in calls, c.kind = "join",
               k <= (IF c.count = Uncounted THEN Cardinality(room) ELSE c.count)
        PROVE  Covered(k)'
    <2>1. k <= (IF c.count = Uncounted THEN Cardinality(room') ELSE c.count)
      BY <1>2
    <2> QED BY <1>2, <2>1 DEF Covered
  <1> QED BY <1>1, <1>2 DEF Covered

\* Handlers that overlap.
LEMMA PeaksSockets ==
    ASSUME Typed, Counts, Sockets
    PROVE  Peaks'
  <1>0. /\ IsFiniteSet(room) /\ Cardinality(room) \in Nat /\ Peaks
        /\ calls \subseteq Calls /\ peak \in Nat /\ current \in Nat
        /\ Cardinality(Viewers) \in Nat /\ Cardinality(room) <= Cardinality(Viewers)
    BY StreamsAssumption, FS_CardinalityType, FS_Subset DEF Typed, Seats, Counts
  <1>c. \A c \in calls : c.count \in Nat
    <2>1. Uncounted \in Nat
      BY <1>0 DEF Uncounted
    <2> QED BY <1>0, <2>1 DEF Calls
  <1>u. Cardinality(room) # Uncounted
    BY <1>0 DEF Uncounted
  <1> SUFFICES ASSUME ~unpeaked' PROVE Peaks'
    BY DEF Peaks
  <1> USE DEF row, past, counts
  <1>1. ASSUME NEW v \in Viewers, NEW first \in BOOLEAN,
               Join(v) \/ Leave(v) \/ Disconnect(v, first)
        PROVE  Peaks'
    <2>1. PICK n :
              /\ calls' = calls \cup {n} /\ n.count \in {Uncounted, Cardinality(room')}
              /\ Cardinality(room') \in Nat
              /\ \/ /\ n.kind = "join" /\ n.count = Uncounted
                    /\ unpeaked' = (unpeaked /\ calls # {})
                    /\ Cardinality(room') = Cardinality(room) + 1
                 \/ /\ n.kind # "join" /\ unpeaked' = (unpeaked \/ Coming)
                    /\ Cardinality(room') = Cardinality(room) - 1
              /\ UNCHANGED <<current, peak>>
      BY <1>1, Entrance
    <2>2. CASE /\ n.kind = "join" /\ n.count = Uncounted
               /\ unpeaked' = (unpeaked /\ calls # {})
               /\ Cardinality(room') = Cardinality(room) + 1
      <3>1. Covered(Cardinality(room))' /\ Coming'
        <4>1. n \in calls' /\ Cardinality(room') <= Cardinality(room')
          BY <2>1
        <4> QED BY <2>2, <4>1 DEF Covered, Coming
      <3>2. CASE calls = {}
        <4>1. \A c \in calls' : c.kind = "join"
          BY <2>1, <2>2, <3>2
        <4> QED BY <3>1, <4>1 DEF Peaks
      <3>3. CASE ~unpeaked
        <4>1. \A k \in Nat : Covered(k) => Covered(k)'
          <5>1. Cardinality(room) <= Cardinality(room')
            BY <1>0, <2>2
          <5> QED BY <1>0, <2>1, <5>1, Covering
        <4>2. ASSUME NEW c \in calls', c.kind # "join", c.count # Uncounted
              PROVE  Covered(c.count)'
          <5>1. c \in calls
            BY <2>1, <2>2, <4>2
          <5>2. Covered(c.count)
            BY <1>0, <3>3, <4>2, <5>1 DEF Peaks
          <5> QED BY <1>c, <4>1, <5>1, <5>2
        <4> QED BY <3>1, <4>2 DEF Peaks
      <3> QED BY <2>2, <3>2, <3>3
    <2>3. CASE /\ n.kind # "join" /\ unpeaked' = (unpeaked \/ Coming)
               /\ Cardinality(room') = Cardinality(room) - 1
      <3>1. ~unpeaked /\ ~Coming
        BY <2>3
      <3>2. \A k : Covered(k) => k <= peak
        BY <3>1 DEF Covered, Coming
      <3>3. /\ Cardinality(room) <= peak /\ current <= peak
            /\ \A c \in calls : (c.kind # "join" /\ c.count # Uncounted) => c.count <= peak
        BY <1>0, <3>1, <3>2 DEF Peaks
      <3>4. Cardinality(room') <= peak
        BY <1>0, <2>1, <2>3, <3>3
      <3>5. \A c \in calls' : (c.kind # "join" /\ c.count # Uncounted) => c.count <= peak
        BY <2>1, <3>3, <3>4
      <3> QED BY <2>1, <3>3, <3>4, <3>5 DEF Peaks, Covered
    <2> QED BY <2>1, <2>2, <2>3
  <1>2. ASSUME NEW c \in calls, Count(c) PROVE Peaks'
    <2> DEFINE d == [c EXCEPT !.count = Size(c)]
    <2>1. /\ c.count = Uncounted /\ calls' = (calls \ {c}) \cup {d}
          /\ UNCHANGED <<room, peak, current, unpeaked>>
      BY <1>2 DEF Count
    <2>2. d.kind = c.kind /\ d.count = Size(c)
      BY <1>0 DEF Calls
    <2> HIDE DEF d
    <2>j. c.kind = "join" => d.count = Cardinality(room)
      BY <2>2 DEF Size
    <2>3. ASSUME NEW k, Covered(k) PROVE Covered(k)'
      <3>1. CASE k <= peak
        BY <2>1, <3>1 DEF Covered
      <3>2. ASSUME NEW e \in calls, e.kind = "join",
                   k <= (IF e.count = Uncounted THEN Cardinality(room) ELSE e.count)
            PROVE  Covered(k)'
        <4>1. CASE e = c
          <5>1. d \in calls' /\ d.kind = "join" /\ d.count # Uncounted /\ k <= d.count
            BY <1>u, <2>1, <2>2, <2>j, <3>2, <4>1
          <5> QED BY <5>1 DEF Covered
        <4>2. CASE e # c
          <5>1. e \in calls'
            BY <2>1, <4>2
          <5> QED BY <2>1, <3>2, <5>1 DEF Covered
        <4> QED BY <4>1, <4>2
      <3> QED BY <2>3, <3>1, <3>2 DEF Covered
    <2>4. /\ Covered(Cardinality(room)) /\ (Coming \/ current <= peak)
          /\ \A e \in calls : (e.kind # "join" /\ e.count # Uncounted) => Covered(e.count)
      BY <1>0, <2>1 DEF Peaks
    <2>5. Size(c) \in Nat /\ Size(c) <= Cardinality(room)
      BY <1>0 DEF Size, WithoutSelf
    <2>6. Covered(Size(c))
      <3>1. CASE Cardinality(room) <= peak
        BY <1>0, <2>5, <3>1 DEF Covered
      <3>2. ASSUME NEW e \in calls, e.kind = "join",
                   Cardinality(room) <=
                       (IF e.count = Uncounted THEN Cardinality(room) ELSE e.count)
            PROVE  Covered(Size(c))
        <4>1. Size(c) <= (IF e.count = Uncounted THEN Cardinality(room) ELSE e.count)
          BY <1>0, <1>c, <2>5, <3>2
        <4> QED BY <3>2, <4>1 DEF Covered
      <3> QED BY <2>4, <3>1, <3>2 DEF Covered
    <2>7. \A e \in calls' : (e.kind # "join" /\ e.count # Uncounted) => Covered(e.count)'
      BY <2>1, <2>2, <2>3, <2>4, <2>6
    <2>8. Covered(Cardinality(room))'
      BY <2>1, <2>3, <2>4 DEF Covered
    <2>9. Coming' \/ current' <= peak'
      BY <2>1, <2>2, <2>4 DEF Coming
    <2> QED BY <2>7, <2>8, <2>9 DEF Peaks
  <1>3. ASSUME NEW c \in calls, WriteCount(c) PROVE Peaks'
    <2>1. /\ c.count # Uncounted /\ calls' = calls \ {c} /\ current' = c.count
          /\ UNCHANGED <<room, unpeaked>>
          /\ peak' = IF c.kind = "join" /\ c.count > peak THEN c.count ELSE peak
      BY <1>3 DEF WriteCount, PeakAfter
    <2>2. peak' \in Nat /\ peak <= peak' /\ (c.kind = "join" => c.count <= peak')
      BY <1>0, <1>c, <2>1
    <2>3. ASSUME NEW k \in Nat, Covered(k) PROVE Covered(k)'
      <3>1. CASE k <= peak
        BY <1>0, <2>2, <3>1 DEF Covered
      <3>2. ASSUME NEW e \in calls, e.kind = "join",
                   k <= (IF e.count = Uncounted THEN Cardinality(room) ELSE e.count)
            PROVE  Covered(k)'
        <4>1. CASE e = c
          <5>1. k <= c.count /\ c.count <= peak'
            BY <2>1, <2>2, <3>2, <4>1
          <5>2. k <= peak'
            BY <1>c, <2>2, <5>1
          <5> QED BY <5>2 DEF Covered
        <4>2. CASE e # c
          <5>1. e \in calls'
            BY <2>1, <4>2
          <5> QED BY <2>1, <3>2, <5>1 DEF Covered
        <4> QED BY <4>1, <4>2
      <3> QED BY <2>3, <3>1, <3>2 DEF Covered
    <2>4. /\ Covered(Cardinality(room))
          /\ \A e \in calls : (e.kind # "join" /\ e.count # Uncounted) => Covered(e.count)
      BY <1>0, <2>1 DEF Peaks
    <2>5. Covered(Cardinality(room))'
      <3>1. Covered(Cardinality(room))' \/ Cardinality(room') # Cardinality(room)
        BY <1>0, <2>1, <2>3, <2>4 DEF Covered
      <3> QED BY <2>1, <3>1
    <2>6. Coming' \/ current' <= peak'
      <3>1. CASE c.kind = "join"
        BY <2>1, <2>2, <3>1
      <3>2. CASE c.kind # "join"
        <4>1. Covered(c.count)'
          BY <1>c, <2>1, <2>3, <2>4, <3>2
        <4> QED BY <2>1, <4>1 DEF Covered, Coming
      <3> QED BY <3>1, <3>2
    <2>7. \A e \in calls' : (e.kind # "join" /\ e.count # Uncounted) => Covered(e.count)'
      BY <1>c, <2>1, <2>3, <2>4
    <2> QED BY <2>5, <2>6, <2>7 DEF Peaks
  <1>4. ASSUME NEW c \in calls, LoseCount(c) PROVE Peaks'
    <2>1. /\ calls' = calls \ {c} /\ UNCHANGED <<room, current, peak>>
          /\ ~unpeaked /\ c.kind # "join"
      BY <1>4 DEF LoseCount
    <2>2. \A k \in Nat : Covered(k) => Covered(k)'
      <3>1. /\ Cardinality(room') \in Nat /\ Cardinality(room) <= Cardinality(room')
            /\ \A e \in calls : e.kind = "join" => e \in calls'
        BY <1>0, <2>1
      <3> QED BY <1>0, <2>1, <3>1, Covering
    <2>3. Coming' \/ current' <= peak'
      BY <1>0, <2>1 DEF Peaks, Coming
    <2>4. Covered(Cardinality(room))'
      <3>1. Covered(Cardinality(room))
        BY <1>0, <2>1 DEF Peaks
      <3>2. Covered(Cardinality(room))' \/ Cardinality(room') # Cardinality(room)
        BY <1>0, <2>1, <3>1 DEF Covered
      <3> QED BY <2>1, <3>2
    <2>5. \A e \in calls' : (e.kind # "join" /\ e.count # Uncounted) => Covered(e.count)'
      BY <1>0, <1>c, <2>1, <2>2 DEF Peaks
    <2> QED BY <2>3, <2>4, <2>5 DEF Peaks
  <1> QED BY <1>1, <1>2, <1>3, <1>4 DEF Sockets

-----------------------------------------------------------------------------
(* The invariant and what follows from it.                                 *)

\* The inductive invariant.
StreamInv == Typed /\ Announcements /\ FirstSession /\ Inputs /\ Counts

\* The invariant holds at the start.
LEMMA StreamInvInit == StreamInit => StreamInv
  <1> SUFFICES ASSUME StreamInit PROVE StreamInv
    OBVIOUS
  <1>1. Typed
    BY TypedInit
  <1>2. Cardinality({}) = 0
    BY FS_EmptySet
  <1> USE DEF StreamInit
  <1>3. Announcements
    <2>1. At({"announce"}) = {}
      BY DEF At
    <2>2. Cardinality(At({"announce"})) = 0
      BY <1>2, <2>1
    <2>3. announced + Cardinality(At({"announce"})) <= sessions
      <3> HIDE DEF At
      <3> QED BY <2>2
    <2> QED BY <2>3 DEF Announcements
  <1>4. FirstSession
    BY DEF FirstSession, LiveOf
  <1>5. Inputs
    BY DEF Inputs, Assigned, Reachable, Only, Rotating
  <1>6. Counts
    BY <1>2 DEF Counts, Sole, Peaks, Covered
  <1> QED BY <1>1, <1>3, <1>4, <1>5, <1>6 DEF StreamInv

\* The invariant is inductive.
LEMMA StreamInvKept == StreamInv /\ [StreamNext]_streamVars => StreamInv'
  <1> SUFFICES ASSUME StreamInv, [StreamNext]_streamVars PROVE StreamInv'
    OBVIOUS
  <1>0. Typed /\ Announcements /\ FirstSession /\ Inputs /\ Counts
    BY DEF StreamInv
  <1>t. Typed'
    BY <1>0, TypedKept
  <1>1. ASSUME NEW w \in Workers, Seller(w) \/ Work(w) \/ Die(w) PROVE StreamInv'
    <2>1. Announcements' /\ FirstSession'
      BY <1>0, <1>1, AnnouncementsSteps, FirstSessionSteps
    <2>2. Inputs' /\ Counts'
      BY <1>0, <1>1, InputsSteps, CountsSteps
    <2> QED BY <1>t, <2>1, <2>2 DEF StreamInv
  <1>2. CASE World
    <2>1. FirstSession'
      BY <1>0, <1>2, FirstSessionWorld
    <2>2. UNCHANGED <<plan, left, row, inputs, made, sockets, past, local>>
      BY <1>2 DEF World, Record, Ready
    <2>3. Announcements'
      BY <1>0, <2>2 DEF Announcements, At, row, past, local
    <2>4. Inputs'
      BY <1>0, <2>2 DEF Inputs, Assigned, Reachable, Undying, Only, Rotating, row, past, local
    <2>5. Counts'
      BY <1>0, <2>2, CountsSame DEF Tally, row, sockets, past
    <2> QED BY <1>t, <2>1, <2>3, <2>4, <2>5 DEF StreamInv
  <1>3. CASE Sockets
    <2>1. Counts'
      BY <1>0, <1>3, SoleSockets, PeaksSockets DEF Counts
    <2>2. /\ UNCHANGED <<plan, status, input, hls, remote, local>>
          /\ UNCHANGED <<sessions, announced, raced, crossed, leaky>>
          /\ left' = left \/ Spend("deaths")
      BY <1>3, Sidelong
    <2>3. Announcements' /\ FirstSession'
      BY <1>0, <2>2 DEF Announcements, FirstSession, At, remote, local
    <2>4. left' = left \/ left'.deaths # plan.deaths
      <3>1. /\ left.deaths \in Nat /\ plan.deaths \in Nat /\ left.deaths <= plan.deaths
            /\ left \in Budgets
        BY <1>0, StreamsAssumption DEF Typed, Budgeted, Budgets
      <3>2. Spend("deaths") => left'.deaths = left.deaths - 1
        BY <3>1 DEF Spend, Budgets
      <3> QED BY <2>2, <3>1, <3>2
    <2>5. UNCHANGED <<plan, inputs, input, at, job, crossed, leaky>>
      BY <2>2 DEF remote, local
    <2>6. Inputs'
      BY <1>0, <2>4, <2>5, InputsSame
    <2> QED BY <1>t, <2>1, <2>3, <2>6 DEF StreamInv
  <1>4. CASE UNCHANGED streamVars
    <2>1. /\ UNCHANGED <<plan, left, row, remote, sockets, past, local>>
      BY <1>4 DEF streamVars
    <2>2. Announcements' /\ FirstSession'
      BY <1>0, <2>1 DEF Announcements, FirstSession, At, row, remote, past, local
    <2>3. Inputs'
      BY <1>0, <2>1 DEF Inputs, Assigned, Reachable, Undying, Only, Rotating, row, remote, past,
                        local
    <2>4. Counts'
      BY <1>0, <2>1, CountsSame DEF Tally, row, sockets, past
    <2> QED BY <1>t, <2>2, <2>3, <2>4 DEF StreamInv
  <1>5. ASSUME NEW w \in Workers, Reject(w) PROVE StreamInv'
    <2>1. /\ UNCHANGED <<plan, row, replay, inputs, made, videos, sockets, local>>
          /\ UNCHANGED <<sessions, announced, raced, crossed, leaky>>
          /\ UNCHANGED <<miscounted, doubled, unpeaked>>
          /\ events' \subseteq events /\ left'.deaths # plan'.deaths
      BY <1>0, <1>5, Rejection
    <2>2. Announcements' /\ FirstSession'
      BY <1>0, <2>1 DEF Announcements, FirstSession, At, row, local
    <2>3. Inputs'
      BY <1>0, <2>1, InputsSame DEF row, local
    <2>4. Counts'
      BY <1>0, <2>1, CountsSame DEF Tally, row, sockets
    <2> QED BY <1>t, <2>2, <2>3, <2>4 DEF StreamInv
  <1> QED BY <1>1, <1>2, <1>3, <1>4, <1>5 DEF StreamNext, World

\* It holds in every state, for any numbers of workers, viewers and plans.
THEOREM StreamInvariance == StreamSpec => []StreamInv
  <1>1. StreamInit => StreamInv
    BY StreamInvInit
  <1>2. StreamInv /\ [StreamNext]_streamVars => StreamInv'
    BY StreamInvKept
  <1> QED BY <1>1, <1>2, PTL DEF StreamSpec

\* The model's values keep their types, and the row's counts never exceed the viewers.
THEOREM StreamTyped == StreamSpec => []StreamTypeOK
  <1>1. StreamInv => StreamTypeOK
    BY TypedType DEF StreamInv
  <1> QED BY <1>1, StreamInvariance, PTL

\* What is told of a live stream is true: one announcement a session, the live URL in the
\* first session, an input on record that exists (routes/streamLifecycle.ts:109, 224-240).
THEOREM ToldTrue == StreamSpec => []LiveIsTrue
  <1>1. StreamInv => LiveIsTrue
    <2> SUFFICES ASSUME StreamInv PROVE LiveIsTrue
      OBVIOUS
    <2>0. Announcements /\ FirstSession /\ Reachable /\ Only
      BY DEF StreamInv, Inputs
    <2>1. ~raced => announced <= sessions
      <3>1. /\ announced \in Nat /\ sessions \in Nat
            /\ Cardinality(At({"announce"})) \in Nat
        BY FS_CardinalityType DEF StreamInv, Typed, Budgeted
      <3>2. ~raced => announced + Cardinality(At({"announce"})) <= sessions
        BY <2>0 DEF Announcements
      <3> QED BY <3>1, <3>2
    <2>2. (status = "live" /\ sessions = 1) => hls[1] = "live"
      BY <2>0 DEF FirstSession
    <2>3. (left.deaths = plan.deaths /\ \A w \in Workers : ~Rotating(w)) =>
              /\ input # Stub => input \in inputs
              /\ ~crossed /\ ~leaky => inputs = {input}
      BY <2>0 DEF Reachable, Only, Undying
    <2> QED BY <2>1, <2>2, <2>3 DEF LiveIsTrue
  <1> QED BY <1>1, StreamInvariance, PTL

\* The row's viewer count is right once a handler has run alone, unless that counted a
\* second room of a viewer who disconnected; and the peak covers it whenever no join is
\* at work, once a join has begun alone, whatever overlaps, unless since then somebody
\* left while a join was handled, the write of a join failed, or a start reset the
\* counts with viewers about (lib/socket.ts:44-59, 350-356).
THEOREM CountedTrue == StreamSpec => []CountsAreTrue
  <1>1. StreamInv => CountsAreTrue
    BY DEF StreamInv, Counts, Sole, Peaks, Coming, CountsAreTrue
  <1> QED BY <1>1, StreamInvariance, PTL
===============================================================================
