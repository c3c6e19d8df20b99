---------------------------- MODULE PayoutsProofs ----------------------------
(***************************************************************************)
(* Proofs about Payouts, for any set of rows, orders and sweeps, any       *)
(* interventions and any behaviour of the gateway.                         *)
(***************************************************************************)
EXTENDS Payouts, TLAPS

(***************************************************************************)
(* The argument.  A withdrawal becomes claimable once, when it is inserted:*)
(* the only other action that makes it pending again, an operator's        *)
(* release, clears its hold date, and it never has a hold date in the      *)
(* future.  So whoever claims it is the only sweep that ever handles it,   *)
(* and that sweep sends it once and reverses it at most once.              *)
(***************************************************************************)
Queued(w, p)    == p \in due[w] \/ p \in still[w]
Reversing(w)    == pc[w] \in {"reverse", "check", "credit"}
NotMovedBy(w)   == Reversing(w) \/ (pc[w] = "called" /\ reply[w] = "failed")
Untouched(p)    == /\ sent[p] = 0 /\ reversals[p] = 0
                   /\ \A w \in Workers : ~Handles(w, p)
TellsTheTruth   == "lost" \notin plan.answers

\* One sweep handles a withdrawal, and has it in one place.
OneHandler(p) ==
    /\ \A v, w \in Workers : Handles(v, p) /\ Handles(w, p) => v = w
    /\ \A w \in Workers : /\ p \in due[w] => p \notin still[w]
                          /\ Queued(w, p) => cur[w] # p

\* Before it is sent nothing has happened to it; before it is reversed, no
\* reversal exists, and if the gateway tells the truth no money has moved.
Progress(p) ==
    /\ hold[p] # "future"
    /\ status[p] = "none" \/ Claimable(p) => Untouched(p)
    /\ \A w \in Workers : Queued(w, p) => sent[p] = 0 /\ reversals[p] = 0
    /\ \A w \in Workers : cur[w] = p => reversals[p] = 0
    /\ TellsTheTruth => /\ \A w \in Workers : cur[w] = p /\ NotMovedBy(w) => sent[p] = 0
                        /\ sent[p] = 0 \/ reversals[p] = 0
    /\ sent[p] <= 1 /\ reversals[p] <= 1

\* A worker is on a row, and has an answer for it, exactly while pc says so.
Cursor ==
    \A w \in Workers :
        /\ cur[w] = NoPayout <=> pc[w] \in {"idle", "sweep", "run"}
        /\ pc[w] = "called" => reply[w] # "none"

WalletInv ==
    /\ TypeOK
    /\ Cursor
    /\ \A p \in Payouts : IsWallet(p) => OneHandler(p) /\ Progress(p)

-----------------------------------------------------------------------------
(* Type correctness.                                                       *)

\* The shape of the next-state relation, one disjunct per group of actions.
LEMMA NextShape ==
    ASSUME Next
    PROVE  \/ \E p \in Payouts : RowStep(p)
           \/ \E w \in Workers : Proceed(w)
           \/ \E w \in Workers : Crash(w)
           \/ \E c \in Clawers : RefundStep(c)
  BY DEF Next

LEMMA TypeInit == Init => TypeOK
  BY DEF Init, TypeOK, Status, Hold

LEMMA TypeRow ==
    ASSUME TypeOK, NEW p \in Payouts, RowStep(p)
    PROVE  TypeOK'
  <1> USE DEF TypeOK, Status, Hold, ledger, worker, clawback
  <1>1. CASE Schedule(p) BY <1>1 DEF Schedule
  <1>2. CASE HoldExpires(p) BY <1>2 DEF HoldExpires
  <1>3. CASE PostureChanges(p) BY <1>3 DEF PostureChanges
  <1>4. CASE Withdraw(p) BY <1>4 DEF Withdraw
  <1>5. CASE WithdrawDebit(p) BY <1>5 DEF WithdrawDebit
  <1>6. CASE WithdrawDies(p) BY <1>6 DEF WithdrawDies
  <1>7. CASE OpsHold(p) BY <1>7 DEF OpsHold
  <1>8. CASE OpsRelease(p) BY <1>8 DEF OpsRelease
  <1>9. CASE OpsClawback(p) BY <1>9 DEF OpsClawback
  <1>10. CASE SellerMarkPaid(p) BY <1>10 DEF SellerMarkPaid
  <1> QED BY <1>1, <1>2, <1>3, <1>4, <1>5, <1>6, <1>7, <1>8, <1>9, <1>10 DEF RowStep

\* What looking at the other legs of an order may do, whatever it finds.
LEMMA CheckLegsShape ==
    ASSUME NEW w \in Workers, CheckLegs(w)
    PROVE  /\ pc[w] = "settle"
           /\ UNCHANGED <<ledger, sent, blk, due, still, reply, clawback, asking, putBack, plan>>
           /\ \/ pc' = [pc EXCEPT ![w] = "stamp"] /\ UNCHANGED cur
              \/ pc' = [pc EXCEPT ![w] = "run"] /\ cur' = [cur EXCEPT ![w] = NoPayout]
  BY Zenon DEF CheckLegs, NextRow

LEMMA TypeProceed ==
    ASSUME TypeOK, NEW w \in Workers, Proceed(w)
    PROVE  TypeOK'
  <1> USE DEF TypeOK, Status, Hold, ledger, worker, clawback
  <1>1. CASE StartRun(w) BY <1>1 DEF StartRun
  <1>2. CASE Claim(w) BY <1>2 DEF Claim, Claimable
  <1>3. CASE EndRun(w) BY <1>3 DEF EndRun, Drop
  <1>4. CASE RecordReply(w) BY <1>4 DEF RecordReply, Record, AfterReply
  <1>5. CASE CheckLegs(w)
    <2>1. UNCHANGED <<ledger, sent, blk, due, still, reply, clawback, asking, putBack, plan>>
      BY <1>5, CheckLegsShape
    <2>2. \/ pc' = [pc EXCEPT ![w] = "stamp"] /\ UNCHANGED cur
          \/ pc' = [pc EXCEPT ![w] = "run"] /\ cur' = [cur EXCEPT ![w] = NoPayout]
      BY <1>5, CheckLegsShape
    <2> QED BY <2>1, <2>2
  <1>6. CASE StampSettled(w) BY <1>6 DEF StampSettled, NextRow
  <1>7. CASE ConfirmDebit(w) BY <1>7 DEF ConfirmDebit, NextRow
  <1>8. CASE ReverseDebit(w) BY <1>8 DEF ReverseDebit
  <1>9. CASE CheckReversal(w) BY <1>9 DEF CheckReversal, NextRow
  <1>10. CASE CreditReversal(w)
    <2>1. reversals \in [Payouts -> Nat]
      OBVIOUS
    <2>2. reversals' \in [Payouts -> Nat]
      <3>1. \A p \in Payouts : reversals'[p] \in Nat
        BY <1>10, <2>1 DEF CreditReversal
      <3> QED BY <1>10, <2>1, <3>1 DEF CreditReversal
    <2> QED BY <1>10, <2>2 DEF CreditReversal, NextRow
  <1>11. ASSUME NEW p \in Payouts, Unblock(w, p) PROVE TypeOK'
    BY <1>11 DEF Unblock, PromoteBlocked
  <1>12. ASSUME NEW p \in Payouts, Recheck(w, p) PROVE TypeOK'
    BY <1>12 DEF Recheck
  <1>13. ASSUME NEW p \in Payouts, ParkMissingBank(w, p) PROVE TypeOK'
    BY <1>13 DEF ParkMissingBank
  <1>14. ASSUME NEW p \in Payouts, UnknownGateway(w, p) PROVE TypeOK'
    BY <1>14 DEF UnknownGateway, Drop
  <1>15. ASSUME NEW p \in Payouts, NEW out \in plan.answers, CallGateway(w, p, out)
         PROVE  TypeOK'
    BY <1>15 DEF CallGateway
  <1> QED BY <1>1, <1>2, <1>3, <1>4, <1>5, <1>6, <1>7, <1>8, <1>9, <1>10, <1>11,
             <1>12, <1>13, <1>14, <1>15 DEF Proceed

LEMMA TypeRefund ==
    ASSUME TypeOK, NEW c \in Clawers, RefundStep(c)
    PROVE  TypeOK'
  <1> USE DEF TypeOK, Status, Hold, ledger, worker
  <1>1. CASE ClawDies(c) BY <1>1 DEF ClawDies
  <1>2. ASSUME NEW o \in Orders, ClawStart(c, o) PROVE TypeOK'
    BY <1>2 DEF ClawStart, LegsOf
  <1>3. ASSUME NEW p \in Payouts, CancelLeg(c, p) PROVE TypeOK'
    BY <1>3 DEF CancelLeg, CancelUnless
  <1>4. ASSUME NEW p \in Payouts, OweLeg(c, p) PROVE TypeOK'
    BY <1>4 DEF OweLeg
  <1> QED BY <1>1, <1>2, <1>3, <1>4 DEF RefundStep

LEMMA TypeCrash ==
    ASSUME TypeOK, NEW w \in Workers, Crash(w)
    PROVE  TypeOK'
  BY DEF TypeOK, Status, Hold, ledger, worker, clawback, Crash, Drop

\* The columns, the workers' variables and the gateway's count stay within
\* their types, whatever interleaving of the code's statements is taken.
THEOREM TypeCorrect == Spec => []TypeOK
  <1>1. TypeOK /\ [Next]_vars => TypeOK'
    <2> SUFFICES ASSUME TypeOK, [Next]_vars PROVE TypeOK'
      OBVIOUS
    <2>1. CASE Next
      BY <2>1, NextShape, TypeRow, TypeProceed, TypeRefund, TypeCrash
    <2>2. CASE UNCHANGED vars
      BY <2>2 DEF vars, TypeOK, ledger, worker, clawback
    <2> QED BY <2>1, <2>2
  <1> QED BY TypeInit, <1>1, PTL DEF Spec

-----------------------------------------------------------------------------
(* The invariant of withdrawals.                                           *)

LEMMA WalletInit == Init => WalletInv
  <1> SUFFICES ASSUME Init PROVE WalletInv
    OBVIOUS
  <1>1. TypeOK
    BY TypeInit
  <1>2. Cursor
    BY DEF Init, Cursor
  <1>3. ASSUME NEW p \in Payouts PROVE OneHandler(p) /\ Progress(p)
    BY <1>3, ConstantsAssumption
       DEF Init, OneHandler, Progress, Handles, Queued, Untouched, Claimable,
           NotMovedBy, Reversing
  <1> QED BY <1>1, <1>2, <1>3 DEF WalletInv

\* A step that moves no money and hands the row to nobody is harmless, as long
\* as it does not make a row claimable that was neither claimable nor missing.
NoNewHandler(p) ==
    \A w \in Workers : /\ p \in due'[w] => p \in due[w]
                       /\ p \in still'[w] => p \in still[w]
                       /\ cur'[w] = p => cur[w] = p
                       /\ cur'[w] = p /\ NotMovedBy(w)' => NotMovedBy(w)

LEMMA Quiet ==
    ASSUME NEW p \in Payouts, OneHandler(p), Progress(p), NoNewHandler(p),
           UNCHANGED <<sent, reversals, plan>>,
           hold'[p] # "future",
           (status'[p] = "none" \/ Claimable(p)') => (status[p] = "none" \/ Claimable(p))
    PROVE  OneHandler(p)' /\ Progress(p)'
  <1>1. OneHandler(p)'
    BY DEF NoNewHandler, OneHandler, Handles, Queued
  <1>2. Progress(p)'
    BY DEF NoNewHandler, Progress, Untouched, Handles, Queued, TellsTheTruth
  <1> QED BY <1>1, <1>2

LEMMA WalletRow ==
    ASSUME WalletInv, NEW q \in Payouts, RowStep(q)
    PROVE  WalletInv'
  <1>1. TypeOK'
    BY TypeRow DEF WalletInv
  <1>2. UNCHANGED <<sent, reversals, due, still, cur, pc, reply, plan>>
    BY DEF RowStep, Schedule, HoldExpires, PostureChanges, Withdraw, WithdrawDebit,
           WithdrawDies, OpsHold, OpsRelease, OpsClawback, SellerMarkPaid,
           ledger, worker
  <1>3. Cursor'
    BY <1>2 DEF WalletInv, Cursor
  <1>4. ASSUME NEW p \in Payouts, IsWallet(p)
        PROVE  OneHandler(p)' /\ Progress(p)'
    <2>1. OneHandler(p) /\ Progress(p) /\ hold[p] # "future"
      BY <1>4 DEF WalletInv, Progress
    <2>2. /\ hold'[p] # "future"
          /\ (status'[p] = "none" \/ Claimable(p)') =>
                (status[p] = "none" \/ Claimable(p))
      <3> USE <1>4, <2>1 DEF WalletInv, TypeOK, Claimable, ledger
      <3>1. CASE Schedule(q) BY <3>1 DEF Schedule
      <3>2. CASE HoldExpires(q) BY <3>2 DEF HoldExpires
      <3>3. CASE PostureChanges(q) BY <3>3 DEF PostureChanges
      <3>4. CASE Withdraw(q) BY <3>4 DEF Withdraw
      <3>5. CASE WithdrawDebit(q) BY <3>5 DEF WithdrawDebit
      <3>6. CASE WithdrawDies(q) BY <3>6 DEF WithdrawDies
      <3>7. CASE OpsHold(q) BY <3>7 DEF OpsHold
      <3>8. CASE OpsRelease(q) BY <3>8 DEF OpsRelease
      <3>9. CASE OpsClawback(q) BY <3>9 DEF OpsClawback
      <3>10. CASE SellerMarkPaid(q) BY <3>10 DEF SellerMarkPaid
      <3> QED BY <3>1, <3>2, <3>3, <3>4, <3>5, <3>6, <3>7, <3>8, <3>9, <3>10 DEF RowStep
    <2>3. NoNewHandler(p)
      BY <1>2 DEF NoNewHandler, NotMovedBy, Reversing
    <2> QED BY <1>2, <2>1, <2>2, <2>3, Quiet
  <1> QED BY <1>1, <1>3, <1>4 DEF WalletInv, IsWallet

LEMMA WalletRefund ==
    ASSUME WalletInv, NEW c \in Clawers, RefundStep(c)
    PROVE  WalletInv'
  <1>1. TypeOK'
    BY TypeRefund DEF WalletInv
  <1>2. UNCHANGED <<sent, reversals, due, still, cur, pc, reply, hold, plan>>
    BY DEF RefundStep, ClawStart, CancelLeg, CancelUnless, OweLeg, ClawDies, ledger, worker
  <1>3. Cursor'
    BY <1>2 DEF WalletInv, Cursor
  <1>4. ASSUME NEW p \in Payouts, IsWallet(p)
        PROVE  OneHandler(p)' /\ Progress(p)'
    <2>1. OneHandler(p) /\ Progress(p) /\ hold'[p] # "future"
      BY <1>2, <1>4 DEF WalletInv, Progress
    <2>2. status'[p] = status[p] \/ status'[p] = "cancelled"
      BY <1>4 DEF RefundStep, ClawStart, CancelLeg, CancelUnless, OweLeg, ClawDies,
                  ledger, WalletInv, TypeOK
    <2>3. (status'[p] = "none" \/ Claimable(p)') =>
              (status[p] = "none" \/ Claimable(p))
      BY <1>2, <2>2 DEF Claimable
    <2>4. NoNewHandler(p)
      BY <1>2 DEF NoNewHandler, NotMovedBy, Reversing
    <2> QED BY <1>2, <2>1, <2>3, <2>4, Quiet
  <1> QED BY <1>1, <1>3, <1>4 DEF WalletInv, IsWallet

\* A worker that dies, ends its run or meets an unknown gateway forgets its
\* rows; those it leaves behind are not claimable.
LEMMA WalletDrop ==
    ASSUME WalletInv, NEW w \in Workers, Drop(w)
    PROVE  Cursor' /\ \A p \in Payouts : IsWallet(p) => OneHandler(p)' /\ Progress(p)'
  <1>1. Cursor'
    BY DEF WalletInv, TypeOK, Cursor, Drop
  <1>2. ASSUME NEW p \in Payouts, IsWallet(p)
        PROVE  OneHandler(p)' /\ Progress(p)'
    <2>1. OneHandler(p) /\ Progress(p) /\ hold[p] # "future"
      BY <1>2 DEF WalletInv, Progress
    <2>2. NoNewHandler(p)
      BY ConstantsAssumption
         DEF Drop, NoNewHandler, NotMovedBy, Reversing, WalletInv, TypeOK
    <2>3. UNCHANGED <<status, hold, sent, reversals, plan>>
      BY DEF Drop, ledger
    <2> QED BY <2>1, <2>2, <2>3, Quiet DEF Claimable
  <1> QED BY <1>1, <1>2

LEMMA WalletCrash ==
    ASSUME WalletInv, NEW w \in Workers, Crash(w)
    PROVE  WalletInv'
  BY WalletDrop, TypeCrash DEF WalletInv, Crash, IsWallet

\* The steps of a worker that neither claim, move, send nor credit a row.
LEMMA WalletIdleSteps ==
    ASSUME WalletInv, NEW w \in Workers, NEW p \in Payouts, IsWallet(p),
           \/ StartRun(w) \/ RecordReply(w) \/ CheckLegs(w) \/ StampSettled(w)
           \/ ConfirmDebit(w) \/ ReverseDebit(w) \/ CheckReversal(w)
           \/ \E q \in Payouts : Unblock(w, q) \/ ParkMissingBank(w, q)
    PROVE  OneHandler(p)' /\ Progress(p)'
  <1>1. OneHandler(p) /\ Progress(p) /\ hold[p] # "future"
    BY DEF WalletInv, Progress
  <1>2. UNCHANGED <<hold, sent, reversals, plan>>
    BY DEF StartRun, RecordReply, Record, CheckLegs, StampSettled, ConfirmDebit,
           ReverseDebit, CheckReversal, Unblock, PromoteBlocked, ParkMissingBank, ledger
  <1>3. status'[p] = status[p] \/ status'[p] \in {"paid", "processing", "failed"}
    BY DEF StartRun, RecordReply, Record, CheckLegs, StampSettled, ConfirmDebit,
           ReverseDebit, CheckReversal, Unblock, PromoteBlocked, ParkMissingBank,
           ledger, WalletInv, TypeOK
  <1>4. NoNewHandler(p)
    <2> USE ConstantsAssumption
        DEF NoNewHandler, NotMovedBy, Reversing, WalletInv, TypeOK, Cursor
    <2>1. CASE StartRun(w)
      BY <2>1 DEF StartRun
    <2>2. CASE RecordReply(w)
      BY <2>2 DEF RecordReply, Record, AfterReply
    <2>3. CASE CheckLegs(w)
      BY <2>3, CheckLegsShape
    <2>4. CASE StampSettled(w)
      BY <2>4 DEF StampSettled, NextRow
    <2>5. CASE ConfirmDebit(w)
      BY <2>5 DEF ConfirmDebit, NextRow
    <2>6. CASE ReverseDebit(w)
      BY <2>6 DEF ReverseDebit
    <2>7. CASE CheckReversal(w)
      BY <2>7 DEF CheckReversal, NextRow
    <2>8. CASE \E q \in Payouts : Unblock(w, q) \/ ParkMissingBank(w, q)
      BY <2>8 DEF Unblock, PromoteBlocked, ParkMissingBank
    <2> QED BY <2>1, <2>2, <2>3, <2>4, <2>5, <2>6, <2>7, <2>8
  <1> QED BY <1>1, <1>2, <1>3, <1>4, Quiet DEF Claimable

\* Claiming: the row was claimable, so nobody had it and nothing was sent.
LEMMA WalletClaim ==
    ASSUME WalletInv, NEW w \in Workers, NEW p \in Payouts, IsWallet(p), Claim(w)
    PROVE  OneHandler(p)' /\ Progress(p)'
  <1> USE DEF WalletInv, TypeOK
  <1>1. OneHandler(p) /\ Progress(p)
    OBVIOUS
  <1>2. /\ UNCHANGED <<hold, sent, reversals, still, cur, reply, plan>>
        /\ ~Claimable(p)'
        /\ status'[p] = "none" => status[p] = "none"
        /\ \A v \in Workers : p \in due'[v] <=> IF v = w THEN Claimable(p) ELSE p \in due[v]
        /\ \A v \in Workers : cur[v] = p /\ NotMovedBy(v)' => NotMovedBy(v)
    BY DEF Claim, Claimable, NotMovedBy, Reversing
  <1>3. Claimable(p) => status[p] # "none" /\ status'[p] # "none"
    BY DEF Claim, Claimable
  <1>4. OneHandler(p)'
    <2>1. CASE Claimable(p)
      BY <1>1, <1>2, <2>1 DEF OneHandler, Progress, Untouched, Handles, Queued
    <2>2. CASE ~Claimable(p)
      BY <1>1, <1>2, <2>2 DEF OneHandler, Handles, Queued
    <2> QED BY <2>1, <2>2
  <1>5. Progress(p)'
    <2>1. CASE Claimable(p)
      BY <1>1, <1>2, <1>3, <2>1 DEF Progress, Untouched, Handles, Queued, TellsTheTruth
    <2>2. CASE ~Claimable(p)
      BY <1>1, <1>2, <2>2 DEF Progress, Untouched, Handles, Queued, TellsTheTruth
    <2> QED BY <2>1, <2>2
  <1> QED BY <1>4, <1>5

\* The re-check moves a row from one set of its worker to the other.
LEMMA WalletRecheck ==
    ASSUME WalletInv, NEW w \in Workers, NEW p \in Payouts, IsWallet(p),
           NEW q \in Payouts, Recheck(w, q)
    PROVE  OneHandler(p)' /\ Progress(p)'
  <1> USE DEF WalletInv, TypeOK
  <1>1. OneHandler(p) /\ Progress(p)
    OBVIOUS
  <1>2. /\ UNCHANGED <<hold, sent, reversals, cur, reply, pc, plan>>
        /\ status'[p] = status[p]
        /\ \A v \in Workers : /\ Queued(v, p)' <=> Queued(v, p)
                              /\ Handles(v, p)' <=> Handles(v, p)
                              /\ p \in due'[v] => p \in due[v]
                              /\ p \in due'[v] /\ p \in still'[v] => p \in still[v]
    BY DEF Recheck, Queued, Handles, IsWallet
  <1>3. OneHandler(p)'
    BY <1>1, <1>2 DEF OneHandler
  <1>4. Progress(p)'
    BY <1>1, <1>2 DEF Progress, Untouched, Claimable, NotMovedBy, Reversing, TellsTheTruth
  <1> QED BY <1>3, <1>4

\* Sending: the row was queued at this worker, so it had never been sent.
LEMMA WalletCall ==
    ASSUME WalletInv, NEW w \in Workers, NEW p \in Payouts, IsWallet(p),
           NEW q \in Payouts, NEW out \in plan.answers, CallGateway(w, q, out)
    PROVE  OneHandler(p)' /\ Progress(p)'
  <1> USE DEF WalletInv, TypeOK
  <1>1. OneHandler(p) /\ Progress(p)
    OBVIOUS
  <1>2. cur[w] = NoPayout /\ cur[w] # p
    BY ConstantsAssumption DEF Cursor, CallGateway
  <1>3. CASE q # p
    <2>1. NoNewHandler(p)
      BY <1>2, <1>3 DEF NoNewHandler, CallGateway, NotMovedBy, Reversing
    <2>2. sent'[p] = sent[p] /\ UNCHANGED <<status, hold, reversals, plan>>
      BY <1>3 DEF CallGateway, ledger
    <2>3. OneHandler(p)'
      BY <1>1, <2>1 DEF NoNewHandler, OneHandler, Handles, Queued
    <2>4. Progress(p)'
      BY <1>1, <2>1, <2>2 DEF NoNewHandler, Progress, Untouched, Handles, Queued, Claimable,
                 TellsTheTruth
    <2> QED BY <2>3, <2>4
  <1>4. CASE q = p
    <2>1. /\ Queued(w, p) /\ Handles(w, p)
          /\ \A v \in Workers : Handles(v, p) => v = w
          /\ sent[p] = 0 /\ reversals[p] = 0
          /\ status[p] # "none" /\ ~Claimable(p)
      BY <1>1, <1>4 DEF CallGateway, OneHandler, Progress, Queued, Handles, Untouched
    <2>2. /\ UNCHANGED <<status, hold, reversals, due, plan>>
          /\ \A v \in Workers : /\ p \in still'[v] <=> p \in still[v] /\ v # w
                                /\ cur'[v] = p <=> v = w \/ cur[v] = p
      BY <1>4 DEF CallGateway, ledger
    <2>3. \A v \in Workers : Handles(v, p)' => v = w
      BY <2>1, <2>2 DEF Handles
    <2>4. \A v \in Workers : ~Queued(v, p)'
      BY <1>1, <1>4, <2>1, <2>2 DEF CallGateway, OneHandler, Queued, Handles
    <2>5. OneHandler(p)'
      BY <2>3, <2>4 DEF OneHandler, Queued
    <2>6. /\ sent'[p] \in {0, 1}
          /\ pc'[w] = "called"
          /\ TellsTheTruth /\ reply'[w] = "failed" => sent'[p] = 0
      <3>1. plan \in Plan
        BY ConstantsAssumption
      <3>2. plan.answers \subseteq AllOutcomes
        BY <3>1 DEF Plan
      <3>3. out \in AllOutcomes /\ (TellsTheTruth => out # "lost")
        BY <3>2 DEF TellsTheTruth
      <3> QED BY <1>4, <2>1, <3>3 DEF CallGateway, AllOutcomes
    <2>7. TellsTheTruth => \A v \in Workers : cur'[v] = p /\ NotMovedBy(v)' => sent'[p] = 0
      BY <2>3, <2>6 DEF NotMovedBy, Reversing, Handles
    <2>8. Progress(p)'
      BY <1>1, <2>1, <2>2, <2>4, <2>6, <2>7 DEF Progress, Claimable, TellsTheTruth
    <2> QED BY <2>5, <2>8
  <1> QED BY <1>3, <1>4

\* Crediting: the worker in front of the row is the only one, and leaves it.
LEMMA WalletCredit ==
    ASSUME WalletInv, NEW w \in Workers, NEW p \in Payouts, IsWallet(p),
           CreditReversal(w)
    PROVE  OneHandler(p)' /\ Progress(p)'
  <1> USE DEF WalletInv, TypeOK
  <1>1. OneHandler(p) /\ Progress(p)
    OBVIOUS
  <1>2. NoNewHandler(p) /\ UNCHANGED <<sent, status, hold, plan>> /\ cur'[w] # p
    BY ConstantsAssumption
       DEF NoNewHandler, CreditReversal, NextRow, NotMovedBy, Reversing
  <1>3. OneHandler(p)'
    BY <1>1, <1>2 DEF NoNewHandler, OneHandler, Handles, Queued
  <1>4. CASE cur[w] # p
    <2>1. reversals'[p] = reversals[p]
      BY <1>4 DEF CreditReversal
    <2> QED BY <1>1, <1>2, <1>3, <2>1
            DEF NoNewHandler, Progress, Untouched, Handles, Queued, Claimable,
                 TellsTheTruth
  <1>5. CASE cur[w] = p
    <2>1. /\ reversals[p] = 0 /\ reversals'[p] = 1
          /\ TellsTheTruth => sent[p] = 0
      BY <1>1, <1>5 DEF CreditReversal, Progress, NotMovedBy, Reversing
    <2>2. Handles(w, p) /\ ~Queued(w, p)
      BY <1>1, <1>5 DEF Handles, OneHandler
    <2>3. \A v \in Workers : ~Handles(v, p)'
      BY <1>1, <1>2, <2>2 DEF NoNewHandler, OneHandler, Handles, Queued
    <2>4. status[p] # "none" /\ ~Claimable(p)
      BY <1>1, <2>2 DEF Progress, Untouched
    <2>5. Progress(p)'
      BY <1>1, <1>2, <2>1, <2>3, <2>4
         DEF Progress, Claimable, Handles, Queued, TellsTheTruth
    <2> QED BY <1>3, <2>5
  <1> QED BY <1>4, <1>5

\* A worker that is on a row stays on it or leaves it; the cursor follows.
LEMMA CursorMoves ==
    ASSUME TypeOK, Cursor, NEW w \in Workers, UNCHANGED reply,
           pc[w] \in {"settle", "check"},
           \/ pc' = [pc EXCEPT ![w] = "stamp"] /\ UNCHANGED cur
           \/ pc' = [pc EXCEPT ![w] = "credit"] /\ UNCHANGED cur
           \/ NextRow(w)
    PROVE  Cursor'
  <1> USE ConstantsAssumption DEF TypeOK, Cursor
  <1>1. CASE pc' = [pc EXCEPT ![w] = "stamp"] /\ UNCHANGED cur
    BY <1>1
  <1>2. CASE pc' = [pc EXCEPT ![w] = "credit"] /\ UNCHANGED cur
    BY <1>2
  <1>3. CASE NextRow(w)
    BY <1>3 DEF NextRow
  <1> QED BY <1>1, <1>2, <1>3

LEMMA CursorProceed ==
    ASSUME WalletInv, NEW w \in Workers, Proceed(w)
    PROVE  Cursor'
  <1> USE ConstantsAssumption DEF WalletInv, TypeOK, Cursor
  <1>1. CASE StartRun(w) BY <1>1 DEF StartRun
  <1>2. CASE Claim(w) BY <1>2 DEF Claim
  <1>3. CASE EndRun(w) BY <1>3 DEF EndRun, Drop
  <1>4. CASE RecordReply(w) BY <1>4 DEF RecordReply, Record, AfterReply
  <1>5. CASE CheckLegs(w)
    BY <1>5, CheckLegsShape, CursorMoves DEF NextRow
  <1>6. CASE StampSettled(w) BY <1>6 DEF StampSettled, NextRow
  <1>7. CASE ConfirmDebit(w) BY <1>7 DEF ConfirmDebit, NextRow
  <1>8. CASE ReverseDebit(w) BY <1>8 DEF ReverseDebit
  <1>9. CASE CheckReversal(w)
    <2>1. pc[w] = "check" /\ UNCHANGED reply
      BY <1>9 DEF CheckReversal
    <2>2. NextRow(w) \/ (pc' = [pc EXCEPT ![w] = "credit"] /\ UNCHANGED cur)
      BY <1>9, Zenon DEF CheckReversal
    <2> QED BY <2>1, <2>2, CursorMoves
  <1>10. CASE CreditReversal(w) BY <1>10 DEF CreditReversal, NextRow
  <1>11. ASSUME NEW p \in Payouts,
                Unblock(w, p) \/ Recheck(w, p) \/ ParkMissingBank(w, p)
         PROVE  Cursor'
    BY <1>11 DEF Unblock, PromoteBlocked, Recheck, ParkMissingBank
  <1>12. ASSUME NEW p \in Payouts, UnknownGateway(w, p) PROVE Cursor'
    BY <1>12 DEF UnknownGateway, Drop
  <1>13. ASSUME NEW p \in Payouts, NEW out \in plan.answers, CallGateway(w, p, out)
         PROVE  Cursor'
    BY <1>13 DEF CallGateway
  <1> QED BY <1>1, <1>2, <1>3, <1>4, <1>5, <1>6, <1>7, <1>8, <1>9, <1>10, <1>11,
             <1>12, <1>13 DEF Proceed

LEMMA WalletProceed ==
    ASSUME WalletInv, NEW w \in Workers, Proceed(w)
    PROVE  WalletInv'
  <1>1. TypeOK'
    BY TypeProceed DEF WalletInv
  <1>2. Cursor'
    BY CursorProceed
  <1>3. ASSUME NEW p \in Payouts, IsWallet(p)
        PROVE  OneHandler(p)' /\ Progress(p)'
    <2>1. CASE \/ StartRun(w) \/ RecordReply(w) \/ CheckLegs(w) \/ StampSettled(w)
               \/ ConfirmDebit(w) \/ ReverseDebit(w) \/ CheckReversal(w)
               \/ \E q \in Payouts : Unblock(w, q) \/ ParkMissingBank(w, q)
      BY <1>3, <2>1, WalletIdleSteps
    <2>2. CASE Claim(w)
      BY <1>3, <2>2, WalletClaim
    <2>3. CASE \E q \in Payouts : Recheck(w, q)
      BY <1>3, <2>3, WalletRecheck
    <2>4. CASE \E q \in Payouts, out \in plan.answers : CallGateway(w, q, out)
      BY <1>3, <2>4, WalletCall
    <2>5. CASE CreditReversal(w)
      BY <1>3, <2>5, WalletCredit
    <2>6. CASE EndRun(w) \/ \E q \in Payouts : UnknownGateway(w, q)
      BY <1>3, <2>6, WalletDrop DEF EndRun, UnknownGateway
    <2> QED BY <2>1, <2>2, <2>3, <2>4, <2>5, <2>6 DEF Proceed
  <1> QED BY <1>1, <1>2, <1>3 DEF WalletInv, IsWallet

\* The strengthening that makes the safety of withdrawals inductive.
THEOREM WalletInvariant == Spec => []WalletInv
  <1>1. WalletInv /\ [Next]_vars => WalletInv'
    <2> SUFFICES ASSUME WalletInv, [Next]_vars PROVE WalletInv'
      OBVIOUS
    <2>1. CASE Next
      BY <2>1, NextShape, WalletRow, WalletProceed, WalletRefund, WalletCrash
    <2>2. CASE UNCHANGED vars
      BY <2>2 DEF vars, WalletInv, TypeOK, Cursor, OneHandler, Progress, Untouched,
                  Handles, Queued, Claimable, NotMovedBy, Reversing, TellsTheTruth,
                  ledger, worker, clawback
    <2> QED BY <2>1, <2>2
  <1> QED BY WalletInit, <1>1, PTL DEF Spec

\* No withdrawal is transferred or credited back twice, for any number of
\* overlapping and dying sweeps and any intervention of the operators.
THEOREM WithdrawalSafety == Spec => []WithdrawalAtMostOnce
  <1>1. WalletInv => WithdrawalAtMostOnce
    BY DEF WalletInv, WithdrawalAtMostOnce, Progress
  <1> QED BY WalletInvariant, <1>1, PTL

\* Unless a gateway hides a transfer behind a failure, no withdrawal is both
\* transferred and credited back.
THEOREM ReversalSafety == Spec => []NeverSentAndReversed
  <1>1. WalletInv => NeverSentAndReversed
    BY DEF WalletInv, NeverSentAndReversed, Progress, TellsTheTruth
  <1> QED BY WalletInvariant, <1>1, PTL

-----------------------------------------------------------------------------
(***************************************************************************)
(* The shares of an order.  Unless a first pass that had read a row before *)
(* it moved on puts it back, or an operator holds it while it is out, a    *)
(* claimed share is in the hands of the one sweep that claimed it until    *)
(* that sweep parks it unsent or sends it, and in between its status is    *)
(* none in which it could be claimed or cancelled.                         *)
(***************************************************************************)
Taken(p)    == status[p] \in {"processing", "paid", "failed"}
Unqueued(p) == \A w \in Workers : ~Queued(w, p)

Leg(p) ==
    /\ sent[p] <= 1
    /\ sent[p] > 0 => Taken(p) /\ Unqueued(p)
    /\ Taken(p) \/ Unqueued(p)
    /\ \A v, w \in Workers : Queued(v, p) /\ Queued(w, p) => v = w
    /\ \A w \in Workers : p \in due[w] => p \notin still[w]

LegInv == TypeOK /\ \A p \in Payouts : ~IsWallet(p) /\ p \notin putBack => Leg(p)

LEMMA LegInit == Init => LegInv
  <1> SUFFICES ASSUME Init PROVE LegInv
    OBVIOUS
  <1>1. \A p \in Payouts : Leg(p)
    BY DEF Init, Leg, Unqueued, Queued
  <1> QED BY <1>1, TypeInit DEF LegInv

\* A step that sends nothing and gives the row to no sweep; it may take the row out
\* of the hands of the sweeps.
LEMMA LegQuiet ==
    ASSUME NEW p \in Payouts, Leg(p), UNCHANGED sent,
           \A w \in Workers : /\ p \in due'[w] => p \in due[w]
                              /\ p \in still'[w] => p \in still[w],
           \/ Taken(p)' \/ status'[p] = status[p]
           \/ sent[p] = 0 /\ Unqueued(p)'
    PROVE  Leg(p)'
  <1>1. \A w \in Workers : Queued(w, p)' => Queued(w, p)
    BY DEF Queued
  <1>2. Unqueued(p) => Unqueued(p)'
    BY <1>1 DEF Unqueued
  <1>3. status'[p] = status[p] => (Taken(p)' <=> Taken(p))
    BY DEF Taken
  <1> QED BY <1>1, <1>2, <1>3 DEF Leg

\* Nobody has a row that is not taken, and it has not been sent.
LEMMA LegFree ==
    ASSUME LegInv, NEW p \in Payouts, Leg(p), ~Taken(p)
    PROVE  sent[p] = 0 /\ Unqueued(p)
  BY DEF LegInv, TypeOK, Leg

LEMMA LegRow ==
    ASSUME LegInv, NEW q \in Payouts, RowStep(q)
    PROVE  LegInv'
  <1>1. TypeOK'
    BY TypeRow DEF LegInv
  <1>2. UNCHANGED <<sent, due, still>> /\ putBack \subseteq putBack'
    BY DEF RowStep, Schedule, HoldExpires, PostureChanges, Withdraw, WithdrawDebit,
           WithdrawDies, OpsHold, OpsRelease, OpsClawback, SellerMarkPaid,
           ledger, worker
  <1>3. ASSUME NEW p \in Payouts, ~IsWallet(p), p \notin putBack' PROVE Leg(p)'
    <2>1. Leg(p)
      BY <1>2, <1>3 DEF LegInv
    <2>2. Taken(p)' \/ status'[p] = status[p] \/ ~Taken(p)
      <3> USE <1>3 DEF LegInv, TypeOK, Taken, ledger
      <3>1. CASE Schedule(q) BY <3>1 DEF Schedule
      <3>2. CASE HoldExpires(q) \/ PostureChanges(q) \/ WithdrawDebit(q) \/ WithdrawDies(q)
        BY <3>2 DEF HoldExpires, PostureChanges, WithdrawDebit, WithdrawDies
      <3>3. CASE Withdraw(q) BY <3>3 DEF Withdraw
      <3>4. CASE OpsHold(q) BY <3>4 DEF OpsHold
      <3>5. CASE OpsRelease(q) BY <3>5 DEF OpsRelease
      <3>6. CASE OpsClawback(q) BY <3>6 DEF OpsClawback
      <3>7. CASE SellerMarkPaid(q) BY <3>7 DEF SellerMarkPaid
      <3> QED BY <3>1, <3>2, <3>3, <3>4, <3>5, <3>6, <3>7 DEF RowStep
    <2>3. ~Taken(p) => sent[p] = 0 /\ Unqueued(p)'
      BY <1>2, <2>1, LegFree DEF Unqueued, Queued
    <2> QED BY <1>2, <2>1, <2>2, <2>3, LegQuiet
  <1> QED BY <1>1, <1>3 DEF LegInv, IsWallet

LEMMA LegRefund ==
    ASSUME LegInv, NEW c \in Clawers, RefundStep(c)
    PROVE  LegInv'
  <1>1. TypeOK'
    BY TypeRefund DEF LegInv
  <1>2. UNCHANGED <<sent, due, still, putBack>>
    BY DEF RefundStep, ClawStart, CancelLeg, CancelUnless, OweLeg, ClawDies, worker
  <1>3. ASSUME NEW p \in Payouts, ~IsWallet(p), p \notin putBack' PROVE Leg(p)'
    <2>1. Leg(p)
      BY <1>2, <1>3 DEF LegInv
    <2>2. status'[p] = status[p] \/ ~Taken(p)
      BY DEF RefundStep, ClawStart, CancelLeg, CancelUnless, OweLeg, ClawDies,
             NotStarted, LegInv, TypeOK, Taken, ledger
    <2>3. ~Taken(p) => sent[p] = 0 /\ Unqueued(p)'
      BY <1>2, <2>1, LegFree DEF Unqueued, Queued
    <2> QED BY <1>2, <2>1, <2>2, <2>3, LegQuiet
  <1> QED BY <1>1, <1>3 DEF LegInv, IsWallet

LEMMA LegDrop ==
    ASSUME LegInv, NEW w \in Workers, Drop(w)
    PROVE  /\ UNCHANGED putBack
           /\ \A p \in Payouts : ~IsWallet(p) /\ p \notin putBack => Leg(p)'
  <1>1. ASSUME NEW p \in Payouts, ~IsWallet(p), p \notin putBack PROVE Leg(p)'
    <2>1. Leg(p) /\ UNCHANGED <<sent, status>>
      BY <1>1 DEF LegInv, Drop, ledger
    <2>2. \A v \in Workers : /\ p \in due'[v] => p \in due[v]
                             /\ p \in still'[v] => p \in still[v]
      BY DEF LegInv, TypeOK, Drop
    <2> QED BY <2>1, <2>2, LegQuiet
  <1> QED BY <1>1 DEF Drop

\* Whoever gives up its only copy of a row leaves it in nobody's hands.
LEMMA LegLetGo ==
    ASSUME NEW p \in Payouts, Leg(p), NEW w \in Workers, Queued(w, p),
           ~Queued(w, p)', \A v \in Workers : Queued(v, p)' => Queued(v, p)
    PROVE  Unqueued(p)'
  BY DEF Leg, Unqueued

LEMMA LegClaim ==
    ASSUME LegInv, NEW w \in Workers, Claim(w), NEW p \in Payouts, Leg(p)
    PROVE  Leg(p)'
  <1> USE DEF LegInv, TypeOK
  <1>1. /\ UNCHANGED <<sent, still>>
        /\ due' = [due EXCEPT ![w] = {q \in Payouts : Claimable(q)}]
        /\ status'[p] = IF Claimable(p) THEN "processing" ELSE status[p]
    BY DEF Claim
  <1>2. CASE Claimable(p)
    <2>1. sent[p] = 0 /\ Unqueued(p)
      BY <1>2, LegFree DEF Claimable, Taken
    <2>2. Taken(p)'
      BY <1>1, <1>2 DEF Taken
    <2>3. \A v \in Workers : p \notin still'[v] /\ (p \in due'[v] => v = w)
      BY <1>1, <2>1 DEF Unqueued, Queued
    <2> QED BY <1>1, <2>1, <2>2, <2>3 DEF Leg, Queued
  <1>3. CASE ~Claimable(p)
    <2>1. \A v \in Workers : p \in due'[v] => p \in due[v]
      BY <1>1, <1>3
    <2> QED BY <1>1, <1>3, <2>1, LegQuiet
  <1> QED BY <1>2, <1>3

LEMMA LegRecheck ==
    ASSUME LegInv, NEW w \in Workers, NEW q \in Payouts, Recheck(w, q),
           NEW p \in Payouts, Leg(p)
    PROVE  Leg(p)'
  <1> USE DEF LegInv, TypeOK
  <1>1. UNCHANGED sent /\ q \in due[w] /\ due' = [due EXCEPT ![w] = @ \ {q}]
    BY DEF Recheck
  <1>2. CASE UNCHANGED status /\ still' = [still EXCEPT ![w] = @ \cup {q}]
    <2>1. \A v \in Workers : Queued(v, p)' <=> Queued(v, p)
      BY <1>1, <1>2 DEF Queued
    <2>2. \A v \in Workers : p \in due'[v] => p \notin still'[v]
      BY <1>1, <1>2 DEF Leg
    <2> QED BY <1>1, <1>2, <2>1, <2>2 DEF Leg, Unqueued, Taken
  <1>3. CASE status' = [status EXCEPT ![q] = "blocked"] /\ UNCHANGED still
    <2>1. \A v \in Workers : Queued(v, p)' => Queued(v, p)
      BY <1>1, <1>3 DEF Queued
    <2>2. ASSUME p = q PROVE sent[p] = 0 /\ Unqueued(p)'
      <3>1. Queued(w, p) /\ ~Queued(w, p)'
        BY <1>1, <1>3, <2>2 DEF Leg, Queued
      <3>2. Unqueued(p)'
        BY <2>1, <3>1, LegLetGo
      <3> QED BY <3>1, <3>2 DEF Leg, Unqueued
    <2> QED BY <1>1, <1>3, <2>2, LegQuiet
  <1> QED BY <1>2, <1>3 DEF Recheck

LEMMA LegPark ==
    ASSUME LegInv, NEW w \in Workers, NEW q \in Payouts, ParkMissingBank(w, q),
           NEW p \in Payouts, Leg(p)
    PROVE  Leg(p)'
  <1> USE DEF LegInv, TypeOK
  <1>1. /\ UNCHANGED <<sent, due>> /\ due[w] = {} /\ q \in still[w]
        /\ still' = [still EXCEPT ![w] = @ \ {q}]
        /\ status' = [status EXCEPT ![q] = "scheduled"]
    BY DEF ParkMissingBank
  <1>2. \A v \in Workers : Queued(v, p)' => Queued(v, p)
    BY <1>1 DEF Queued
  <1>3. ASSUME p = q PROVE sent[p] = 0 /\ Unqueued(p)'
    <2>1. Queued(w, p) /\ ~Queued(w, p)'
      BY <1>1, <1>3 DEF Queued
    <2>2. Unqueued(p)'
      BY <1>2, <2>1, LegLetGo
    <2> QED BY <2>1, <2>2 DEF Leg, Unqueued
  <1> QED BY <1>1, <1>3, LegQuiet

\* Sending: the row leaves the only sweep that has it, and had not been sent.
LEMMA LegCall ==
    ASSUME LegInv, NEW w \in Workers, NEW q \in Payouts, NEW out \in plan.answers,
           CallGateway(w, q, out), NEW p \in Payouts, Leg(p)
    PROVE  Leg(p)'
  <1> USE DEF LegInv, TypeOK
  <1>1. /\ UNCHANGED <<status, due>> /\ due[w] = {} /\ q \in still[w]
        /\ still' = [still EXCEPT ![w] = @ \ {q}]
        /\ sent' = sent \/ sent' = [sent EXCEPT ![q] = @ + 1]
    BY DEF CallGateway, ledger
  <1>2. \A v \in Workers : Queued(v, p)' => Queued(v, p)
    BY <1>1 DEF Queued
  <1>3. CASE p # q
    <2>1. sent'[p] = sent[p] /\ status'[p] = status[p]
      BY <1>1, <1>3
    <2>2. Unqueued(p) => Unqueued(p)'
      BY <1>2 DEF Unqueued
    <2> QED BY <1>1, <1>2, <2>1, <2>2 DEF Leg, Taken
  <1>4. CASE p = q
    <2>1. Queued(w, p) /\ ~Queued(w, p)'
      BY <1>1, <1>4 DEF Queued
    <2>2. Unqueued(p)'
      BY <1>2, <2>1, LegLetGo
    <2>3. sent[p] = 0 /\ Taken(p)
      BY <2>1 DEF Leg, Unqueued
    <2>4. sent'[p] <= 1 /\ Taken(p)'
      BY <1>1, <1>4, <2>3 DEF Taken
    <2> QED BY <2>2, <2>4 DEF Leg, Unqueued, Queued
  <1> QED BY <1>3, <1>4

\* The first pass writes over the status of the row it visits; unless that puts the
\* row back, nobody has it.
LEMMA LegUnblock ==
    ASSUME LegInv, NEW w \in Workers, NEW q \in Payouts, Unblock(w, q),
           NEW p \in Payouts, Leg(p), p \notin putBack'
    PROVE  Leg(p)'
  <1> USE DEF LegInv, TypeOK
  <1>1. UNCHANGED <<sent, due, still>>
    BY DEF Unblock, PromoteBlocked
  <1>2. status'[p] = status[p] \/ ~Taken(p)
    BY DEF Unblock, PromoteBlocked, Taken, Beyond
  <1>3. ~Taken(p) => sent[p] = 0 /\ Unqueued(p)'
    BY <1>1, LegFree DEF Unqueued, Queued
  <1> QED BY <1>1, <1>2, <1>3, LegQuiet

LEMMA LegProceed ==
    ASSUME LegInv, NEW w \in Workers, Proceed(w)
    PROVE  LegInv'
  <1>1. TypeOK'
    BY TypeProceed DEF LegInv
  <1>2. putBack \subseteq putBack'
    BY DEF Proceed, StartRun, Claim, EndRun, RecordReply, Record, CheckLegs, StampSettled,
           ConfirmDebit, ReverseDebit, CheckReversal, CreditReversal, Unblock,
           PromoteBlocked, Recheck, ParkMissingBank, UnknownGateway, CallGateway, Drop
  <1>3. ASSUME NEW p \in Payouts, ~IsWallet(p), p \notin putBack' PROVE Leg(p)'
    <2>0. Leg(p)
      BY <1>2, <1>3 DEF LegInv
    <2>1. CASE \/ StartRun(w) \/ CheckLegs(w) \/ StampSettled(w) \/ ConfirmDebit(w)
               \/ ReverseDebit(w) \/ CheckReversal(w) \/ CreditReversal(w)
      <3>1. UNCHANGED <<sent, status, due, still>>
        BY <2>1 DEF StartRun, CheckLegs, StampSettled, ConfirmDebit, ReverseDebit,
                    CheckReversal, CreditReversal, ledger
      <3> QED BY <2>0, <3>1, LegQuiet
    <2>2. CASE RecordReply(w)
      <3>1. UNCHANGED <<sent, due, still>>
        BY <2>2 DEF RecordReply, Record
      <3>2. Taken(p)' \/ status'[p] = status[p]
        BY <2>2 DEF RecordReply, Record, Taken, LegInv, TypeOK
      <3> QED BY <2>0, <3>1, <3>2, LegQuiet
    <2>3. CASE Claim(w)
      BY <2>0, <2>3, LegClaim
    <2>4. CASE \E q \in Payouts : Unblock(w, q)
      BY <1>3, <2>0, <2>4, LegUnblock
    <2>5. CASE \E q \in Payouts : Recheck(w, q)
      BY <2>0, <2>5, LegRecheck
    <2>6. CASE \E q \in Payouts : ParkMissingBank(w, q)
      BY <2>0, <2>6, LegPark
    <2>7. CASE \E q \in Payouts, out \in plan.answers : CallGateway(w, q, out)
      BY <2>0, <2>7, LegCall
    <2>8. CASE EndRun(w) \/ \E q \in Payouts : UnknownGateway(w, q)
      BY <1>2, <1>3, <2>8, LegDrop DEF EndRun, UnknownGateway
    <2> QED BY <2>1, <2>2, <2>3, <2>4, <2>5, <2>6, <2>7, <2>8 DEF Proceed
  <1> QED BY <1>1, <1>3 DEF LegInv, IsWallet

\* A share is sent once, and not at all while it is cancelled, by any number of
\* sweeps that overlap, die and start over and of clawbacks that cross them, whatever
\* the operators do; the exception is the row put back by a first pass that had read
\* it earlier, or held in a sweep's hands.
THEOREM LegSafety == Spec => []LegPaidOnce
  <1>1. LegInv /\ [Next]_vars => LegInv'
    <2> SUFFICES ASSUME LegInv, [Next]_vars PROVE LegInv'
      OBVIOUS
    <2>1. CASE \E p \in Payouts : RowStep(p)
      BY <2>1, LegRow
    <2>2. CASE \E w \in Workers : Proceed(w)
      BY <2>2, LegProceed
    <2>3. CASE \E w \in Workers : Crash(w)
      BY <2>3, LegDrop, TypeCrash DEF LegInv, Crash, IsWallet
    <2>4. CASE \E c \in Clawers : RefundStep(c)
      BY <2>4, LegRefund
    <2>5. CASE UNCHANGED vars
      BY <2>5 DEF vars, LegInv, TypeOK, Leg, Taken, Unqueued, Queued,
                  ledger, worker, clawback
    <2> QED BY <2>1, <2>2, <2>3, <2>4, <2>5, NextShape
  <1>2. LegInv => LegPaidOnce
    BY DEF LegInv, Leg, Taken, LegPaidOnce, TypeOK
  <1> QED BY LegInit, <1>1, <1>2, PTL DEF Spec
=============================================================================
