----------------------------- MODULE AccessProofs -----------------------------
(***************************************************************************)
(* Who may act: what Approvals and Mfa promise, for any number of turns,   *)
(* replicas and calls, and of requests, ticks, operations and faults.      *)
(*                                                                         *)
(* The invariants of Approvals follow from what is known of the call at    *)
(* which each turn is (AtCall) and from the fact that no set names a call  *)
(* that has not been made (Past), by which a new call starts with a clean  *)
(* record.                                                                 *)
(*                                                                         *)
(* Those of Mfa follow from three facts: a sheet of backup codes is fresh  *)
(* until it is stored, and a code on the row is unused (Fresh, Unused), so *)
(* that the conditional UPDATE that takes a code off accepts it once; the  *)
(* marker of the mail stands for somebody who is sending, for a mail that  *)
(* was sent or for a fault (Marked); and who claims it finds that nobody   *)
(* has sent before (Once).  The marker of the nudges, which names a band   *)
(* of backup codes, is stamped only upwards, so that a band above it has   *)
(* been told to nobody (Told); and who takes it back finds the bands above *)
(* the old marker clean again (Reversible).                                *)
(***************************************************************************)
EXTENDS Approvals, Mfa, FiniteSetTheorems, TLAPS

\* Nothing is known of calls to come.
Past ==
    /\ \A c \in ran \cup gated \cup muted : c[2] <= nth[c[1]]
    /\ \A e \in trail : e[1][2] <= nth[e[1][1]]

Recorded(c, kind) == c \in muted \/ <<c, kind>> \in trail

\* What is known of the call at which a turn is, by the turn's label.
AtCall(t) ==
    /\ pc[t] \in {"propose", "produce", "register", "await", "approved", "refused", "dispatch"}
           => Call(t) \notin ran /\ (<<Call(t), "tool_rejected">> \notin trail)
    /\ pc[t] \in {"produce", "register", "await", "approved"}
           => Recorded(Call(t), "tool_proposed")
    /\ pc[t] = "approved" => <<Call(t), "approved">> \in decided
    /\ (pc[t] = "dispatch" /\ Call(t) \in gated) =>
           /\ <<Call(t), "approved">> \in decided
           /\ Recorded(Call(t), "tool_proposed") /\ Recorded(Call(t), "tool_approved")

TurnInv == \A t \in Turns : AtCall(t)

Safe == RunsOnlyApproved /\ RejectedNeverRuns /\ RunsAreOnRecord

IInv == TypeOK /\ Past /\ TurnInv /\ Safe

-----------------------------------------------------------------------------
\* A call that is named in a decision is a turn's.
LEMMA AnswerOfTurn ==
    ASSUME TypeOK, NEW a \in answers
    PROVE  a[1][1] \in Turns /\ a[1] \in Calls /\ a[2] \in Decisions /\ a \in decided
              /\ a = <<a[1], a[2]>>
BY DEF TypeOK, Calls

\* Calls of different turns are different.
LEMMA CallsDiffer ==
    ASSUME NEW t \in Turns, NEW u \in Turns, u # t
    PROVE  Call(u) # Call(t)
BY DEF Call

LEMMA InitInv == Init => IInv
<1> SUFFICES ASSUME Init PROVE IInv
  OBVIOUS
<1> USE ApprovalsAssumption DEF Init
<1>1. TypeOK
  BY DEF TypeOK, Replicas, Labels, Config, Tools
<1>2. Past /\ TurnInv /\ Safe
  BY DEF Past, TurnInv, AtCall, Safe, RunsOnlyApproved, RejectedNeverRuns, RunsAreOnRecord
<1> QED BY <1>1, <1>2 DEF IInv

-----------------------------------------------------------------------------
(* Type correctness.                                                       *)

\* Every step of a turn keeps the types.
LEMMA ContinueType ==
    ASSUME TypeOK, NEW t \in Turns, Message(t) \/ Continue(t)
    PROVE  TypeOK'
<1> USE ApprovalsAssumption DEF TypeOK, Goto, topics, records, turn, Labels
<1>0. (pc[t] \notin {"idle", "next", "ended", "lost"}) => Call(t) \in Calls
  BY DEF Call, Calls
<1>1. CASE Message(t)
  BY <1>0, <1>1 DEF Message
<1>2. ASSUME NEW c \in Tools, NextCall(t, c)
     PROVE  TypeOK'
  BY <1>0, <1>2 DEF NextCall, FirstStep, Gated, Tools, Calls
<1>3. CASE Answer(t)
  BY <1>0, <1>3 DEF Answer
<1>4. CASE Propose(t)
  BY <1>0, <1>4 DEF Propose, Audit, AuditKinds
<1>5. CASE Produce(t)
  BY <1>0, <1>5 DEF Produce
<1>6. CASE Register(t)
  BY <1>0, <1>6 DEF Register
<1>7. CASE Expire(t)
  BY <1>0, <1>7 DEF Expire, Timer
<1>8. CASE Refuse(t)
  BY <1>0, <1>8 DEF Refuse, Audit, AfterRefusal, AuditKinds
<1>9. CASE Approve(t)
  BY <1>0, <1>9 DEF Approve, Audit, AuditKinds
<1>10. CASE Dispatch(t)
  BY <1>0, <1>10 DEF Dispatch, Gated
<1>11. CASE Dispatched(t)
  BY <1>0, <1>11 DEF Dispatched, Audit, AuditKinds
<1> QED BY <1>1, <1>2, <1>3, <1>4, <1>5, <1>6, <1>7, <1>8, <1>9, <1>10, <1>11 DEF Continue

\* So does every step of the bus, of the operators and of the processes.
LEMMA WorldType ==
    ASSUME TypeOK,
           \/ \E c \in proposed, d \in Decisions : Decide(c, d)
           \/ \E r \in up, a \in answers : Consume(r, a)
           \/ \E r \in config.replicas : Stop(r) \/ Exit(r)
    PROVE  TypeOK'
<1> USE ApprovalsAssumption DEF TypeOK, topics, records, turn, Labels
<1>1. ASSUME NEW c \in proposed, NEW d \in Decisions, Decide(c, d)
      PROVE  TypeOK'
  BY <1>1 DEF Decide
<1>2. ASSUME NEW r \in up, NEW a \in answers, Consume(r, a)
      PROVE  TypeOK'
  <2> DEFINE t == a[1][1]
  <2>1. t \in Turns /\ a[1] \in proposed
    BY AnswerOfTurn DEF Decisions
  <2>2. (\E u \in Turns : WaitsHere(u, r, a[1])) => pc[t] = "await"
    BY <2>1 DEF WaitsHere, Call
  <2>3. CASE \E u \in Turns : WaitsHere(u, r, a[1])
    BY <1>2, <2>1, <2>2, <2>3 DEF Consume, Goto, Verdict
  <2>4. CASE ~ \E u \in Turns : WaitsHere(u, r, a[1])
    BY <1>2, <2>1, <2>4 DEF Consume
  <2> QED BY <2>3, <2>4
<1>3. ASSUME NEW r \in config.replicas, Stop(r) PROVE TypeOK'
  BY <1>3 DEF Stop
<1>4. ASSUME NEW r \in config.replicas, Exit(r) PROVE TypeOK'
  BY <1>4 DEF Exit
<1> QED BY <1>1, <1>2, <1>3, <1>4

-----------------------------------------------------------------------------
(* The inductive step.                                                     *)

\* The calls of a turn are counted.
LEMMA NumberIsNat ==
    ASSUME TypeOK, NEW t \in Turns
    PROVE  nth[t] \in Nat
BY ApprovalsAssumption DEF TypeOK

\* A step of a turn preserves what is known of every turn's call.
LEMMA ContinueInv ==
    ASSUME IInv, NEW t \in Turns, Message(t) \/ Continue(t)
    PROVE  IInv'
<1> USE DEF Goto, topics, records, turn
<1>0. TypeOK /\ Past /\ TurnInv /\ Safe /\ TypeOK'
  BY ContinueType DEF IInv
<1>c. \A u \in Turns : nth[u] \in Nat
  BY <1>0, NumberIsNat
<1>d. \A u \in Turns : u # t => Call(u) # Call(t)
  BY CallsDiffer
<1> SUFFICES Past' /\ TurnInv' /\ Safe'
  BY <1>0 DEF IInv
<1>1. CASE Message(t)
  <2>0. nth' = nth /\ gated' = gated /\ \A u \in Turns : Call(u)' = Call(u)
    BY <1>1 DEF Message, Call
  <2>1. Past'
    BY <1>0, <1>1, <2>0 DEF Message, Past
  <2>2. TurnInv'
    <3> SUFFICES ASSUME NEW u \in Turns PROVE AtCall(u)'
      BY DEF TurnInv
    <3>1. CASE u # t
      BY <1>0, <1>1, <2>0, <1>d, <3>1 DEF Message, TurnInv, AtCall, Recorded, TypeOK
    <3>2. CASE u = t
      BY <1>0, <1>1, <2>0, <3>2 DEF Message, TurnInv, AtCall, Recorded, TypeOK
    <3> QED BY <3>1, <3>2
  <2>3. Safe'
    BY <1>0, <1>1, <2>0 DEF Message, TurnInv, AtCall, Recorded, Safe, RunsOnlyApproved,
       RejectedNeverRuns, RunsAreOnRecord
  <2> QED BY <2>1, <2>2, <2>3
<1>2. ASSUME NEW c \in Tools, NextCall(t, c)
     PROVE  Past' /\ TurnInv' /\ Safe'
  <2>1. Past'
    BY <1>0, <1>c, <1>2 DEF NextCall, FirstStep, Gated, Tools, Past, TypeOK, Calls
  <2>2. \A u \in Turns : u # t => Call(u)' = Call(u)
    BY <1>0, <1>2 DEF NextCall, Call, TypeOK
  <2>3. Call(t)' = <<t, nth[t] + 1>>
    BY <1>0, <1>2 DEF NextCall, Call, TypeOK
  <2>a. Call(t)'[1] = t /\ Call(t)'[2] = nth[t] + 1
    BY <2>3
  <2>b. ~(nth[t] + 1 <= nth[t])
    BY <1>c
  <2>4. Call(t)' \notin ran \cup gated \cup muted /\ \A e \in trail : e[1] # Call(t)'
    BY <1>0, <2>a, <2>b DEF Past
  <2>5. \A u \in Turns : u # t => Call(u) # Call(t)'
    BY <2>3 DEF Call
  <2>6. TurnInv'
    <3> SUFFICES ASSUME NEW u \in Turns PROVE AtCall(u)'
      BY DEF TurnInv
    <3>1. CASE u # t
      BY <1>0, <1>2, <2>2, <2>3, <2>5, <1>d, <3>1 DEF NextCall, FirstStep, Gated, Tools, TurnInv, AtCall, Recorded, TypeOK
    <3>2. CASE u = t
      BY <1>0, <1>2, <2>3, <2>4, <3>2 DEF NextCall, FirstStep, Gated, Tools, AtCall, Recorded, TypeOK
    <3> QED BY <3>1, <3>2
  <2>7. Safe'
    BY <1>0, <1>2, <2>3, <2>4 DEF NextCall, FirstStep, Gated, Tools, Safe, RunsOnlyApproved, RejectedNeverRuns, RunsAreOnRecord
  <2> QED BY <2>1, <2>6, <2>7
<1>3. CASE Answer(t)
  <2>0. nth' = nth /\ gated' = gated /\ \A u \in Turns : Call(u)' = Call(u)
    BY <1>3 DEF Answer, Call
  <2>1. Past'
    BY <1>0, <1>3, <2>0 DEF Answer, Past
  <2>2. TurnInv'
    <3> SUFFICES ASSUME NEW u \in Turns PROVE AtCall(u)'
      BY DEF TurnInv
    <3>1. CASE u # t
      BY <1>0, <1>3, <2>0, <1>d, <3>1 DEF Answer, TurnInv, AtCall, Recorded, TypeOK
    <3>2. CASE u = t
      BY <1>0, <1>3, <2>0, <3>2 DEF Answer, TurnInv, AtCall, Recorded, TypeOK
    <3> QED BY <3>1, <3>2
  <2>3. Safe'
    BY <1>0, <1>3, <2>0 DEF Answer, TurnInv, AtCall, Recorded, Safe, RunsOnlyApproved,
       RejectedNeverRuns, RunsAreOnRecord
  <2> QED BY <2>1, <2>2, <2>3
<1>4. CASE Propose(t)
  <2>0. nth' = nth /\ gated' = gated /\ \A u \in Turns : Call(u)' = Call(u)
    BY <1>4 DEF Propose, Call
  <2>a. /\ trail \subseteq trail' /\ muted \subseteq muted' /\ ran' = ran
        /\ \A c \in muted' : c \in muted \/ c = Call(t)
        /\ \A e \in trail' : e \in trail \/ e[1] = Call(t)
        /\ \A c, k : <<c, k>> \in trail' => <<c, k>> \in trail \/ c = Call(t)
    BY <1>4 DEF Propose, Audit
  <2>1. Past'
    <3>1. Call(t)[2] <= nth[Call(t)[1]]
      <4>1. Call(t)[1] = t /\ Call(t)[2] = nth[t]
        BY DEF Call
      <4> QED BY <4>1, <1>c
    <3> QED BY <1>0, <2>0, <2>a, <3>1 DEF Past
  <2>2. TurnInv'
    <3> SUFFICES ASSUME NEW u \in Turns PROVE AtCall(u)'
      BY DEF TurnInv
    <3>1. CASE u # t
      <4>1. pc'[u] = pc[u] /\ Call(u) # Call(t) /\ decided' = decided
        BY <1>0, <1>d, <1>4, <3>1 DEF Propose, TypeOK
      <4> QED BY <1>0, <2>0, <2>a, <4>1 DEF TurnInv, AtCall, Recorded
    <3>2. CASE u = t
      BY <1>0, <1>4, <2>0, <3>2 DEF Propose, Audit, TurnInv, AtCall, Recorded, TypeOK
    <3> QED BY <3>1, <3>2
  <2>3. Safe'
    BY <1>0, <1>4, <2>0 DEF Propose, Audit, TurnInv, AtCall, Recorded, Safe, RunsOnlyApproved,
       RejectedNeverRuns, RunsAreOnRecord
  <2> QED BY <2>1, <2>2, <2>3
<1>5. CASE Produce(t)
  <2>0. nth' = nth /\ gated' = gated /\ \A u \in Turns : Call(u)' = Call(u)
    BY <1>5 DEF Produce, Call
  <2>1. Past'
    BY <1>0, <1>5, <2>0 DEF Produce, Past
  <2>2. TurnInv'
    <3> SUFFICES ASSUME NEW u \in Turns PROVE AtCall(u)'
      BY DEF TurnInv
    <3>1. CASE u # t
      BY <1>0, <1>5, <2>0, <1>d, <3>1 DEF Produce, TurnInv, AtCall, Recorded, TypeOK
    <3>2. CASE u = t
      BY <1>0, <1>5, <2>0, <3>2 DEF Produce, TurnInv, AtCall, Recorded, TypeOK
    <3> QED BY <3>1, <3>2
  <2>3. Safe'
    BY <1>0, <1>5, <2>0 DEF Produce, TurnInv, AtCall, Recorded, Safe, RunsOnlyApproved,
       RejectedNeverRuns, RunsAreOnRecord
  <2> QED BY <2>1, <2>2, <2>3
<1>6. CASE Register(t)
  <2>0. nth' = nth /\ gated' = gated /\ \A u \in Turns : Call(u)' = Call(u)
    BY <1>6 DEF Register, Call
  <2>1. Past'
    BY <1>0, <1>6, <2>0 DEF Register, Past
  <2>2. TurnInv'
    <3> SUFFICES ASSUME NEW u \in Turns PROVE AtCall(u)'
      BY DEF TurnInv
    <3>1. CASE u # t
      BY <1>0, <1>6, <2>0, <1>d, <3>1 DEF Register, TurnInv, AtCall, Recorded, TypeOK
    <3>2. CASE u = t
      BY <1>0, <1>6, <2>0, <3>2 DEF Register, TurnInv, AtCall, Recorded, TypeOK
    <3> QED BY <3>1, <3>2
  <2>3. Safe'
    BY <1>0, <1>6, <2>0 DEF Register, TurnInv, AtCall, Recorded, Safe, RunsOnlyApproved,
       RejectedNeverRuns, RunsAreOnRecord
  <2> QED BY <2>1, <2>2, <2>3
<1>7. CASE Expire(t)
  <2>0. nth' = nth /\ gated' = gated /\ \A u \in Turns : Call(u)' = Call(u)
    BY <1>7 DEF Expire, Call
  <2>1. Past'
    BY <1>0, <1>7, <2>0 DEF Expire, Timer, Past
  <2>2. TurnInv'
    <3> SUFFICES ASSUME NEW u \in Turns PROVE AtCall(u)'
      BY DEF TurnInv
    <3>1. CASE u # t
      BY <1>0, <1>7, <2>0, <1>d, <3>1 DEF Expire, Timer, TurnInv, AtCall, Recorded, TypeOK
    <3>2. CASE u = t
      BY <1>0, <1>7, <2>0, <3>2 DEF Expire, Timer, TurnInv, AtCall, Recorded, TypeOK
    <3> QED BY <3>1, <3>2
  <2>3. Safe'
    BY <1>0, <1>7, <2>0 DEF Expire, Timer, TurnInv, AtCall, Recorded, Safe, RunsOnlyApproved,
       RejectedNeverRuns, RunsAreOnRecord
  <2> QED BY <2>1, <2>2, <2>3
<1>8. CASE Refuse(t)
  <2>0. nth' = nth /\ gated' = gated /\ \A u \in Turns : Call(u)' = Call(u)
    BY <1>8 DEF Refuse, Call
  <2>a. /\ trail \subseteq trail' /\ muted \subseteq muted' /\ ran' = ran
        /\ \A c \in muted' : c \in muted \/ c = Call(t)
        /\ \A e \in trail' : e \in trail \/ e[1] = Call(t)
        /\ \A c, k : <<c, k>> \in trail' => <<c, k>> \in trail \/ c = Call(t)
    BY <1>8 DEF Refuse, Audit
  <2>1. Past'
    <3>1. Call(t)[2] <= nth[Call(t)[1]]
      <4>1. Call(t)[1] = t /\ Call(t)[2] = nth[t]
        BY DEF Call
      <4> QED BY <4>1, <1>c
    <3> QED BY <1>0, <2>0, <2>a, <3>1 DEF Past
  <2>2. TurnInv'
    <3> SUFFICES ASSUME NEW u \in Turns PROVE AtCall(u)'
      BY DEF TurnInv
    <3>1. CASE u # t
      <4>1. pc'[u] = pc[u] /\ Call(u) # Call(t) /\ decided' = decided
        BY <1>0, <1>d, <1>8, <3>1 DEF Refuse, TypeOK
      <4> QED BY <1>0, <2>0, <2>a, <4>1 DEF TurnInv, AtCall, Recorded
    <3>2. CASE u = t
      BY <1>0, <1>8, <2>0, <3>2 DEF Refuse, Audit, AfterRefusal, TurnInv, AtCall, Recorded, TypeOK
    <3> QED BY <3>1, <3>2
  <2>3. Safe'
    BY <1>0, <1>8, <2>0 DEF Refuse, Audit, AfterRefusal, TurnInv, AtCall, Recorded, Safe, RunsOnlyApproved,
       RejectedNeverRuns, RunsAreOnRecord
  <2> QED BY <2>1, <2>2, <2>3
<1>9. CASE Approve(t)
  <2>0. nth' = nth /\ gated' = gated /\ \A u \in Turns : Call(u)' = Call(u)
    BY <1>9 DEF Approve, Call
  <2>a. /\ trail \subseteq trail' /\ muted \subseteq muted' /\ ran' = ran
        /\ \A c \in muted' : c \in muted \/ c = Call(t)
        /\ \A e \in trail' : e \in trail \/ e[1] = Call(t)
        /\ \A c, k : <<c, k>> \in trail' => <<c, k>> \in trail \/ c = Call(t)
    BY <1>9 DEF Approve, Audit
  <2>1. Past'
    <3>1. Call(t)[2] <= nth[Call(t)[1]]
      <4>1. Call(t)[1] = t /\ Call(t)[2] = nth[t]
        BY DEF Call
      <4> QED BY <4>1, <1>c
    <3> QED BY <1>0, <2>0, <2>a, <3>1 DEF Past
  <2>2. TurnInv'
    <3> SUFFICES ASSUME NEW u \in Turns PROVE AtCall(u)'
      BY DEF TurnInv
    <3>1. CASE u # t
      <4>1. pc'[u] = pc[u] /\ Call(u) # Call(t) /\ decided' = decided
        BY <1>0, <1>d, <1>9, <3>1 DEF Approve, TypeOK
      <4> QED BY <1>0, <2>0, <2>a, <4>1 DEF TurnInv, AtCall, Recorded
    <3>2. CASE u = t
      BY <1>0, <1>9, <2>0, <3>2 DEF Approve, Audit, TurnInv, AtCall, Recorded, TypeOK
    <3> QED BY <3>1, <3>2
  <2>3. Safe'
    BY <1>0, <1>9, <2>0 DEF Approve, Audit, TurnInv, AtCall, Recorded, Safe, RunsOnlyApproved,
       RejectedNeverRuns, RunsAreOnRecord
  <2> QED BY <2>1, <2>2, <2>3
<1>10. CASE Dispatch(t)
  <2>0. nth' = nth /\ gated' = gated /\ \A u \in Turns : Call(u)' = Call(u)
    BY <1>10 DEF Dispatch, Call
  <2>a. /\ trail' = trail /\ muted' = muted
        /\ \A c \in ran' : c \in ran \/ c = Call(t)
    BY <1>10 DEF Dispatch
  <2>1. Past'
    <3>1. Call(t)[2] <= nth[Call(t)[1]]
      <4>1. Call(t)[1] = t /\ Call(t)[2] = nth[t]
        BY DEF Call
      <4> QED BY <4>1, <1>c
    <3> QED BY <1>0, <2>0, <2>a, <3>1 DEF Past
  <2>2. TurnInv'
    <3> SUFFICES ASSUME NEW u \in Turns PROVE AtCall(u)'
      BY DEF TurnInv
    <3>1. CASE u # t
      <4>1. pc'[u] = pc[u] /\ Call(u) # Call(t) /\ decided' = decided
        BY <1>0, <1>d, <1>10, <3>1 DEF Dispatch, TypeOK
      <4> QED BY <1>0, <2>0, <2>a, <4>1 DEF TurnInv, AtCall, Recorded
    <3>2. CASE u = t
      BY <1>0, <1>10, <2>0, <3>2 DEF Dispatch, Gated, TurnInv, AtCall, Recorded, TypeOK
    <3> QED BY <3>1, <3>2
  <2>3. Safe'
    BY <1>0, <1>10, <2>0 DEF Dispatch, Gated, TurnInv, AtCall, Recorded, Safe, RunsOnlyApproved,
       RejectedNeverRuns, RunsAreOnRecord
  <2> QED BY <2>1, <2>2, <2>3
<1>11. CASE Dispatched(t)
  <2>0. nth' = nth /\ gated' = gated /\ \A u \in Turns : Call(u)' = Call(u)
    BY <1>11 DEF Dispatched, Call
  <2>a. /\ trail \subseteq trail' /\ muted \subseteq muted' /\ ran' = ran
        /\ \A c \in muted' : c \in muted \/ c = Call(t)
        /\ \A e \in trail' : e \in trail \/ e[1] = Call(t)
        /\ \A c, k : <<c, k>> \in trail' => <<c, k>> \in trail \/ c = Call(t)
    BY <1>11 DEF Dispatched, Audit
  <2>1. Past'
    <3>1. Call(t)[2] <= nth[Call(t)[1]]
      <4>1. Call(t)[1] = t /\ Call(t)[2] = nth[t]
        BY DEF Call
      <4> QED BY <4>1, <1>c
    <3> QED BY <1>0, <2>0, <2>a, <3>1 DEF Past
  <2>2. TurnInv'
    <3> SUFFICES ASSUME NEW u \in Turns PROVE AtCall(u)'
      BY DEF TurnInv
    <3>1. CASE u # t
      <4>1. pc'[u] = pc[u] /\ Call(u) # Call(t) /\ decided' = decided
        BY <1>0, <1>d, <1>11, <3>1 DEF Dispatched, TypeOK
      <4> QED BY <1>0, <2>0, <2>a, <4>1 DEF TurnInv, AtCall, Recorded
    <3>2. CASE u = t
      BY <1>0, <1>11, <2>0, <3>2 DEF Dispatched, Audit, TurnInv, AtCall, Recorded, TypeOK
    <3> QED BY <3>1, <3>2
  <2>3. Safe'
    BY <1>0, <1>11, <2>0 DEF Dispatched, Audit, TurnInv, AtCall, Recorded, Safe, RunsOnlyApproved,
       RejectedNeverRuns, RunsAreOnRecord
  <2> QED BY <2>1, <2>2, <2>3
<1> QED BY <1>1, <1>2, <1>3, <1>4, <1>5, <1>6, <1>7, <1>8, <1>9, <1>10, <1>11 DEF Continue

\* So does a decision, the reading of one, and the end of a process: an answer is
\* for the call that waits, and it says what an operator decided.
LEMMA WorldInv ==
    ASSUME IInv,
           \/ \E c \in proposed, d \in Decisions : Decide(c, d)
           \/ \E r \in up, a \in answers : Consume(r, a)
           \/ \E r \in config.replicas : Stop(r) \/ Exit(r)
    PROVE  IInv'
<1> USE DEF topics, records, turn
<1>0. TypeOK /\ Past /\ TurnInv /\ Safe /\ TypeOK'
  BY WorldType DEF IInv
<1> SUFFICES Past' /\ TurnInv' /\ Safe'
  BY <1>0 DEF IInv
<1>1. ASSUME NEW c \in proposed, NEW d \in Decisions, Decide(c, d)
      PROVE  Past' /\ TurnInv' /\ Safe'
  <2>1. Past'
    BY <1>0, <1>1 DEF Decide, Past
  <2>2. TurnInv'
    BY <1>0, <1>1 DEF Decide, TurnInv, AtCall, Recorded, Call
  <2>3. Safe'
    BY <1>0, <1>1 DEF Decide, Safe, RunsOnlyApproved, RejectedNeverRuns, RunsAreOnRecord
  <2> QED BY <2>1, <2>2, <2>3
<1>2. ASSUME NEW r \in up, NEW a \in answers, Consume(r, a)
      PROVE  Past' /\ TurnInv' /\ Safe'
  <2> DEFINE t == a[1][1]
  <2>0. nth' = nth /\ gated' = gated /\ \A u \in Turns : Call(u)' = Call(u)
    BY <1>2 DEF Consume, Call, Goto
  <2>1. Past'
    BY <1>0, <1>2, <2>0 DEF Consume, Past
  <2>2. Safe'
    BY <1>0, <1>2, <2>0 DEF Consume, Safe, RunsOnlyApproved, RejectedNeverRuns, RunsAreOnRecord
  <2>3. CASE \E u \in Turns : WaitsHere(u, r, a[1])
    <3>1. t \in Turns /\ pc[t] = "await" /\ Call(t) = a[1]
      BY <1>0, <2>3, AnswerOfTurn DEF WaitsHere, Call
    <3>2. (Verdict(a[2]) = "approved" /\ <<Call(t), "approved">> \in decided)
             \/ Verdict(a[2]) = "refused"
      BY <1>0, <3>1, AnswerOfTurn DEF Verdict
    <3>3. /\ pc' = [pc EXCEPT ![t] = Verdict(a[2])]
          /\ UNCHANGED <<gated, decided, trail, muted, ran>>
      BY <1>2, <2>3 DEF Consume, Goto
    <3>4. pc'[t] = Verdict(a[2]) /\ \A u \in Turns : u # t => pc'[u] = pc[u]
      BY <1>0, <3>1, <3>3 DEF TypeOK
    <3> HIDE DEF t
    <3>5. TurnInv'
      <4> SUFFICES ASSUME NEW u \in Turns PROVE AtCall(u)'
        BY DEF TurnInv
      <4>0. AtCall(u) /\ Call(u)' = Call(u)
        BY <1>0, <2>0 DEF TurnInv
      <4>1. CASE u = t
        BY <3>1, <3>2, <3>3, <3>4, <4>0, <4>1 DEF AtCall, Recorded
      <4>2. CASE u # t
        BY <3>3, <3>4, <4>0, <4>2 DEF AtCall, Recorded
      <4> QED BY <4>1, <4>2
    <3> QED BY <2>1, <2>2, <3>5
  <2>4. CASE ~ \E u \in Turns : WaitsHere(u, r, a[1])
    <3>1. TurnInv'
      BY <1>0, <1>2, <2>0, <2>4 DEF Consume, TurnInv, AtCall, Recorded
    <3> QED BY <2>1, <2>2, <3>1
  <2> QED BY <2>3, <2>4
<1>3. ASSUME NEW r \in config.replicas, Stop(r) \/ Exit(r)
      PROVE  Past' /\ TurnInv' /\ Safe'
  <2>0. nth' = nth /\ gated' = gated /\ \A u \in Turns : Call(u)' = Call(u)
    BY <1>3 DEF Stop, Exit, Call
  <2>1. Past' /\ Safe'
    BY <1>0, <1>3, <2>0 DEF Stop, Exit, Past, Safe, RunsOnlyApproved, RejectedNeverRuns,
       RunsAreOnRecord
  <2>2. TurnInv'
    BY <1>0, <1>3, <2>0 DEF Stop, Exit, TurnInv, AtCall, Recorded, TypeOK
  <2> QED BY <2>1, <2>2
<1> QED BY <1>1, <1>2, <1>3

LEMMA StepInv == IInv /\ [Next]_vars => IInv'
<1> SUFFICES ASSUME IInv, [Next]_vars PROVE IInv'
  OBVIOUS
<1>1. ASSUME NEW t \in Turns, Message(t) \/ Continue(t) PROVE IInv'
  BY <1>1, ContinueInv
<1>2. CASE \/ \E c \in proposed, d \in Decisions : Decide(c, d)
           \/ \E r \in up, a \in answers : Consume(r, a)
           \/ \E r \in config.replicas : Stop(r) \/ Exit(r)
  BY <1>2, WorldInv
<1>3. CASE UNCHANGED vars
  BY <1>3 DEF vars, topics, records, turn, IInv, TypeOK, Past, TurnInv, AtCall, Recorded,
     Call, Safe, RunsOnlyApproved, RejectedNeverRuns, RunsAreOnRecord
<1> QED BY <1>1, <1>2, <1>3 DEF Next

-----------------------------------------------------------------------------
\* The inductive invariant holds in every state of every behaviour.
THEOREM Invariance == Spec => []IInv
<1> QED BY InitInv, StepInv, PTL DEF Spec

\* The variables keep their types, in any deployment.
THEOREM TypeCorrect == Spec => []TypeOK
<1>1. IInv => TypeOK
  BY DEF IInv
<1> QED BY <1>1, Invariance, PTL

\* A tool that needs a human never runs but after a human has approved that call,
\* however the bus, the operators and the processes behave.
THEOREM HumanInTheLoop == Spec => []RunsOnlyApproved
<1>1. IInv => RunsOnlyApproved
  BY DEF IInv, Safe
<1> QED BY <1>1, Invariance, PTL

\* The record tells the truth of the runs: what it has as rejected has not run and never
\* runs; what has run was recorded as proposed and approved before.
THEOREM RecordedTruly == Spec => []TrailIsTrue
<1>1. IInv => TrailIsTrue
  BY DEF IInv, Safe, TrailIsTrue
<1> QED BY <1>1, Invariance, PTL

\* Whoever reads a decision in vain is not where its call waits: there are two replicas.
LEMMA HeardStep == TypeOK /\ HeardWhileWaiting /\ [Next]_vars => HeardWhileWaiting'
<1> SUFFICES ASSUME TypeOK, HeardWhileWaiting, [Next]_vars PROVE HeardWhileWaiting'
  OBVIOUS
<1>1. ASSUME NEW r \in up, NEW a \in answers, Consume(r, a), unheard' # unheard
      PROVE  HeardWhileWaiting'
  <2> DEFINE t == a[1][1]
  <2>1. pc[t] = "await" /\ Call(t) = a[1] /\ ~ \E u \in Turns : WaitsHere(u, r, a[1])
    BY <1>1 DEF Consume
  <2>2. t \in Turns /\ home[t] \in config.replicas /\ r \in config.replicas
    BY AnswerOfTurn DEF TypeOK
  <2>3. home[t] # r
    BY <2>1, <2>2 DEF WaitsHere
  <2>4. IsFiniteSet(config.replicas)
    BY ApprovalsAssumption DEF Config, TypeOK
  <2>5. /\ Cardinality(config.replicas) \in Nat
        /\ Cardinality(config.replicas) # 0 /\ Cardinality(config.replicas) # 1
    BY <2>2, <2>3, <2>4, FS_CardinalityType, FS_EmptySet, FS_Singleton
  <2>6. Cardinality(config.replicas) > 1
    BY <2>5
  <2>7. config' = config
    BY <1>1 DEF Consume
  <2> QED BY <2>6, <2>7 DEF HeardWhileWaiting
<1>2. ASSUME unheard' = unheard PROVE HeardWhileWaiting'
  <2>1. config' = config
    BY DEF Next, vars, Message, Continue, NextCall, Answer, Propose, Produce, Register, Expire,
       Refuse, Approve, Dispatch, Dispatched, Decide, Consume, Stop, Exit
  <2> QED BY <1>2, <2>1 DEF HeardWhileWaiting
<1>3. unheard' = unheard \/ \E r \in up, a \in answers : Consume(r, a)
  BY DEF Next, vars, records, Message, Continue, NextCall, Answer, Propose, Produce, Register,
     Expire, Refuse, Approve, Dispatch, Dispatched, Decide, Stop, Exit
<1> QED BY <1>1, <1>2, <1>3

\* With a single replica no decision is read in vain while its call waits: who reads it
\* is where the call waits (KafkaApprovalBus.ts:13-17).
THEOREM HeardInTime == Spec => []HeardWhileWaiting
<1>1. Init => HeardWhileWaiting
  BY DEF Init, HeardWhileWaiting
<1> QED BY <1>1, HeardStep, TypeCorrect, PTL DEF Spec

-----------------------------------------------------------------------------
(* The second factor.                                                      *)

\* A request that has claimed the marker of the mail and not yet given it up or let go.
Holds(r) == at[r] \in {"mail", "unclaim"}

\* What a request in progress knows: the secret it is about to activate has shown a
\* right code, and the sheet it is about to store is fresh.
Known(r) ==
    /\ at[r] = "activate" => seen[r].secret \in proven
    /\ at[r] = "unclaim" => throws > 0
    /\ Holds(r) => seen[r].id \in 1 .. ops
    /\ at[r] = "regenerate" =>
           /\ seen[r].sheet \in 1 .. ops /\ (row # NoRow => row.sheet # seen[r].sheet)
           /\ \A c \in Codes : uses[<<seen[r].sheet, c>>] = 0

\* Rows and sheets to come have no mail and no use of a code, and two requests never
\* store the same sheet.
Fresh ==
    /\ row # NoRow => row.id <= ops /\ row.sheet <= ops
    /\ \A n \in Numbers : n > ops => mails[n] = 0 /\ \A c \in Codes : uses[<<n, c>>] = 0
    /\ \A r, s \in Reqs : at[r] = "regenerate" /\ at[s] = "regenerate" /\ r # s
                             => seen[r].sheet # seen[s].sheet

\* A code that is still on the row has never been accepted.
Unused == row # NoRow => \A c \in row.left : uses[<<row.sheet, c>>] = 0

\* The marker of the row stands for the mail: its owner works on this very row, it has
\* been sent, or something has gone wrong; and no active row waits for nobody.
Marked ==
    /\ \A r \in Reqs : Holds(r) /\ row # NoRow /\ row.mailed = r => row.id = seen[r].id
    /\ row # NoRow /\ row.mailed # "none" =>
           \/ mails[row.id] > 0 \/ Holds(row.mailed) \/ fails > 0 \/ "kept" \in overlaps
    /\ Enrolled /\ row.mailed = "none" =>
           throws + fails > 0 \/ \E r \in Reqs : at[r] \in {"record", "claim"}

\* Unless a rollback took the marker of a later claim: one mail a row, none while the
\* marker is free, and one request at most may send it, the one the marker names.
Once ==
    "clobbered" \notin overlaps =>
        /\ \A n \in Numbers : mails[n] <= 1
        /\ row # NoRow /\ row.mailed = "none" => mails[row.id] = 0
        /\ \A r \in Reqs : Holds(r) =>
              /\ mails[seen[r].id] = 0
              /\ row # NoRow /\ row.id = seen[r].id => row.mailed = r
              /\ \A s \in Reqs : Holds(s) /\ seen[s].id = seen[r].id => s = r

\* The inductive invariant.
MfaInv ==
    /\ MfaTypeOK /\ (\A r \in Reqs : Known(r)) /\ Fresh /\ CodesAreChecked /\ Unused
    /\ Marked /\ Once

-----------------------------------------------------------------------------
(* The types.                                                              *)

\* A counter that counts on.
LEMMA Counted ==
    ASSUME NEW D, NEW f \in [D -> Nat], NEW d
    PROVE  [f EXCEPT ![d] = @ + 1] \in [D -> Nat]
  <1>1. ASSUME NEW x \in D PROVE [f EXCEPT ![d] = @ + 1][x] \in Nat
    <2>1. CASE x = d
      BY <2>1
    <2>2. CASE x # d
      BY <2>2
    <2> QED BY <2>1, <2>2
  <1> QED BY <1>1

\* A row is not the absence of one.
LEMMA NoRowApart == NoRow \notin Row
  BY DEF NoRow, Row, Numbers

\* What is assumed of the constants.
LEMMA Parameters ==
    /\ SheetSize \in Nat /\ Low \in Nat /\ MaxOps \in Nat /\ MaxFaults \in Nat
    /\ "none" \notin Reqs /\ "none" \notin Ticks
  BY MfaAssumption

\* What the fields of a row are.
LEMMA RowFields ==
    ASSUME MfaTypeOK, row # NoRow
    PROVE  /\ row \in Row /\ row.id \in Numbers /\ row.secret \in Numbers
           /\ row.sheet \in Numbers /\ row.left \subseteq Codes
           /\ row.status \in {"pending", "active"} /\ row.old \in BOOLEAN
           /\ row.mailed \in Reqs \cup {"none"} /\ row.nudged \in Marker
  BY DEF MfaTypeOK, Row

\* A row that a code is taken from is a row, of the same sheet and with the same marker.
LEMMA CodeTaken ==
    ASSUME NEW x \in Row, NEW c
    PROVE  LET y == [x EXCEPT !.left = @ \ {c}, !.old = FALSE]
           IN  y \in Row /\ y.sheet = x.sheet /\ y.nudged = x.nudged /\ y.status = x.status
                  /\ ~y.old
  <1>1. x.left \ {c} \in SUBSET Codes
    BY DEF Row
  <1> DEFINE left == x.left \ {c}
  <1>2. [x EXCEPT !.left = @ \ {c}, !.old = FALSE] = [x EXCEPT !.left = left, !.old = FALSE]
    OBVIOUS
  <1> HIDE DEF left
  <1> QED BY <1>1, <1>2 DEF Row, left

\* The types hold at the start.
LEMMA TypeInit == MfaInit => MfaTypeOK
  <1> SUFFICES ASSUME MfaInit PROVE MfaTypeOK
    OBVIOUS
  <1> USE Parameters DEF MfaInit
  <1>1. row = NoRow /\ ~Enrolled /\ row \in Row \cup {NoRow} /\ recent \in BOOLEAN
    BY DEF Enrolled
  <1>2. at \in [Reqs -> Places]
    BY DEF Places
  <1>3. Nothing \in [secret : 0 .. MaxOps, id : 0 .. MaxOps, sheet : 0 .. MaxOps,
                     code : 0 .. SheetSize]
    BY DEF Nothing
  <1>4. seen \in [Reqs -> [secret : 0 .. MaxOps, id : 0 .. MaxOps, sheet : 0 .. MaxOps,
                           code : 0 .. SheetSize]]
    BY <1>3
  <1>5. Resting \in [at : {"idle", "stamp", "mail", "unstamp"}, last : Marker,
                     level : Bands \cup {"none"}, sheet : 0 .. MaxOps]
    BY DEF Resting, NoMarker, Marker
  <1>6. tick \in [Ticks -> [at : {"idle", "stamp", "mail", "unstamp"}, last : Marker,
                            level : Bands \cup {"none"}, sheet : 0 .. MaxOps]]
    BY <1>5
  <1>7. ops \in 0 .. MaxOps /\ {fails, throws} \subseteq Nat /\ fails + throws \in 0 .. MaxFaults
    OBVIOUS
  <1>8. /\ proven \subseteq Numbers /\ uses \in [Numbers \X Codes -> Nat]
        /\ mails \in [Numbers -> Nat] /\ nudges \in [Numbers \X Bands -> Nat]
        /\ overlaps \subseteq {"swapped", "clobbered", "kept", "inherited"}
    OBVIOUS
  <1> HIDE DEF MfaInit
  <1> QED BY <1>1, <1>2, <1>4, <1>6, <1>7, <1>8 DEF MfaTypeOK

\* What a request has read.
Seen == [secret : 0 .. MaxOps, id : 0 .. MaxOps, sheet : 0 .. MaxOps, code : 0 .. SheetSize]

\* Where a request goes.
LEMMA TypeGoto ==
    ASSUME MfaTypeOK, NEW r \in Reqs, NEW label \in Places, MoveTo(r, label)
    PROVE  at' \in [Reqs -> Places] /\ seen' \in [Reqs -> Seen]
  <1>1. Nothing \in Seen
    BY Parameters DEF Nothing, Seen
  <1>2. CASE label = "idle"
    BY <1>1, <1>2 DEF MfaTypeOK, MoveTo, Seen
  <1>3. CASE label # "idle"
    BY <1>3 DEF MfaTypeOK, MoveTo, Seen
  <1> QED BY <1>2, <1>3

\* A setup leaves a pending row.
LEMMA NewRow ==
    ASSUME MfaTypeOK, ops < MaxOps
    PROVE  Upserted(ops + 1) \in Row /\ Upserted(ops + 1).status = "pending"
  <1>1. ops + 1 \in Numbers
    BY Parameters DEF MfaTypeOK, Numbers
  <1>2. CASE row = NoRow
    <2>1. NewEnrolment(ops + 1) \in Row /\ NewEnrolment(ops + 1).status = "pending"
      BY <1>1, Parameters DEF NewEnrolment, Row, NoMarker, Marker
    <2> QED BY <1>2, <2>1 DEF Upserted
  <1>3. CASE row # NoRow
    BY <1>1, <1>3, RowFields DEF Upserted, Row
  <1> QED BY <1>2, <1>3

\* A request that is not a setup reads, and writes nothing but what has been proven.
LEMMA Reading ==
    ASSUME MfaTypeOK, NEW r \in Reqs, Ask(r), ~Setup(r)
    PROVE  \E label \in {"activate", "touch", "consume", "regenerate", "delete"}, what \in Seen :
              /\ Read(r, label, what)
              /\ label = "activate" => what.secret \in proven'
              /\ label = "regenerate" => what.sheet = ops + 1
              /\ proven \subseteq proven' /\ proven' \subseteq Numbers
              /\ UNCHANGED <<uses, mails, nudges, overlaps>>
  <1>0. proven \subseteq Numbers /\ Nothing \in Seen
    BY Parameters DEF MfaTypeOK, Nothing, Seen
  <1>1. CASE CheckCode(r)
    <2> DEFINE what == [Nothing EXCEPT !.secret = row.secret]
    <2>1. row.secret \in Numbers
      BY <1>1, RowFields DEF CheckCode
    <2>2. what \in Seen /\ what.secret = row.secret
      BY <1>0, <2>1 DEF Seen, Nothing, Numbers
    <2>3. Read(r, "activate", what) /\ proven' = proven \cup {row.secret}
             /\ UNCHANGED <<uses, mails, nudges, overlaps>>
      BY <1>1 DEF CheckCode
    <2> HIDE DEF what
    <2> QED BY <1>0, <2>1, <2>2, <2>3
  <1>2. CASE CheckAssertion(r)
    BY <1>0, <1>2 DEF CheckAssertion, history
  <1>3. ASSUME NEW c \in Codes, CheckBackupCode(r, c)
        PROVE \E what \in Seen : Read(r, "consume", what)
                                   /\ UNCHANGED <<proven, uses, mails, nudges, overlaps>>
    <2> DEFINE what == [Nothing EXCEPT !.id = row.id, !.sheet = row.sheet, !.code = c]
    <2>1. row \in Row /\ row.id \in Numbers /\ row.sheet \in Numbers
      BY <1>3, RowFields DEF CheckBackupCode, Enrolled
    <2>2. row.id \in 0 .. MaxOps /\ row.sheet \in 0 .. MaxOps /\ c \in 0 .. SheetSize
      BY <2>1, Parameters DEF Numbers, Codes
    <2>4. what \in Seen
      BY <1>0, <2>2 DEF Seen, Nothing
    <2> HIDE DEF what
    <2>3. Read(r, "consume", what) /\ UNCHANGED <<proven, uses, mails, nudges, overlaps>>
      BY <1>3 DEF CheckBackupCode, history, what
    <2> QED BY <2>3, <2>4
  <1>4. ASSUME NEW label, AskRecent(r, label)
        PROVE \E what \in Seen : Read(r, label, what) /\ what.sheet = ops + 1
                                   /\ UNCHANGED <<proven, uses, mails, nudges, overlaps>>
    <2> DEFINE what == [Nothing EXCEPT !.sheet = ops + 1]
    <2>1. ops + 1 \in 0 .. MaxOps
      BY <1>4, Parameters DEF AskRecent, Read, Begin, MfaTypeOK
    <2>2. what \in Seen /\ what.sheet = ops + 1
      BY <1>0, <2>1 DEF Seen, Nothing
    <2> HIDE DEF what
    <2>3. Read(r, label, what) /\ UNCHANGED <<proven, uses, mails, nudges, overlaps>>
      BY <1>4 DEF AskRecent, history, what
    <2> QED BY <2>2, <2>3
  <1> QED BY <1>0, <1>1, <1>2, <1>3, <1>4 DEF Ask

\* The types survive the beginning of a request,
LEMMA TypeAsk ==
    ASSUME MfaTypeOK, NEW r \in Reqs, Ask(r)
    PROVE  MfaTypeOK'
  <1>1. CASE Setup(r)
    <2>1. row' \in Row /\ ~Enrolled'
      BY <1>1, NewRow DEF Setup, Begin, Enrolled
    <2>2. overlaps' \subseteq {"swapped", "clobbered", "kept", "inherited"}
      BY <1>1 DEF Setup, Happened, MfaTypeOK
    <2>3. ops' \in 0 .. MaxOps /\ UNCHANGED <<fails, throws>>
      BY <1>1, Parameters DEF Setup, Begin, MfaTypeOK
    <2> QED BY <1>1, <2>1, <2>2, <2>3 DEF Setup, MfaTypeOK, request
  <1>2. CASE ~Setup(r)
    <2>1. PICK label \in {"activate", "touch", "consume", "regenerate", "delete"}, what \in Seen :
              /\ Read(r, label, what)
              /\ proven' \subseteq Numbers
              /\ UNCHANGED <<uses, mails, nudges, overlaps>>
      BY <1>2, Reading
    <2>2. ops' \in 0 .. MaxOps /\ UNCHANGED <<fails, throws, row, recent, tick>>
      BY <2>1, Parameters DEF Read, Begin, MfaTypeOK
    <2>3. at' \in [Reqs -> Places] /\ seen' \in [Reqs -> Seen]
      BY <2>1 DEF Read, MfaTypeOK, Places, Seen
    <2>4. Enrolled' => ~row'.old
      BY <2>2 DEF MfaTypeOK, Enrolled
    <2> QED BY <2>1, <2>2, <2>3, <2>4 DEF MfaTypeOK, Seen
  <1> QED BY <1>1, <1>2

\* its statements and its faults,
LEMMA TypeProceed ==
    ASSUME MfaTypeOK, NEW r \in Reqs, \A q \in Reqs : Known(q),
           Proceed(r) \/ MailThrows(r) \/ RequestFails(r)
    PROVE  MfaTypeOK'
  <1>g. ASSUME NEW label \in Places, MoveTo(r, label)
        PROVE  at' \in [Reqs -> Places] /\ seen' \in [Reqs -> Seen]
    BY <1>g, TypeGoto
  <1>f. row # NoRow => row \in Row
    BY RowFields
  <1>r. ASSUME row' \in Row \cup {NoRow}, Enrolled' => ~row'.old, recent' \in BOOLEAN,
               at' \in [Reqs -> Places] /\ seen' \in [Reqs -> Seen],
               UNCHANGED <<tick, bounds, proven, mails, nudges>>,
               uses' \in [Numbers \X Codes -> Nat],
               overlaps' \subseteq {"swapped", "clobbered", "kept", "inherited"}
        PROVE MfaTypeOK'
    BY <1>r DEF MfaTypeOK, Seen, bounds
  <1>1. CASE Activate(r)
    <2>1. row' \in Row \cup {NoRow} /\ (Enrolled' => ~row'.old)
      BY <1>1, <1>f DEF Activate, Activated, Row, Enrolled
    <2>2. overlaps' \subseteq {"swapped", "clobbered", "kept", "inherited"}
      BY <1>1 DEF Activate, Happened, MfaTypeOK
    <2> QED BY <1>1, <1>g, <1>r, <2>1, <2>2 DEF Activate, Places, MfaTypeOK
  <1>2. CASE Record(r)
    BY <1>2, <1>g, <1>r DEF Record, Places, MfaTypeOK, Enrolled, history
  <1>3. CASE Claim(r)
    <2>1. row' \in Row \cup {NoRow} /\ (Enrolled' => ~row'.old)
      BY <1>3, <1>f DEF Claim, Claimable, Row, Enrolled, MfaTypeOK
    <2>2. Nothing \in Seen
      BY Parameters DEF Nothing, Seen
    <2>3. Claimable => [Nothing EXCEPT !.id = row.id] \in Seen
      BY <2>2, RowFields DEF Seen, Claimable, Enrolled, Numbers
    <2>4. at' \in [Reqs -> Places] /\ seen' \in [Reqs -> Seen]
      BY <1>3, <2>2, <2>3 DEF Claim, MfaTypeOK, Places, Seen
    <2> QED BY <1>3, <1>r, <2>1, <2>4 DEF Claim, MfaTypeOK, history
  <1>4. CASE Mail(r)
    <2>1. seen[r].id \in Numbers
      BY <1>4, Parameters DEF Mail, Known, Holds, MfaTypeOK, Numbers
    <2>2. mails' \in [Numbers -> Nat]
      BY <1>4, <2>1 DEF Mail, MfaTypeOK
    <2> QED BY <1>4, <1>g, <2>2 DEF Mail, Places, MfaTypeOK, Enrolled, bounds, Seen
  <1>5. CASE Unclaim(r)
    <2>1. row' \in Row \cup {NoRow} /\ (Enrolled' => ~row'.old)
      BY <1>5, <1>f DEF Unclaim, Row, Enrolled, MfaTypeOK
    <2>2. overlaps' \subseteq {"swapped", "clobbered", "kept", "inherited"}
      BY <1>5 DEF Unclaim, MfaTypeOK
    <2> QED BY <1>5, <1>g, <1>r, <2>1, <2>2 DEF Unclaim, Places, MfaTypeOK
  <1>6. CASE Touch(r)
    <2>1. row' \in Row \cup {NoRow} /\ (Enrolled' => ~row'.old)
      BY <1>6, <1>f DEF Touch, Row, Enrolled
    <2> QED BY <1>6, <1>g, <1>r, <2>1 DEF Touch, Places, MfaTypeOK, history
  <1>7. CASE ConsumeCode(r)
    <2>1. CASE StillThere(r)
      <3>1. row \in Row /\ row.left \subseteq Codes
        BY <2>1, RowFields DEF StillThere
      <3>2. row' \in Row \cup {NoRow} /\ (Enrolled' => ~row'.old)
        <4>1. row' = [row EXCEPT !.left = @ \ {seen[r].code}, !.old = FALSE]
          BY <1>7, <2>1 DEF ConsumeCode
        <4> QED BY <3>1, <4>1, CodeTaken DEF Enrolled
      <3>3. uses' \in [Numbers \X Codes -> Nat]
        <4> DEFINE code == <<seen[r].sheet, seen[r].code>>
        <4>1. code \in Numbers \X Codes
          BY <2>1, <3>1, RowFields DEF StillThere
        <4>2. uses' = [uses EXCEPT ![code] = @ + 1] /\ uses \in [Numbers \X Codes -> Nat]
          BY <1>7, <2>1 DEF ConsumeCode, MfaTypeOK
        <4> HIDE DEF code
        <4> QED BY <4>1, <4>2, Counted
      <3> QED BY <1>7, <2>1, <1>g, <1>r, <3>2, <3>3 DEF ConsumeCode, Places, MfaTypeOK
    <2>2. CASE ~StillThere(r)
      BY <1>7, <2>2, <1>g, <1>r DEF ConsumeCode, Places, MfaTypeOK, Enrolled
    <2> QED BY <2>1, <2>2
  <1>8. CASE Regenerate(r)
    <2>1. seen[r].sheet \in Numbers
      BY <1>8, Parameters DEF Regenerate, Known, MfaTypeOK, Numbers
    <2>2. row' \in Row \cup {NoRow} /\ (Enrolled' => ~row'.old)
      <3>1. NoMarker \in Marker
        BY Parameters DEF NoMarker, Marker
      <3>2. CASE Enrolled
        <4>1. row \in Row /\ row' = NewSheet(seen[r].sheet)
          BY <1>8, <3>2, RowFields DEF Regenerate, Enrolled
        <4> QED BY <2>1, <3>1, <4>1 DEF NewSheet, Row, Enrolled
      <3>3. CASE ~Enrolled
        BY <1>8, <3>3 DEF Regenerate, MfaTypeOK, Enrolled
      <3> QED BY <3>2, <3>3
    <2> QED BY <1>8, <1>g, <1>r, <2>2 DEF Regenerate, Places, MfaTypeOK, history
  <1>9. CASE DeleteRow(r)
    <2>1. row' = NoRow /\ ~Enrolled'
      BY <1>9 DEF DeleteRow, Enrolled
    <2> QED BY <1>9, <1>g, <1>r, <2>1 DEF DeleteRow, Places, MfaTypeOK, history
  <1>10. CASE DeleteChallenges(r)
    BY <1>10, <1>g, <1>r DEF DeleteChallenges, Places, MfaTypeOK, Enrolled, history
  <1>11. CASE MailThrows(r)
    <2>1. {fails', throws'} \subseteq Nat /\ fails' + throws' \in 0 .. MaxFaults
      BY <1>11, Parameters DEF MailThrows, Trouble, MfaTypeOK
    <2> QED BY <1>11, <1>g, <2>1 DEF MailThrows, Places, MfaTypeOK, Enrolled, history, Seen
  <1>12. CASE RequestFails(r)
    <2>1. {fails', throws'} \subseteq Nat /\ fails' + throws' \in 0 .. MaxFaults
      BY <1>12, Parameters DEF RequestFails, Fail, Trouble, MfaTypeOK
    <2> QED BY <1>12, <1>g, <2>1 DEF RequestFails, Fail, Places, MfaTypeOK, Enrolled, history,
                                    Seen
  <1> QED BY <1>1, <1>2, <1>3, <1>4, <1>5, <1>6, <1>7, <1>8, <1>9, <1>10, <1>11, <1>12 DEF Proceed

\* Where a tick is and what it has read.
TickState == [at : {"idle", "stamp", "mail", "unstamp"}, last : Marker,
              level : Bands \cup {"none"}, sheet : 0 .. MaxOps]

\* A tick that comes to rest.
LEMMA RestType ==
    ASSUME MfaTypeOK, NEW t \in Ticks, Rest(t)
    PROVE  tick' \in [Ticks -> TickState]
  <1>1. Resting \in TickState
    BY Parameters DEF Resting, NoMarker, Marker, TickState
  <1> QED BY <1>1 DEF MfaTypeOK, Rest, TickState

\* the ticks,
LEMMA TypeTick ==
    ASSUME MfaTypeOK, NEW t \in Ticks, Tick(t) \/ NudgeThrows(t) \/ TickFails(t)
    PROVE  MfaTypeOK'
  <1>r. ASSUME row' \in Row \cup {NoRow}, Enrolled' => ~row'.old,
               tick' \in [Ticks -> TickState], UNCHANGED <<recent, request, bounds>>,
               nudges' \in [Numbers \X Bands -> Nat], UNCHANGED <<proven, uses, mails>>,
               overlaps' \subseteq {"swapped", "clobbered", "kept", "inherited"}
        PROVE MfaTypeOK'
    BY <1>r DEF MfaTypeOK, TickState, request, bounds
  <1>t. tick[t] \in TickState
    BY DEF MfaTypeOK, TickState
  <1>1. CASE Scan(t)
    <2>1. Band(row.left) \in Bands \cup {"none"} /\ row.nudged \in Marker
      BY <1>1, RowFields DEF Scan, NudgeDue, Enrolled, Band, Bands
    <2>2. [at |-> "stamp", last |-> row.nudged, level |-> Band(row.left), sheet |-> 0]
             \in TickState
      BY <2>1, Parameters DEF TickState
    <2>3. tick' \in [Ticks -> TickState]
      BY <1>1, <2>2 DEF Scan, MfaTypeOK, TickState
    <2> QED BY <1>1, <1>r, <2>3 DEF Scan, MfaTypeOK, Enrolled, history
  <1>2. CASE Stamp(t)
    <2>1. CASE Unmoved(t)
      <3>1. row \in Row /\ row.nudged \in Marker /\ row.sheet \in Numbers
        BY <2>1, RowFields DEF Unmoved, Enrolled
      <3>2. [level |-> tick[t].level, by |-> t, sheet |-> row.sheet] \in Marker
        BY <1>t, <3>1, Parameters DEF TickState, Marker, Numbers
      <3>3. row' \in Row /\ (Enrolled' => ~row'.old)
        <4> DEFINE m == [level |-> tick[t].level, by |-> t, sheet |-> row.sheet]
        <4>1. row' = [row EXCEPT !.nudged = m] /\ m \in Marker
          BY <1>2, <2>1, <3>2 DEF Stamp
        <4> HIDE DEF m
        <4>2. row' \in Row /\ row'.status = row.status /\ row'.old = row.old
          BY <3>1, <4>1 DEF Row
        <4> QED BY <2>1, <4>2 DEF Unmoved, Enrolled, MfaTypeOK
      <3>4. [tick[t] EXCEPT !.at = "mail", !.sheet = row.sheet, !.last = row.nudged] \in TickState
        <4>1. row.sheet \in 0 .. MaxOps
          BY <3>1, Parameters DEF Numbers
        <4> QED BY <1>t, <3>1, <4>1 DEF TickState
      <3>5. tick' \in [Ticks -> TickState]
        BY <1>2, <2>1, <3>4 DEF Stamp, MfaTypeOK, TickState
      <3> QED BY <1>2, <2>1, <1>r, <3>3, <3>5 DEF Stamp, MfaTypeOK, history
    <2>2. CASE ~Unmoved(t)
      BY <1>2, <2>2, <1>r, RestType DEF Stamp, MfaTypeOK, Enrolled, history
    <2> QED BY <2>1, <2>2
  <1>3. CASE Nudge(t)
    <2>1. nudges' \in [Numbers \X Bands -> Nat]
      <3> DEFINE band == <<tick[t].sheet, tick[t].level>>
      <3>1. nudges' = [nudges EXCEPT ![band] = @ + 1] /\ nudges \in [Numbers \X Bands -> Nat]
        BY <1>3 DEF Nudge, MfaTypeOK
      <3> HIDE DEF band
      <3> QED BY <3>1, Counted
    <2> QED BY <1>3, <1>r, <2>1, RestType DEF Nudge, MfaTypeOK, Enrolled
  <1>4. CASE NudgeThrows(t)
    <2>1. {fails', throws'} \subseteq Nat /\ fails' + throws' \in 0 .. MaxFaults
      BY <1>4, Parameters DEF NudgeThrows, Trouble, MfaTypeOK
    <2>2. tick' \in [Ticks -> TickState]
      BY <1>4, <1>t DEF NudgeThrows, MfaTypeOK, TickState
    <2> QED BY <1>4, <2>1, <2>2 DEF NudgeThrows, MfaTypeOK, Enrolled, request, history, TickState
  <1>5. CASE Unstamp(t)
    <2>1. row' \in Row \cup {NoRow} /\ (Enrolled' => ~row'.old)
      <3>1. CASE Enrolled /\ row.nudged.level = tick[t].level
        <4>1. row \in Row /\ row' = [row EXCEPT !.nudged = tick[t].last]
          BY <1>5, <3>1, RowFields DEF Unstamp, Enrolled
        <4>2. row' \in Row /\ row'.status = row.status /\ row'.old = row.old
          BY <1>t, <4>1 DEF Row, TickState
        <4> QED BY <3>1, <4>2 DEF Enrolled, MfaTypeOK
      <3>2. CASE ~(Enrolled /\ row.nudged.level = tick[t].level)
        BY <1>5, <3>2 DEF Unstamp, MfaTypeOK, Enrolled
      <3> QED BY <3>1, <3>2
    <2>2. overlaps' \subseteq {"swapped", "clobbered", "kept", "inherited"}
      BY <1>5 DEF Unstamp, Happened, MfaTypeOK
    <2> QED BY <1>5, <1>r, <2>1, <2>2, RestType DEF Unstamp, MfaTypeOK
  <1>6. CASE TickFails(t)
    <2>1. {fails', throws'} \subseteq Nat /\ fails' + throws' \in 0 .. MaxFaults
      BY <1>6, Parameters DEF TickFails, Fail, Trouble, MfaTypeOK
    <2> QED BY <1>6, <2>1, RestType DEF TickFails, Fail, MfaTypeOK, Enrolled, request, history,
                                        TickState
  <1> QED BY <1>1, <1>2, <1>3, <1>4, <1>5, <1>6 DEF Tick

\* and time.
LEMMA TypeTime ==
    ASSUME MfaTypeOK, Age \/ Prune \/ Lapse
    PROVE  MfaTypeOK'
  <1>1. CASE Age
    <2>1. row \in Row /\ row' = [row EXCEPT !.old = TRUE] /\ ~Enrolled
      BY <1>1, RowFields DEF Age
    <2>2. row' \in Row /\ ~Enrolled'
      BY <2>1 DEF Row, Enrolled, NoRow
    <2> QED BY <1>1, <2>2 DEF Age, MfaTypeOK, request, bounds, history
  <1>2. CASE Prune
    BY <1>2 DEF Prune, MfaTypeOK, Enrolled, request, bounds, history
  <1>3. CASE Lapse
    BY <1>3 DEF Lapse, MfaTypeOK, Enrolled, request, bounds, history
  <1> QED BY <1>1, <1>2, <1>3

-----------------------------------------------------------------------------
(* What the steps leave alone.                                             *)

\* Nothing of the row changes but its age and the marker of the nudges.
SameRow ==
    IF row = NoRow THEN row' = NoRow
    ELSE /\ row' # NoRow /\ row'.id = row.id /\ row'.secret = row.secret
         /\ row'.sheet = row.sheet /\ row'.left = row.left
         /\ row'.status = row.status /\ row'.mailed = row.mailed

\* Nothing of the users' is touched by such a step.
Aside ==
    /\ SameRow \/ row' = NoRow
    /\ UNCHANGED <<at, seen, ops, proven, uses, mails>>
    /\ throws <= throws' /\ fails <= fails' /\ overlaps \subseteq overlaps'

\* The invariant but for the types.
Sound == (\A r \in Reqs : Known(r)) /\ Fresh /\ CodesAreChecked /\ Unused /\ Marked /\ Once

\* Ticks, timers and prunes take nothing from the users' invariant.
LEMMA AsideKeeps ==
    ASSUME MfaTypeOK, MfaTypeOK', Aside, Sound
    PROVE  Sound'
  <1> USE DEF Sound, Aside, SameRow
  <1>1. \A r \in Reqs : Known(r)'
    BY DEF Known, Holds, MfaTypeOK
  <1>2. Fresh'
    BY DEF Fresh
  <1>3. CodesAreChecked' /\ Unused'
    BY DEF CodesAreChecked, Unused, Enrolled
  <1>4. Marked'
    BY DEF Marked, Holds, Enrolled, MfaTypeOK
  <1>5. Once'
    BY DEF Once, Holds
  <1> QED BY <1>1, <1>2, <1>3, <1>4, <1>5

\* All the steps that are not the users'.
LEMMA StepsAside ==
    ASSUME MfaTypeOK,
           \/ \E t \in Ticks : Tick(t) \/ NudgeThrows(t) \/ TickFails(t)
           \/ Age \/ Prune \/ Lapse \/ UNCHANGED mfaVars
    PROVE  Aside
  <1> USE DEF Aside, request, bounds, history
  <1>0. fails \in Nat /\ throws \in Nat /\ (row # NoRow => row \in Row)
    BY RowFields DEF MfaTypeOK
  <1>1. ASSUME NEW t \in Ticks, Scan(t) \/ Nudge(t) \/ NudgeThrows(t) \/ TickFails(t)
        PROVE Aside
    BY <1>0, <1>1 DEF Scan, Nudge, NudgeThrows, TickFails, Fail, SameRow
  <1>2. ASSUME NEW t \in Ticks, Stamp(t) PROVE Aside
    <2>1. Unmoved(t) => row # NoRow
      BY DEF Unmoved, Enrolled
    <2>2. SameRow
      BY <1>0, <1>2, <2>1, NoRowApart DEF Stamp, SameRow, Row, NoRow
    <2> QED BY <1>0, <1>2, <2>2 DEF Stamp
  <1>3. ASSUME NEW t \in Ticks, Unstamp(t) PROVE Aside
    <2>1. SameRow
      BY <1>0, <1>3, NoRowApart DEF Unstamp, SameRow, Row, NoRow, Enrolled
    <2> QED BY <1>0, <1>3, <2>1 DEF Unstamp, Happened
  <1>4. CASE Age
    <2>1. SameRow
      BY <1>0, <1>4, NoRowApart DEF Age, SameRow, Row, NoRow
    <2> QED BY <1>0, <1>4, <2>1 DEF Age
  <1>5. CASE Prune \/ Lapse \/ UNCHANGED mfaVars
    BY <1>0, <1>5 DEF Prune, Lapse, SameRow, mfaVars
  <1> QED BY <1>1, <1>2, <1>3, <1>4, <1>5 DEF Tick

-----------------------------------------------------------------------------
(* The requests.                                                           *)

\* Nothing has happened yet.
LEMMA SoundInit == MfaInit => Sound
  BY DEF MfaInit, Sound, Known, Holds, Fresh, CodesAreChecked, Unused, Marked, Once, Enrolled

\* The other requests are where they were.
LEMMA OnlyHis ==
    ASSUME MfaTypeOK, NEW r \in Reqs,
           Ask(r) \/ Proceed(r) \/ MailThrows(r) \/ RequestFails(r)
    PROVE  \A q \in Reqs : q # r => at'[q] = at[q] /\ seen'[q] = seen[q]
  <1> USE DEF MfaTypeOK, MoveTo
  <1>1. CASE Ask(r)
    BY <1>1 DEF Ask, Setup, CheckCode, CheckAssertion, CheckBackupCode, AskRecent, Read, request
  <1>2. CASE Claim(r)
    BY <1>2 DEF Claim
  <1>3. CASE Proceed(r) /\ ~Claim(r)
    BY <1>3 DEF Proceed, Activate, Record, Mail, Unclaim, Touch, ConsumeCode, Regenerate,
                DeleteRow, DeleteChallenges
  <1>4. CASE MailThrows(r) \/ RequestFails(r)
    BY <1>4 DEF MailThrows, RequestFails
  <1> QED BY <1>1, <1>2, <1>3, <1>4

\* The same as a hypothesis of the lemmas below.
Others(r) == \A q \in Reqs : q # r => at'[q] = at[q] /\ seen'[q] = seen[q]

\* A step by which a request neither changes what it owns nor takes the marker.
Plain(r) ==
    /\ SameRow \/ row' = NoRow
    /\ at'[r] \notin {"activate", "regenerate", "mail", "unclaim"}
    /\ at[r] \in {"record", "claim"} => at'[r] \in {"record", "claim"} \/ fails' > 0
    /\ Holds(r) => fails' > 0
    /\ UNCHANGED <<ops, proven, uses, mails>>
    /\ throws <= throws' /\ fails <= fails' /\ overlaps \subseteq overlaps'

\* Faults stay counted.
LEMMA Sums ==
    \A a, b, c, d \in Nat : (a <= c /\ b <= d /\ (a + b > 0 \/ d > 0)) => c + d > 0
  OBVIOUS

\* A plain step takes nothing from the invariant.
LEMMA PlainKeeps ==
    ASSUME MfaTypeOK, MfaTypeOK', NEW r \in Reqs, Others(r), Plain(r), Sound
    PROVE  Sound'
  <1> USE DEF Sound, Plain, SameRow, Others
  <1>1. \A q \in Reqs : Known(q)'
    BY DEF Known, Holds, MfaTypeOK
  <1>2. Fresh'
    BY DEF Fresh
  <1>3. CodesAreChecked' /\ Unused'
    BY DEF CodesAreChecked, Unused, Enrolled
  <1>4. Marked'
    <2>1. row # NoRow => row.mailed \in Reqs \cup {"none"}
      BY RowFields
    <2>2. fails \in Nat /\ throws \in Nat /\ fails' \in Nat /\ throws' \in Nat
      BY DEF MfaTypeOK
    <2>3. \A q \in Reqs : Holds(q)' /\ row' # NoRow /\ row'.mailed = q => row'.id = seen'[q].id
      BY DEF Marked, Holds
    <2>4. row' # NoRow /\ row'.mailed # "none" =>
              \/ mails'[row'.id] > 0 \/ Holds(row.mailed)' \/ fails' > 0 \/ "kept" \in overlaps'
      BY <2>1, <2>2 DEF Marked, Holds
    <2>5. Enrolled' /\ row'.mailed = "none" =>
              throws' + fails' > 0 \/ \E q \in Reqs : at'[q] \in {"record", "claim"}
      <3>1. SUFFICES ASSUME row' # NoRow, row'.status = "active", row'.mailed = "none"
                     PROVE  throws' + fails' > 0 \/ \E q \in Reqs : at'[q] \in {"record", "claim"}
        BY DEF Enrolled
      <3>2. Enrolled /\ row.mailed = "none"
        BY <3>1 DEF Enrolled
      <3>3. throws + fails > 0 \/ fails' > 0 => throws' + fails' > 0
        <4>1. throws <= throws' /\ fails <= fails'
          OBVIOUS
        <4> QED BY <2>2, <4>1, Sums
      <3>4. ASSUME NEW q \in Reqs, at[q] \in {"record", "claim"}
            PROVE  fails' > 0 \/ at'[q] \in {"record", "claim"}
        BY <3>4
      <3> QED BY <3>2, <3>3, <3>4 DEF Marked
    <2> QED BY <2>3, <2>4, <2>5 DEF Marked, Holds
  <1>5. Once'
    BY DEF Once, Holds
  <1> QED BY <1>1, <1>2, <1>3, <1>4, <1>5

\* The plain steps.
LEMMA PlainSteps ==
    ASSUME MfaTypeOK, NEW r \in Reqs,
           \/ Record(r) \/ Touch(r) \/ DeleteRow(r) \/ DeleteChallenges(r) \/ RequestFails(r)
           \/ ConsumeCode(r) /\ ~StillThere(r)
    PROVE  Plain(r)
  <1>0. fails \in Nat /\ throws \in Nat /\ (row # NoRow => row \in Row) /\ DOMAIN at = Reqs
    BY RowFields DEF MfaTypeOK
  <1> USE <1>0 DEF Plain, MoveTo, bounds, history, Holds
  <1>1. CASE Record(r)
    BY <1>1 DEF Record, SameRow
  <1>2. CASE Touch(r)
    <2>1. SameRow
      BY <1>2, NoRowApart DEF Touch, SameRow, Row, NoRow
    <2> QED BY <1>2, <2>1 DEF Touch
  <1>3. CASE DeleteRow(r) \/ DeleteChallenges(r)
    BY <1>3 DEF DeleteRow, DeleteChallenges, SameRow
  <1>4. CASE RequestFails(r)
    BY <1>4 DEF RequestFails, Fail, SameRow
  <1>5. CASE ConsumeCode(r) /\ ~StillThere(r)
    BY <1>5 DEF ConsumeCode, SameRow
  <1> QED BY <1>1, <1>2, <1>3, <1>4, <1>5

\* A setup makes the row pending, with a secret and a sheet that nobody has seen.
\* Setup: a fresh sheet and secret, in a new row or over the one there is.
LEMMA SetupKeeps ==
    ASSUME MfaTypeOK, MfaTypeOK', NEW r \in Reqs, Setup(r), Sound
    PROVE  Sound'
  <1>1. /\ row' # NoRow /\ row'.sheet = ops + 1 /\ row'.status = "pending"
        /\ row = NoRow => row'.id = ops + 1 /\ row'.mailed = "none"
        /\ row # NoRow => row'.id = row.id /\ row'.mailed = row.mailed
    <2>1. row' = Upserted(ops + 1)
      BY DEF Setup
    <2>2. row' # NoRow
      BY <2>1, NewRow, NoRowApart DEF Setup, Begin
    <2>3. CASE row = NoRow
      BY <2>1, <2>2, <2>3 DEF Upserted, NewEnrolment
    <2>4. CASE row # NoRow
      BY <2>1, <2>2, <2>4, RowFields DEF Upserted, Row
    <2> QED BY <2>2, <2>3, <2>4
  <1>2. /\ ops \in Nat /\ ops' = ops + 1 /\ ops + 1 \in Numbers /\ ops' \in Nat
        /\ UNCHANGED <<at, seen, proven, uses, mails, fails, throws>>
        /\ overlaps \subseteq overlaps'
    BY Parameters DEF Setup, Begin, request, Happened, MfaTypeOK, Numbers
  <1>3. row'.left \subseteq Codes /\ ~Enrolled'
    BY <1>1, RowFields DEF MfaTypeOK, Row, Enrolled
  <1> USE <1>1, <1>2, <1>3 DEF Sound
  <1>4. \A q \in Reqs : Known(q)'
    BY DEF Known, Holds, MfaTypeOK
  <1>5. Fresh'
    <2>1. row'.id <= ops' /\ row'.sheet <= ops'
      BY RowFields DEF Fresh, Numbers
    <2>2. \A n \in Numbers : n > ops' => n > ops
      BY DEF Numbers
    <2> QED BY <2>1, <2>2 DEF Fresh
  <1>6. CodesAreChecked' /\ Unused'
    BY DEF CodesAreChecked, Unused, Fresh
  <1>7. Marked'
    BY Parameters DEF Marked, Holds, Known
  <1>8. Once'
    BY DEF Once, Holds, Known, Fresh
  <1> QED BY <1>4, <1>5, <1>6, <1>7, <1>8

\* What the other requests read when they begin, and the sheet that one will store.
LEMMA ReadingKeeps ==
    ASSUME MfaTypeOK, MfaTypeOK', NEW r \in Reqs, Ask(r), ~Setup(r), Sound
    PROVE  Sound'
  <1>1. PICK label \in {"activate", "touch", "consume", "regenerate", "delete"}, what \in Seen :
              /\ Read(r, label, what)
              /\ label = "activate" => what.secret \in proven'
              /\ label = "regenerate" => what.sheet = ops + 1
              /\ proven \subseteq proven' /\ proven' \subseteq Numbers
              /\ UNCHANGED <<uses, mails, nudges, overlaps>>
    BY Reading
  <1>2. /\ ops \in Nat /\ ops' = ops + 1 /\ ops + 1 \in Numbers /\ at[r] = "idle"
        /\ UNCHANGED <<row, uses, mails, fails, throws, overlaps>> /\ proven \subseteq proven'
        /\ at'[r] = label /\ seen'[r] = what /\ Others(r)
    <2>1. Others(r)
      BY OnlyHis DEF Others
    <2>2. /\ ops \in Nat /\ ops' = ops + 1 /\ at[r] = "idle" /\ UNCHANGED <<row, fails, throws>>
          /\ at'[r] = label /\ seen'[r] = what
      BY <1>1, Parameters DEF Read, Begin, MfaTypeOK
    <2>3. ops + 1 \in Numbers
      BY <1>1, Parameters DEF Read, Begin, MfaTypeOK, Numbers
    <2> QED BY <1>1, <2>1, <2>2, <2>3
  <1> USE <1>1, <1>2 DEF Sound, Others
  <1>4. \A q \in Reqs : Known(q)'
    <2>1. Known(r)'
      BY DEF Known, Holds, Fresh
    <2>2. ASSUME NEW q \in Reqs, q # r PROVE Known(q)'
      BY <2>2 DEF Known, Holds
    <2> QED BY <2>1, <2>2
  <1>5. Fresh'
    <2>1. \A q, s \in Reqs : at'[q] = "regenerate" /\ at'[s] = "regenerate" /\ q # s
                                => seen'[q].sheet # seen'[s].sheet
      BY DEF Fresh, Known
    <2>2. \A n \in Numbers : n > ops' => n > ops
      BY DEF Numbers
    <2>3. row' # NoRow => row'.id <= ops' /\ row'.sheet <= ops'
      BY RowFields DEF Fresh, Numbers
    <2> QED BY <2>1, <2>2, <2>3 DEF Fresh
  <1>6. CodesAreChecked' /\ Unused'
    BY DEF CodesAreChecked, Unused, Enrolled
  <1>7. Marked'
    <2>1. row # NoRow => row.mailed \in Reqs \cup {"none"}
      BY RowFields
    <2> QED BY <2>1 DEF Marked, Holds, Enrolled
  <1>8. Once'
    BY DEF Once, Holds
  <1> QED BY <1>4, <1>5, <1>6, <1>7, <1>8

\* What the remaining steps of a request have in common.
\* A request that moves on keeps what it has read.
LEMMA Goes ==
    ASSUME MfaTypeOK, NEW r \in Reqs, NEW label, MoveTo(r, label)
    PROVE  /\ at'[r] = label /\ (label # "idle" => seen'[r] = seen[r])
           /\ Others(r)
  BY DEF MfaTypeOK, MoveTo, Others

\* The UPDATE to active: of the secret that was checked, or of a swapped one.
LEMMA ActivateKeeps ==
    ASSUME MfaTypeOK, MfaTypeOK', NEW r \in Reqs, Activate(r), Sound
    PROVE  Sound'
  <1>1. /\ UNCHANGED <<ops, fails, throws, proven, uses, mails>>
        /\ overlaps \subseteq overlaps' /\ at[r] = "activate" /\ at'[r] = "record" /\ Others(r)
    BY Goes DEF Activate, Happened, bounds
  <1>2. /\ row' = NoRow <=> row = NoRow
        /\ row # NoRow => /\ row'.id = row.id /\ row'.secret = row.secret
                          /\ row'.sheet = row.sheet /\ row'.left = row.left
                          /\ row'.status = "active" /\ row'.mailed = row.mailed
    <2>1. CASE row = NoRow
      BY <2>1 DEF Activate, Activated
    <2>2. CASE row # NoRow
      <3>1. row \in Row /\ row' = [row EXCEPT !.status = "active", !.old = FALSE]
        BY <2>2, RowFields DEF Activate, Activated
      <3>2. row' \in Row
        BY <3>1 DEF Row
      <3> QED BY <2>2, <3>1, <3>2, NoRowApart DEF Row
    <2> QED BY <2>1, <2>2
  <1>3. row # NoRow => row.secret \in proven \/ "swapped" \in overlaps'
    BY DEF Activate, Happened, Sound, Known
  <1>4. fails \in Nat /\ throws \in Nat /\ (row # NoRow => row.mailed \in Reqs \cup {"none"})
    BY RowFields DEF MfaTypeOK
  <1> USE <1>1, <1>2, <1>3, <1>4 DEF Sound, Others
  <1>5. \A q \in Reqs : Known(q)'
    BY DEF Known, Holds
  <1>6. Fresh'
    BY DEF Fresh
  <1>7. CodesAreChecked' /\ Unused'
    BY DEF CodesAreChecked, Unused, Enrolled
  <1>8. Marked'
    BY DEF Marked, Holds, Enrolled
  <1>9. Once'
    BY DEF Once, Holds
  <1> QED BY <1>5, <1>6, <1>7, <1>8, <1>9

\* The conditional claim of the marker: one wins, and nobody has sent before.
LEMMA ClaimKeeps ==
    ASSUME MfaTypeOK, MfaTypeOK', NEW r \in Reqs, Claim(r), Sound
    PROVE  Sound'
  <1>1. CASE Claimable
    <2>1. /\ UNCHANGED <<ops, fails, throws, proven, uses, mails, overlaps>>
          /\ at[r] = "claim" /\ at'[r] = "mail" /\ Others(r) /\ seen'[r].id = row.id
      BY <1>1 DEF Claim, MfaTypeOK, Others, bounds, history, Nothing
    <2>2. /\ row # NoRow /\ row.mailed = "none" /\ row' # NoRow /\ row'.id = row.id
          /\ row'.secret = row.secret /\ row'.sheet = row.sheet /\ row'.left = row.left
          /\ row'.status = row.status /\ row'.mailed = r
      <3>1. row \in Row /\ row' = [row EXCEPT !.mailed = r] /\ row.mailed = "none"
        BY <1>1, RowFields DEF Claim, Claimable, Enrolled
      <3>2. row' \in Row
        BY <3>1 DEF Row
      <3> QED BY <3>1, <3>2, NoRowApart DEF Row
    <2>3. row.id \in 1 .. ops /\ r # "none"
      <3>1. row.id \in Numbers /\ row.id <= ops /\ ops \in 0 .. MaxOps /\ MaxOps \in Nat
        BY <2>2, RowFields, Parameters DEF Sound, Fresh, MfaTypeOK
      <3> QED BY <3>1, Parameters DEF Numbers
    <2> USE <2>1, <2>2, <2>3, Parameters DEF Sound, Others
    <2>4. \A q \in Reqs : Known(q)'
      BY DEF Known, Holds
    <2>5. Fresh'
      BY DEF Fresh
    <2>6. CodesAreChecked' /\ Unused'
      BY DEF CodesAreChecked, Unused, Enrolled
    <2>7. Marked'
      BY DEF Marked, Holds
    <2>8. Once'
      BY DEF Once, Holds
    <2> QED BY <2>4, <2>5, <2>6, <2>7, <2>8
  <1>2. CASE ~Claimable
    <2>1. /\ UNCHANGED <<row, ops, fails, throws, proven, uses, mails, overlaps>>
          /\ at[r] = "claim" /\ at'[r] = "idle" /\ Others(r)
      BY <1>2 DEF Claim, MfaTypeOK, Others, bounds, history
    <2>2. row # NoRow => row.mailed \in Reqs \cup {"none"}
      BY RowFields
    <2> USE <2>1, <2>2 DEF Sound, Others
    <2>4. \A q \in Reqs : Known(q)'
      BY DEF Known, Holds
    <2>5. Fresh'
      BY DEF Fresh
    <2>6. CodesAreChecked' /\ Unused'
      BY DEF CodesAreChecked, Unused, Enrolled
    <2>7. Marked'
      BY <1>2 DEF Marked, Holds, Claimable, Enrolled
    <2>8. Once'
      BY DEF Once, Holds
    <2> QED BY <2>4, <2>5, <2>6, <2>7, <2>8
  <1> QED BY <1>1, <1>2

\* The mail of the one who holds the claim.
LEMMA MailKeeps ==
    ASSUME MfaTypeOK, MfaTypeOK', NEW r \in Reqs, Mail(r), Sound
    PROVE  Sound'
  <1> DEFINE n == seen[r].id
  <1>1. n \in 1 .. ops /\ n \in Numbers /\ ops \in 0 .. MaxOps /\ MaxOps \in Nat
    BY Parameters DEF Mail, Sound, Known, Holds, MfaTypeOK, Numbers
  <1>2. /\ UNCHANGED <<row, ops, fails, throws, proven, uses, overlaps>>
        /\ at[r] = "mail" /\ at'[r] = "idle" /\ Others(r)
    BY Goes DEF Mail, bounds
  <1>3. /\ mails'[n] = mails[n] + 1 /\ mails[n] \in Nat
        /\ \A k \in Numbers : k # n => mails'[k] = mails[k] /\ mails[k] \in Nat
    BY <1>1 DEF Mail, MfaTypeOK
  <1>4. row # NoRow => row.mailed \in Reqs \cup {"none"} /\ row.id \in Numbers
    BY RowFields
  <1>5. \A q \in Reqs : Holds(q) => seen[q].id \in Numbers
    BY <1>1 DEF Sound, Known, Numbers
  <1> HIDE DEF n
  <1> USE <1>1, <1>2, <1>3, <1>4 DEF Sound, Others
  <1>6. \A q \in Reqs : Known(q)'
    BY DEF Known, Holds
  <1>7. Fresh'
    <2>1. Fresh
      OBVIOUS
    <2>2. ASSUME NEW k \in Numbers, k > ops PROVE mails'[k] = mails[k]
      BY <2>2
    <2>3. \A k \in Numbers : k > ops => mails'[k] = 0 /\ \A c \in Codes : uses'[<<k, c>>] = 0
      BY <2>1, <2>2 DEF Fresh
    <2>4. \A q, s \in Reqs : at'[q] = "regenerate" /\ at'[s] = "regenerate" /\ q # s
                                 => seen'[q].sheet # seen'[s].sheet
      BY <2>1 DEF Fresh
    <2> QED BY <2>1, <2>3, <2>4 DEF Fresh
  <1>8. CodesAreChecked' /\ Unused'
    BY DEF CodesAreChecked, Unused, Enrolled
  <1>9. Marked'
    BY DEF Marked, Holds, n, Enrolled
  <1>10. Once'
    <2> SUFFICES ASSUME "clobbered" \notin overlaps PROVE Once'
      BY DEF Once
    <2>1. mails[n] = 0 /\ (row # NoRow /\ row.id = n => row.mailed = r)
             /\ \A q \in Reqs : Holds(q) /\ seen[q].id = n => q = r
      BY DEF Once, Holds, n
    <2>2. \A k \in Numbers : mails'[k] <= 1
      BY <2>1 DEF Once
    <2>3. row' # NoRow /\ row'.mailed = "none" => mails'[row'.id] = 0
      BY <2>1, Parameters DEF Once
    <2>4. ASSUME NEW q \in Reqs, Holds(q)'
          PROVE  /\ mails'[seen'[q].id] = 0
                 /\ row' # NoRow /\ row'.id = seen'[q].id => row'.mailed = q
                 /\ \A s \in Reqs : Holds(s)' /\ seen'[s].id = seen'[q].id => s = q
      <3>1. q # r /\ Holds(q) /\ seen'[q] = seen[q] /\ seen[q].id \in Numbers
        BY <2>4, <1>5 DEF Holds
      <3>2. mails'[seen[q].id] = 0 /\ (row # NoRow /\ row.id = seen[q].id => row.mailed = q)
        BY <2>1, <3>1 DEF Once
      <3>3. \A s \in Reqs : Holds(s)' /\ seen'[s].id = seen[q].id => s = q
        BY <3>1 DEF Once, Holds
      <3> QED BY <3>1, <3>2, <3>3
    <2> QED BY <2>2, <2>3, <2>4 DEF Once
  <1> QED BY <1>6, <1>7, <1>8, <1>9, <1>10

\* The mail that cannot be enqueued.
LEMMA ThrowKeeps ==
    ASSUME MfaTypeOK, MfaTypeOK', NEW r \in Reqs, MailThrows(r), Sound
    PROVE  Sound'
  <1>1. /\ UNCHANGED <<row, ops, fails, proven, uses, mails, overlaps>>
        /\ throws \in Nat /\ fails \in Nat /\ throws' = throws + 1 /\ throws' + fails > 0
        /\ at[r] = "mail" /\ at'[r] = "unclaim" /\ seen'[r] = seen[r] /\ Others(r)
    BY Goes DEF MailThrows, history, MfaTypeOK
  <1> USE <1>1 DEF Sound, Others
  <1>2. \A q \in Reqs : Known(q)'
    BY DEF Known, Holds
  <1>3. Fresh'
    BY DEF Fresh
  <1>4. CodesAreChecked' /\ Unused'
    BY DEF CodesAreChecked, Unused, Enrolled
  <1>5. Marked'
    <2>1. row # NoRow => row.mailed \in Reqs \cup {"none"}
      BY RowFields
    <2> QED BY <2>1 DEF Marked, Holds
  <1>6. Once'
    BY DEF Once, Holds
  <1> QED BY <1>2, <1>3, <1>4, <1>5, <1>6

\* The rollback of the claim: of his own, or of a later one (clobbered).
LEMMA UnclaimKeeps ==
    ASSUME MfaTypeOK, MfaTypeOK', NEW r \in Reqs, Unclaim(r), Sound
    PROVE  Sound'
  <1>1. /\ UNCHANGED <<ops, fails, throws, proven, uses, mails>>
        /\ overlaps \subseteq overlaps' /\ throws \in Nat /\ fails \in Nat /\ throws > 0
        /\ at[r] = "unclaim" /\ at'[r] = "idle" /\ Others(r)
    BY Goes DEF Unclaim, bounds, MfaTypeOK, Sound, Known
  <1>2. CASE Enrolled
    <2>1. /\ row # NoRow /\ row' # NoRow /\ row'.id = row.id /\ row'.secret = row.secret
          /\ row'.sheet = row.sheet /\ row'.left = row.left /\ row'.status = row.status
          /\ row'.mailed = "none"
      <3>1. row \in Row /\ row' = [row EXCEPT !.mailed = "none"] /\ row # NoRow
        BY <1>2, RowFields DEF Unclaim, Enrolled
      <3>2. row' \in Row
        BY <3>1 DEF Row
      <3> QED BY <3>1, <3>2, NoRowApart DEF Row
    <2>2. "clobbered" \notin overlaps' =>
              row.mailed \in {r, "none"} /\ "clobbered" \notin overlaps
      BY <1>1, <1>2 DEF Unclaim
    <2> USE <1>1, <2>1, <2>2, Parameters DEF Sound, Others
    <2>3. \A q \in Reqs : Known(q)'
      BY DEF Known, Holds
    <2>4. Fresh'
      BY DEF Fresh
    <2>5. CodesAreChecked' /\ Unused'
      BY DEF CodesAreChecked, Unused, Enrolled
    <2>6. Marked'
      BY DEF Marked, Holds
    <2>7. Once'
      BY DEF Once, Holds, Marked
    <2> QED BY <2>3, <2>4, <2>5, <2>6, <2>7
  <1>3. CASE ~Enrolled
    <2>1. row' = row /\ (row # NoRow /\ row.mailed = r => "kept" \in overlaps')
      BY <1>3 DEF Unclaim
    <2>2. row # NoRow => row.mailed \in Reqs \cup {"none"}
      BY RowFields
    <2> USE <1>1, <1>3, <2>1, <2>2 DEF Sound, Others
    <2>3. \A q \in Reqs : Known(q)'
      BY DEF Known, Holds
    <2>4. Fresh'
      BY DEF Fresh
    <2>5. CodesAreChecked' /\ Unused'
      BY DEF CodesAreChecked, Unused, Enrolled
    <2>6. Marked'
      BY DEF Marked, Holds, Enrolled
    <2>7. Once'
      BY DEF Once, Holds
    <2> QED BY <2>3, <2>4, <2>5, <2>6, <2>7
  <1> QED BY <1>2, <1>3

\* The conditional UPDATE that takes a code off the sheet: it was on it, hence unused.
LEMMA ConsumeKeeps ==
    ASSUME MfaTypeOK, MfaTypeOK', NEW r \in Reqs, ConsumeCode(r), StillThere(r), Sound
    PROVE  Sound'
  <1> DEFINE code == <<row.sheet, seen[r].code>>
  <1>1. /\ UNCHANGED <<ops, fails, throws, proven, mails, overlaps>>
        /\ at[r] = "consume" /\ at'[r] = "assert" /\ Others(r)
    BY Goes DEF ConsumeCode, bounds
  <1>2. /\ row # NoRow /\ row' # NoRow /\ row'.id = row.id /\ row'.secret = row.secret
        /\ row'.sheet = row.sheet /\ row'.left = row.left \ {seen[r].code}
        /\ row'.status = row.status /\ row'.mailed = row.mailed
        /\ row.left \subseteq Codes /\ row.sheet \in Numbers /\ seen[r].code \in row.left
        /\ row.mailed \in Reqs \cup {"none"}
    <2>1. row \in Row /\ row' = [row EXCEPT !.left = row.left \ {seen[r].code}, !.old = FALSE]
             /\ row # NoRow
      BY RowFields DEF ConsumeCode, StillThere
    <2>2. row' \in Row
      BY <2>1 DEF Row
    <2> QED BY <2>1, <2>2, NoRowApart, RowFields DEF Row, StillThere
  <1>3. code \in Numbers \X Codes
    BY <1>2
  <1>4. uses' = [uses EXCEPT ![code] = @ + 1] /\ uses \in [Numbers \X Codes -> Nat]
    BY DEF ConsumeCode, StillThere, MfaTypeOK
  <1>5. uses[code] = 0
    BY <1>2 DEF Sound, Unused
  <1>6. uses'[code] = 1 /\ \A c \in Numbers \X Codes : c # code => uses'[c] = uses[c]
    BY <1>3, <1>4, <1>5
  <1>7. ASSUME NEW n \in Numbers, n # row.sheet, NEW c \in Codes
        PROVE  uses'[<<n, c>>] = uses[<<n, c>>]
    BY <1>6, <1>7
  <1>8. ASSUME NEW c \in row'.left PROVE uses'[<<row.sheet, c>>] = 0
    <2>1. c \in Codes /\ c # seen[r].code /\ uses[<<row.sheet, c>>] = 0
      BY <1>2, <1>8 DEF Sound, Unused
    <2> QED BY <1>2, <1>6, <2>1
  <1>9. /\ ops \in 0 .. MaxOps /\ MaxOps \in Nat
        /\ \A q \in Reqs : at[q] = "regenerate" => seen[q].sheet \in Numbers
    BY Parameters DEF Sound, Known, MfaTypeOK, Numbers
  <1> HIDE DEF code
  <1> USE <1>1, <1>2 DEF Sound, Others
  <1>10. \A q \in Reqs : Known(q)'
    BY <1>7, <1>9 DEF Known, Holds
  <1>11. Fresh'
    <2>1. \A n \in Numbers : n > ops => n # row.sheet
      BY <1>9 DEF Fresh, Numbers
    <2> QED BY <1>7, <2>1 DEF Fresh
  <1>12. CodesAreChecked' /\ Unused'
    <2>1. \A c \in Numbers \X Codes : uses'[c] <= 1
      BY <1>6 DEF CodesAreChecked
    <2> QED BY <1>8, <2>1 DEF CodesAreChecked, Unused, Enrolled
  <1>13. Marked'
    BY DEF Marked, Holds, Enrolled
  <1>14. Once'
    BY DEF Once, Holds
  <1> QED BY <1>10, <1>11, <1>12, <1>13, <1>14

\* The new sheet: fresh, and no other request's.
LEMMA RegenerateKeeps ==
    ASSUME MfaTypeOK, MfaTypeOK', NEW r \in Reqs, Regenerate(r), Sound
    PROVE  Sound'
  <1>1. /\ UNCHANGED <<ops, fails, throws, proven, uses, mails, overlaps>>
        /\ at[r] = "regenerate" /\ at'[r] = "idle" /\ Others(r)
    BY Goes DEF Regenerate, bounds, history
  <1>2. CASE Enrolled
    <2>1. /\ row # NoRow /\ row' # NoRow /\ row'.id = row.id /\ row'.secret = row.secret
          /\ row'.sheet = seen[r].sheet /\ row'.left = Codes
          /\ row'.status = row.status /\ row'.mailed = row.mailed
          /\ row.mailed \in Reqs \cup {"none"}
      <3>1. row \in Row /\ row' = NewSheet(seen[r].sheet) /\ row # NoRow
        BY <1>2, RowFields DEF Regenerate, Enrolled
      <3>2. row' # NoRow
        BY <3>1, NoRowApart DEF NewSheet, Row, NoRow
      <3> QED BY <3>1, <3>2, RowFields DEF Row, NewSheet
    <2>2. seen[r].sheet \in 1 .. ops /\ \A c \in Codes : uses[<<seen[r].sheet, c>>] = 0
      BY <1>1 DEF Sound, Known
    <2> USE <1>1, <2>1, <2>2 DEF Sound, Others
    <2>3. \A q \in Reqs : Known(q)'
      BY DEF Known, Holds, Fresh
    <2>4. Fresh'
      BY DEF Fresh
    <2>5. CodesAreChecked' /\ Unused'
      BY DEF CodesAreChecked, Unused, Enrolled
    <2>6. Marked'
      BY DEF Marked, Holds, Enrolled
    <2>7. Once'
      BY DEF Once, Holds
    <2> QED BY <2>3, <2>4, <2>5, <2>6, <2>7
  <1>3. CASE ~Enrolled
    <2>1. row' = row
      BY <1>3 DEF Regenerate
    <2>2. row # NoRow => row.mailed \in Reqs \cup {"none"}
      BY RowFields
    <2> USE <1>1, <2>1, <2>2 DEF Sound, Others
    <2>3. \A q \in Reqs : Known(q)'
      BY DEF Known, Holds
    <2>4. Fresh'
      BY DEF Fresh
    <2>5. CodesAreChecked' /\ Unused'
      BY DEF CodesAreChecked, Unused, Enrolled
    <2>6. Marked'
      BY DEF Marked, Holds, Enrolled
    <2>7. Once'
      BY DEF Once, Holds
    <2> QED BY <2>3, <2>4, <2>5, <2>6, <2>7
  <1> QED BY <1>2, <1>3

-----------------------------------------------------------------------------
(* The theorems.                                                           *)

\* The invariant is inductive.
LEMMA MfaInvKept == MfaInv /\ [MfaNext]_mfaVars => MfaInv'
  <1> SUFFICES ASSUME MfaTypeOK, Sound, [MfaNext]_mfaVars PROVE MfaTypeOK' /\ Sound'
    BY DEF MfaInv, Sound
  <1>1. ASSUME NEW r \in Reqs, Ask(r) PROVE MfaTypeOK' /\ Sound'
    BY <1>1, TypeAsk, SetupKeeps, ReadingKeeps
  <1>2. ASSUME NEW r \in Reqs, Proceed(r) \/ MailThrows(r) \/ RequestFails(r)
        PROVE  MfaTypeOK' /\ Sound'
    <2>1. MfaTypeOK'
      BY <1>2, TypeProceed DEF Sound
    <2>2. Others(r)
      BY <1>2, OnlyHis DEF Others
    <2>3. CASE \/ Record(r) \/ Touch(r) \/ DeleteRow(r) \/ DeleteChallenges(r) \/ RequestFails(r)
               \/ ConsumeCode(r) /\ ~StillThere(r)
      BY <2>1, <2>2, <2>3, PlainSteps, PlainKeeps
    <2>4. CASE Activate(r) \/ Claim(r) \/ Mail(r) \/ MailThrows(r) \/ Unclaim(r)
      BY <2>1, <2>4, ActivateKeeps, ClaimKeeps, MailKeeps, ThrowKeeps, UnclaimKeeps
    <2>5. CASE Regenerate(r) \/ (ConsumeCode(r) /\ StillThere(r))
      BY <2>1, <2>5, RegenerateKeeps, ConsumeKeeps
    <2> QED BY <1>2, <2>1, <2>3, <2>4, <2>5 DEF Proceed
  <1>3. CASE \/ \E t \in Ticks : Tick(t) \/ NudgeThrows(t) \/ TickFails(t)
             \/ Age \/ Prune \/ Lapse \/ UNCHANGED mfaVars
    <2>1. MfaTypeOK'
      <3>1. CASE UNCHANGED mfaVars
        BY <3>1 DEF MfaTypeOK, Enrolled, mfaVars, request, bounds, history
      <3> QED BY <1>3, <3>1, TypeTick, TypeTime
    <2>2. Aside
      BY <1>3, StepsAside
    <2> QED BY <2>1, <2>2, AsideKeeps
  <1> QED BY <1>1, <1>2, <1>3 DEF MfaNext

\* The inductive invariant holds in every state, for any numbers of requests, ticks,
\* operations and faults.
THEOREM MfaInvariance == MfaSpec => []MfaInv
  <1>1. MfaInit => MfaInv
    BY TypeInit, SoundInit DEF MfaInv, Sound
  <1> QED BY <1>1, MfaInvKept, PTL DEF MfaSpec

\* The model's values keep their types.
THEOREM MfaTyped == MfaSpec => []MfaTypeOK
  <1>1. MfaInv => MfaTypeOK
    BY DEF MfaInv
  <1> QED BY <1>1, MfaInvariance, PTL

\* No backup code is accepted twice, and an active authenticator has shown a right code
\* (lib/mfa.ts: consumeBackupCode, activateTotp).
THEOREM CodesChecked == MfaSpec => []CodesAreChecked
  <1>1. MfaInv => CodesAreChecked
    BY DEF MfaInv
  <1> QED BY <1>1, MfaInvariance, PTL

\* The mail about the activation goes out once, and no marker stands for a mail that
\* was given up (lib/mfa.ts: the claim, the enqueue and the rollback).
THEOREM OwnerTold == MfaSpec => []OwnerIsTold
  <1>1. MfaInv => OwnerIsTold
    <2> SUFFICES ASSUME MfaInv PROVE OwnerIsTold
      OBVIOUS
    <2>1. \A n \in Numbers : mails[n] <= 1 \/ "clobbered" \in overlaps
      BY DEF MfaInv, Once
    <2> QED BY <2>1 DEF MfaInv, Marked, Holds, OwnerIsTold
  <1> QED BY <1>1, MfaInvariance, PTL

-----------------------------------------------------------------------------
(* The nudges.                                                             *)

\* A tick that has stamped the marker and not yet sent, given up or rolled back.
Sends(t) == tick[t].at \in {"mail", "unstamp"}

\* What a tick is about to tell the user of, the sheet and the band.
About(t, n, b) == tick[t].sheet = n /\ tick[t].level = b

\* Of a sheet and a band: no mail, and nobody on the way to send one.
Clean(n, b) ==
    /\ nudges[<<n, b>>] = 0
    /\ \A t \in Ticks : Sends(t) => ~About(t, n, b)

\* A marker that is set says by whom, for which sheet and which band.
Proper(m) == m = NoMarker \/ (m.level \in Bands /\ m.by \in Ticks /\ m.sheet \in Numbers)

\* What a tick in progress knows; a second mail that is not enqueued is the second fault.
Scanned ==
    /\ \A t \in Ticks : tick[t].at # "idle" =>
           tick[t].level \in Bands /\ Rank(tick[t].last.level) < Rank(tick[t].level)
    /\ \A t \in Ticks : Sends(t) => tick[t].sheet \in 1 .. ops
    /\ \A t \in Ticks : Proper(tick[t].last)
    /\ row # NoRow => Proper(row.nudged)
    /\ \A t \in Ticks : tick[t].at = "unstamp" => throws > 0
    /\ \A t, u \in Ticks : tick[t].at = "unstamp" /\ tick[u].at = "unstamp" /\ u # t
                              => throws > 1

\* Nobody has told of a sheet that is not stored yet.
ToCome ==
    /\ \A n \in Numbers : n > ops => \A b \in Bands : nudges[<<n, b>>] = 0
    /\ \A r \in Reqs : at[r] = "regenerate" => \A b \in Bands : Clean(seen[r].sheet, b)

\* The marker as a tick has set it.
StampOf(t) == [level |-> tick[t].level, by |-> t, sheet |-> tick[t].sheet]

\* Once a tick that set the marker rolls it back, what is above it is clean again; the
\* same once a tick that set the marker over it and then that one roll it back.
Reversible ==
    /\ \A t \in Ticks : Sends(t) /\ row # NoRow /\ row.nudged = StampOf(t) =>
           \A b \in Bands : Rank(tick[t].last.level) < Rank(b) /\ ~About(t, row.sheet, b)
                               => Clean(row.sheet, b)
    /\ \A t, u \in Ticks :
           (Sends(t) /\ Sends(u) /\ row # NoRow /\ row.nudged = StampOf(u)
               /\ tick[u].last = StampOf(t)) =>
           \A b \in Bands : (Rank(tick[t].last.level) < Rank(b) /\ ~About(t, row.sheet, b)
                                  /\ ~About(u, row.sheet, b))
                               => Clean(row.sheet, b)

\* Unless a rollback took another tick's marker, what is above the marker is clean,
\* and what a tick is about to send is its own and has not been sent.
Told ==
    "clobbered" \notin overlaps =>
        /\ \A n \in Numbers, b \in Bands : nudges[<<n, b>>] <= 1
        /\ \A t \in Ticks : Sends(t) =>
              /\ nudges[<<tick[t].sheet, tick[t].level>>] = 0
              /\ \A u \in Ticks : Sends(u) /\ About(u, tick[t].sheet, tick[t].level) => u = t
        /\ row # NoRow => \A b \in Bands : Rank(row.nudged.level) < Rank(b) => Clean(row.sheet, b)
        /\ Reversible

\* A marker that stands for a mail: sent, or about to be by the tick that set it.
Stands(m) ==
    m # NoMarker =>
        \/ nudges[<<m.sheet, m.level>>] > 0
        \/ Sends(m.by) /\ About(m.by, m.sheet, m.level)

\* A request or tick has died, two mails were not enqueued, or a setup kept a marker.
Excused == fails > 0 \/ throws > 1 \/ "inherited" \in overlaps

\* Unless excused, the marker of the row stands for a mail, and so does the one a tick
\* goes back to.
Standing ==
    ~Excused =>
        /\ row # NoRow => Stands(row.nudged) /\ (Enrolled \/ row.nudged = NoMarker)
        /\ \A t \in Ticks : tick[t].at = "unstamp" \/ (tick[t].at = "mail" /\ throws = 0)
                               => Stands(tick[t].last)

\* The marker is about the sheet it was set for, and so is the one before it.
OfThisSheet ==
    overlaps \cap {"inherited", "clobbered"} = {} =>
        /\ row # NoRow /\ row.nudged # NoMarker => row.nudged.sheet = row.sheet
        /\ \A t \in Ticks : Sends(t) /\ tick[t].last # NoMarker
                               => tick[t].last.sheet = tick[t].sheet

NudgeInv == Scanned /\ ToCome /\ Told /\ Standing /\ OfThisSheet

-----------------------------------------------------------------------------
\* The bands are ordered.
LEMMA Ranks ==
    /\ Rank("none") = 0 /\ Rank("low") = 1 /\ Rank("empty") = 2
    /\ \A b \in Bands \cup {"none"} : Rank(b) \in 0 .. 2
    /\ \A b \in Bands : Rank(b) > 0
    /\ \A b, c \in Bands \cup {"none"} : Rank(b) = Rank(c) => b = c
  <1>1. Rank("none") = 0 /\ Rank("low") = 1 /\ Rank("empty") = 2
    BY DEF Rank
  <1> QED BY <1>1 DEF Bands

\* Of a tick, what its types say.
LEMMA TickFields ==
    ASSUME MfaTypeOK, NEW t \in Ticks
    PROVE  /\ tick[t] \in TickState /\ tick[t].at \in {"idle", "stamp", "mail", "unstamp"}
           /\ tick[t].last \in Marker /\ tick[t].last.level \in Bands \cup {"none"}
           /\ tick[t].level \in Bands \cup {"none"} /\ tick[t].sheet \in 0 .. MaxOps
  BY DEF MfaTypeOK, TickState, Marker

\* Nobody has told of a sheet that is stored by a later operation.
LEMMA Unwritten ==
    ASSUME MfaTypeOK, Scanned, ToCome, NEW n \in Numbers, n > ops, NEW b \in Bands
    PROVE  Clean(n, b)
  <1>1. ops \in Nat /\ n \in Nat
    BY Parameters DEF MfaTypeOK, Numbers
  <1>2. \A t \in Ticks : Sends(t) => tick[t].sheet # n
    BY <1>1 DEF Scanned
  <1> QED BY <1>2 DEF ToCome, Clean, About

-----------------------------------------------------------------------------
(* The nudges and everybody else.                                          *)

\* What others do to the row: it goes, it keeps sheet and marker, or it gets a sheet
\* of which nobody has told and no marker, unless a setup lets it keep the old one.
Resheeted ==
    \/ row' = NoRow
    \/ /\ row # NoRow /\ row' # NoRow /\ row'.sheet = row.sheet /\ row'.nudged = row.nudged
       /\ Enrolled => Enrolled'
    \/ /\ row' # NoRow
       /\ \/ row'.nudged = NoMarker
          \/ row # NoRow /\ row'.nudged = row.nudged /\ "inherited" \in overlaps'
       /\ \A b \in Bands : Clean(row'.sheet, b)

\* A step that is no tick's.
Users ==
    /\ Resheeted /\ UNCHANGED <<tick, nudges>>
    /\ ops <= ops' /\ fails <= fails' /\ throws <= throws' /\ overlaps \subseteq overlaps'
    /\ \A q \in Reqs : at'[q] = "regenerate" =>
           \/ at[q] = "regenerate" /\ seen'[q].sheet = seen[q].sheet
           \/ seen'[q].sheet \in Numbers /\ seen'[q].sheet > ops

\* Other people's steps take nothing from the ticks' invariant.
LEMMA UsersKeep ==
    ASSUME MfaTypeOK, MfaTypeOK', Users, NudgeInv
    PROVE  NudgeInv'
  <1>0. /\ Resheeted /\ tick' = tick /\ nudges' = nudges
        /\ ops <= ops' /\ fails <= fails' /\ throws <= throws' /\ overlaps \subseteq overlaps'
        /\ ops \in Nat /\ ops' \in Nat /\ fails \in Nat /\ throws \in Nat
        /\ fails' \in Nat /\ throws' \in Nat
    BY DEF Users, MfaTypeOK
  <1>i. Scanned /\ ToCome /\ Told /\ Standing /\ OfThisSheet
    BY DEF NudgeInv
  <1>1. \A t \in Ticks : Sends(t)' <=> Sends(t)
    BY <1>0 DEF Sends
  <1>2. \A n, b : Clean(n, b)' <=> Clean(n, b)
    BY <1>0 DEF Clean, Sends, About
  <1>3. \A m : Stands(m)' <=> Stands(m)
    BY <1>0 DEF Stands, Sends, About
  <1>4. Scanned'
    <2>1. row' # NoRow => Proper(row'.nudged)
      BY <1>0, <1>i DEF Resheeted, Scanned, Proper
    <2> QED BY <1>0, <1>i, <2>1 DEF Scanned, Sends, Proper
  <1>5. ToCome'
    <2>1. ASSUME NEW q \in Reqs, at'[q] = "regenerate", NEW b \in Bands
          PROVE  Clean(seen'[q].sheet, b)
      BY <1>i, <2>1, Unwritten DEF Users, ToCome
    <2>2. \A q \in Reqs : at'[q] = "regenerate" => \A b \in Bands : Clean(seen[q].sheet, b)'
      BY <1>0, <2>1 DEF Clean, Sends, About
    <2> QED BY <1>0, <1>i, <2>2 DEF ToCome, Numbers
  <1>6. Told'
    <2> SUFFICES ASSUME "clobbered" \notin overlaps'
                 PROVE  Told'
      BY DEF Told
    <2>0. "clobbered" \notin overlaps
      BY <1>0
    <2>1. row' # NoRow => \A b \in Bands : Rank(row'.nudged.level) < Rank(b) => Clean(row'.sheet, b)
      BY <1>0, <1>i, <2>0 DEF Told, Resheeted
    <2>2. \A t \in Ticks : Sends(t) /\ row' # NoRow /\ row'.nudged = StampOf(t) =>
             \A b \in Bands : Rank(tick[t].last.level) < Rank(b) /\ ~About(t, row'.sheet, b)
                               => Clean(row'.sheet, b)
      BY <1>0, <1>i, <2>0 DEF Told, Reversible, Resheeted
    <2>3. \A t, u \in Ticks :
             (Sends(t) /\ Sends(u) /\ row' # NoRow /\ row'.nudged = StampOf(u)
                 /\ tick[u].last = StampOf(t)) =>
             \A b \in Bands : (Rank(tick[t].last.level) < Rank(b) /\ ~About(t, row'.sheet, b)
                                    /\ ~About(u, row'.sheet, b))
                                 => Clean(row'.sheet, b)
      BY <1>0, <1>i, <2>0 DEF Told, Reversible, Resheeted
    <2>4. Reversible'
      BY <1>0, <1>2, <2>2, <2>3 DEF Reversible, Sends, StampOf, About
    <2>5. row' # NoRow => \A b \in Bands : Rank(row'.nudged.level) < Rank(b) => Clean(row.sheet, b)'
      BY <1>0, <2>1 DEF Clean, Sends, About
    <2> QED BY <1>0, <1>i, <2>0, <2>4, <2>5 DEF Told, Sends, About
  <1>7. Standing'
    <2> SUFFICES ASSUME ~Excused' PROVE Standing'
      BY DEF Standing
    <2>1. ~Excused
      BY <1>0 DEF Excused
    <2>2. row' # NoRow => Stands(row'.nudged) /\ (Enrolled' \/ row'.nudged = NoMarker)
      <3>1. "inherited" \notin overlaps'
        BY DEF Excused
      <3> QED BY <1>0, <1>i, <2>1, <3>1 DEF Standing, Resheeted, Stands
    <2>3. \A t \in Ticks : tick[t].at = "unstamp" \/ (tick[t].at = "mail" /\ throws' = 0)
                               => Stands(tick[t].last)
      BY <1>0, <1>i, <2>1 DEF Standing
    <2> QED BY <1>0, <1>3, <2>2, <2>3 DEF Standing
  <1>8. OfThisSheet'
    BY <1>0, <1>i DEF OfThisSheet, Resheeted, Sends
  <1> QED BY <1>4, <1>5, <1>6, <1>7, <1>8 DEF NudgeInv

\* The requests' steps and those of time are such steps.
LEMMA UsersSteps ==
    ASSUME MfaTypeOK, MfaTypeOK', NudgeInv,
           \/ \E r \in Reqs : Ask(r) \/ Proceed(r) \/ MailThrows(r) \/ RequestFails(r)
           \/ Age \/ Prune \/ Lapse \/ UNCHANGED mfaVars
    PROVE  Users
  <1>0. /\ ops \in Nat /\ fails \in Nat /\ throws \in Nat /\ MaxOps \in Nat
        /\ row # NoRow => row \in Row
        /\ at \in [Reqs -> Places] /\ ops \in 0 .. MaxOps /\ seen \in [Reqs -> Seen]
    BY Parameters, RowFields DEF MfaTypeOK, Seen
  <1>i. Scanned /\ ToCome
    BY DEF NudgeInv
  <1>k. (row # NoRow /\ row' # NoRow /\ row'.sheet = row.sheet /\ row'.nudged = row.nudged
            /\ (row.status = "active" => row'.status = "active")) => Resheeted
    BY DEF Resheeted, Enrolled
  <1>1. ASSUME NEW r \in Reqs, Setup(r) PROVE Users
    <2>1. /\ row' = Upserted(ops + 1) /\ ops < MaxOps /\ ops' = ops + 1 /\ UNCHANGED <<fails, throws>>
          /\ UNCHANGED <<at, seen, tick, nudges>>
          /\ overlaps' = IF row # NoRow /\ row.nudged # NoMarker THEN overlaps \cup {"inherited"}
                                                                ELSE overlaps
      BY <1>1 DEF Setup, Begin, Happened, request
    <2>2. ops + 1 \in Numbers
      BY <1>0, <2>1 DEF Numbers
    <2>3. row' # NoRow /\ row'.sheet = ops + 1
          /\ row'.nudged = IF row = NoRow THEN NoMarker ELSE row.nudged
      <3>1. row' \in Row
        <4>1. CASE row = NoRow
          <5>1. NoMarker \in Marker /\ Codes \in SUBSET Codes
            BY Parameters DEF NoMarker, Marker
          <5> QED BY <2>1, <2>2, <4>1, <5>1 DEF Upserted, NewEnrolment, Row
        <4>2. CASE row # NoRow
          BY <1>0, <2>1, <2>2, <4>2 DEF Upserted, Row, Codes
        <4> QED BY <4>1, <4>2
      <3>2. CASE row = NoRow
        BY <2>1, <3>1, <3>2, NoRowApart DEF Upserted, NewEnrolment
      <3>3. CASE row # NoRow
        BY <1>0, <2>1, <3>1, <3>3, NoRowApart DEF Upserted, Row
      <3> QED BY <3>2, <3>3
    <2>4. \A b \in Bands : Clean(row'.sheet, b)
      BY <1>0, <1>i, <2>2, <2>3, Unwritten
    <2>5. Resheeted
      BY <2>1, <2>3, <2>4 DEF Resheeted
    <2> QED BY <1>0, <2>1, <2>5 DEF Users
  <1>2. ASSUME NEW r \in Reqs, Ask(r), ~Setup(r) PROVE Users
    <2>1. /\ UNCHANGED <<row, fails, throws, tick, nudges, overlaps>> /\ ops < MaxOps /\ ops' = ops + 1
      BY <1>2 DEF Ask, CheckCode, CheckAssertion, CheckBackupCode, AskRecent, Read, Begin, history
    <2>2. \A q \in Reqs : at'[q] = "regenerate" =>
             \/ at[q] = "regenerate" /\ seen'[q].sheet = seen[q].sheet
             \/ seen'[q].sheet = ops + 1
      <3>1. ASSUME CheckCode(r) \/ CheckAssertion(r) \/ \E c \in Codes : CheckBackupCode(r, c)
            PROVE  \A q \in Reqs : at'[q] = "regenerate" => at[q] = "regenerate" /\ seen'[q] = seen[q]
        BY <1>0, <3>1 DEF CheckCode, CheckAssertion, CheckBackupCode, Read
      <3>2. ASSUME NEW label \in {"regenerate", "delete"}, AskRecent(r, label)
            PROVE  \A q \in Reqs : at'[q] = "regenerate" =>
                      \/ at[q] = "regenerate" /\ seen'[q].sheet = seen[q].sheet
                      \/ seen'[q].sheet = ops + 1
        BY <1>0, <3>2 DEF AskRecent, Read, Nothing
      <3> QED BY <1>2, <3>1, <3>2 DEF Ask
    <2>3. Resheeted
      BY <2>1 DEF Resheeted, Enrolled
    <2> QED BY <1>0, <2>1, <2>2, <2>3 DEF Users, Numbers
  <1>m. ASSUME NEW r \in Reqs, NEW label \in Places \ {"regenerate"}, MoveTo(r, label)
        PROVE  \A q \in Reqs : at'[q] = "regenerate" =>
                   at[q] = "regenerate" /\ seen'[q].sheet = seen[q].sheet
    BY <1>0, <1>m DEF MoveTo
  <1>3. ASSUME NEW r \in Reqs, Activate(r) \/ Touch(r) \/ ConsumeCode(r) \/ Unclaim(r)
        PROVE  Users
    <2>1. /\ UNCHANGED <<tick, nudges, ops, fails, throws>> /\ overlaps \subseteq overlaps'
          /\ \E label \in Places \ {"regenerate"} : MoveTo(r, label)
      BY <1>3 DEF Activate, Touch, ConsumeCode, Unclaim, bounds, history, Happened, Places
    <2>2. Resheeted
      <3>1. row = NoRow => row' = NoRow
        BY <1>3 DEF Activate, Activated, Touch, ConsumeCode, StillThere, Unclaim, Enrolled
      <3>2. row # NoRow =>
               /\ row' \in Row /\ row'.sheet = row.sheet /\ row'.nudged = row.nudged
               /\ (row.status = "active" => row'.status = "active")
        <4>1. CASE Activate(r)
          BY <1>0, <4>1 DEF Activate, Activated, Row
        <4>2. CASE Touch(r)
          BY <1>0, <4>2 DEF Touch, Row
        <4>3. CASE ConsumeCode(r)
          <5>1. row' = row \/ row' = [row EXCEPT !.left = @ \ {seen[r].code}, !.old = FALSE]
            BY <4>3 DEF ConsumeCode
          <5> SUFFICES ASSUME row # NoRow
                       PROVE  /\ row' \in Row /\ row'.sheet = row.sheet /\ row'.nudged = row.nudged
                              /\ row'.status = row.status
            OBVIOUS
          <5>2. row \in Row
            BY <1>0
          <5>3. CASE row' = row
            BY <5>2, <5>3
          <5>4. CASE row' = [row EXCEPT !.left = @ \ {seen[r].code}, !.old = FALSE]
            BY <5>2, <5>4, CodeTaken
          <5> QED BY <5>1, <5>3, <5>4
        <4>4. CASE Unclaim(r)
          BY <1>0, <4>4 DEF Unclaim, Row, Enrolled
        <4> QED BY <1>3, <4>1, <4>2, <4>3, <4>4
      <3> QED BY <1>k, <3>1, <3>2, NoRowApart DEF Resheeted
    <2> QED BY <1>0, <1>m, <2>1, <2>2 DEF Users
  <1>4. ASSUME NEW r \in Reqs, Record(r) \/ Mail(r) \/ MailThrows(r) \/ RequestFails(r)
                                  \/ DeleteChallenges(r) \/ DeleteRow(r)
        PROVE  Users
    <2>1. /\ UNCHANGED <<tick, nudges, ops, overlaps>> /\ fails <= fails' /\ throws <= throws'
          /\ \E label \in Places \ {"regenerate"} : MoveTo(r, label)
          /\ row' = row \/ row' = NoRow
      BY <1>0, <1>4 DEF Record, Mail, MailThrows, RequestFails, DeleteChallenges, DeleteRow, Fail,
                        bounds, history, Places
    <2>2. Resheeted
      BY <2>1 DEF Resheeted, Enrolled
    <2> QED BY <1>0, <1>m, <2>1, <2>2 DEF Users
  <1>5. ASSUME NEW r \in Reqs, Claim(r) PROVE Users
    <2>1. /\ UNCHANGED <<tick, nudges, ops, fails, throws, overlaps>>
          /\ \A q \in Reqs : at'[q] = "regenerate" =>
                 at[q] = "regenerate" /\ seen'[q].sheet = seen[q].sheet
      BY <1>0, <1>5 DEF Claim, bounds, history
    <2>2. Resheeted
      <3>1. CASE Claimable
        <4>1. row # NoRow /\ row' = [row EXCEPT !.mailed = r]
          BY <1>5, <3>1 DEF Claim, Claimable, Enrolled
        <4>2. row' \in Row /\ row'.sheet = row.sheet /\ row'.nudged = row.nudged
              /\ row'.status = row.status
          BY <1>0, <4>1 DEF Row
        <4> QED BY <1>k, <4>1, <4>2, NoRowApart
      <3>2. CASE ~Claimable
        BY <1>5, <3>2 DEF Claim, Resheeted, Enrolled
      <3> QED BY <3>1, <3>2
    <2> QED BY <1>0, <2>1, <2>2 DEF Users
  <1>6. ASSUME NEW r \in Reqs, Regenerate(r) PROVE Users
    <2>1. /\ UNCHANGED <<tick, nudges, ops, fails, throws, overlaps>>
          /\ MoveTo(r, "idle") /\ at[r] = "regenerate"
      BY <1>6 DEF Regenerate, bounds, history
    <2>2. Resheeted
      <3>1. CASE Enrolled
        <4>1. row # NoRow /\ row' = NewSheet(seen[r].sheet)
          BY <1>6, <3>1 DEF Regenerate, Enrolled
        <4>2. row'.sheet = seen[r].sheet /\ row'.nudged = NoMarker /\ row'.left = Codes
              /\ row'.id = row.id
          BY <1>0, <4>1 DEF NewSheet, Row
        <4>3. row' # NoRow
          <5>1. row'.id \in Numbers
            BY <1>0, <4>1, <4>2 DEF Row
          <5> QED BY <5>1 DEF NoRow, Numbers
        <4> QED BY <1>i, <2>1, <4>2, <4>3 DEF ToCome, Resheeted
      <3>2. CASE ~Enrolled
        BY <1>6, <3>2 DEF Regenerate, Resheeted, Enrolled
      <3> QED BY <3>1, <3>2
    <2>3. "idle" \in Places \ {"regenerate"}
      BY DEF Places
    <2> QED BY <1>0, <1>m, <2>1, <2>2, <2>3 DEF Users
  <1>7. ASSUME Age \/ Prune \/ Lapse \/ UNCHANGED mfaVars PROVE Users
    <2>1. UNCHANGED <<tick, nudges, ops, fails, throws, overlaps, at, seen>>
      BY <1>7 DEF Age, Prune, Lapse, mfaVars, bounds, history, request
    <2>2. Resheeted
      <3>1. CASE Age
        <4>1. row # NoRow /\ row' = [row EXCEPT !.old = TRUE]
          BY <3>1 DEF Age
        <4>2. row' \in Row /\ row'.sheet = row.sheet /\ row'.nudged = row.nudged
              /\ row'.status = row.status
          BY <1>0, <4>1 DEF Row
        <4> QED BY <1>k, <4>1, <4>2, NoRowApart
      <3>2. CASE Prune \/ Lapse \/ UNCHANGED mfaVars
        BY <3>2 DEF Prune, Lapse, mfaVars, Resheeted, Enrolled
      <3> QED BY <1>7, <3>1, <3>2
    <2> QED BY <1>0, <2>1, <2>2 DEF Users
  <1> QED BY <1>1, <1>2, <1>3, <1>4, <1>5, <1>6, <1>7 DEF Proceed

-----------------------------------------------------------------------------
(* The nudges and the ticks.                                               *)

\* A tick takes off nobody else's hands.
OnlyIts(t) == tick' \in [Ticks -> TickState] /\ \A u \in Ticks : u # t => tick'[u] = tick[u]

\* What a tick's step leaves alone.
LEMMA ItsSteps ==
    ASSUME MfaTypeOK, MfaTypeOK', NEW t \in Ticks, Tick(t) \/ NudgeThrows(t) \/ TickFails(t)
    PROVE  OnlyIts(t) /\ UNCHANGED <<at, seen, ops>>
  BY DEF Tick, Scan, Stamp, Nudge, Unstamp, NudgeThrows, TickFails, Fail, Rest, request, bounds,
         history, OnlyIts, MfaTypeOK, TickState

\* A tick that neither has anything to send nor is about to have, or dies over it.
Quiet(t) ==
    /\ OnlyIts(t) /\ UNCHANGED <<row, at, seen, ops, throws, nudges, overlaps>>
    /\ fails <= fails' /\ ~Sends(t)' /\ (Sends(t) => fails' > 0)
    /\ tick'[t].at # "idle" =>
          tick'[t].level \in Bands /\ Rank(tick'[t].last.level) < Rank(tick'[t].level)
    /\ Proper(tick'[t].last)

LEMMA QuietKeeps ==
    ASSUME MfaTypeOK, MfaTypeOK', NudgeInv, NEW t \in Ticks, Quiet(t)
    PROVE  NudgeInv'
  <1>0. /\ tick' \in [Ticks -> TickState] /\ (\A u \in Ticks : u # t => tick'[u] = tick[u])
        /\ row' = row /\ at' = at /\ seen' = seen /\ ops' = ops /\ throws' = throws
        /\ nudges' = nudges /\ overlaps' = overlaps /\ fails <= fails' /\ ~Sends(t)'
        /\ (Sends(t) => fails' > 0) /\ fails \in Nat /\ fails' \in Nat
    BY DEF Quiet, OnlyIts, MfaTypeOK
  <1>i. Scanned /\ ToCome /\ Told /\ Standing /\ OfThisSheet
    BY DEF NudgeInv
  <1>1. \A u \in Ticks : Sends(u)' => Sends(u) /\ u # t /\ tick'[u] = tick[u]
    BY <1>0 DEF Sends
  <1>2. \A n, b : Clean(n, b) => Clean(n, b)'
    BY <1>0, <1>1 DEF Clean, About
  <1>3. Scanned'
    <2>1. \A u \in Ticks : tick'[u].at # "idle" =>
             tick'[u].level \in Bands /\ Rank(tick'[u].last.level) < Rank(tick'[u].level)
      BY <1>0, <1>i DEF Scanned, Quiet
    <2>2. \A u \in Ticks : Proper(tick'[u].last)
      BY <1>0, <1>i DEF Scanned, Quiet
    <2>3. \A u \in Ticks : tick'[u].at = "unstamp" => u # t /\ tick[u].at = "unstamp"
      BY <1>0 DEF Sends
    <2> QED BY <1>0, <1>1, <1>i, <2>1, <2>2, <2>3 DEF Scanned, Proper
  <1>4. ToCome'
    BY <1>0, <1>1, <1>i DEF ToCome, Clean, About
  <1>5. Told'
    <2> SUFFICES ASSUME "clobbered" \notin overlaps' PROVE Told'
      BY DEF Told
    <2>1. Reversible'
      BY <1>0, <1>1, <1>2, <1>i DEF Told, Reversible, StampOf, About, Clean
    <2> QED BY <1>0, <1>1, <1>2, <1>i, <2>1 DEF Told, About
  <1>6. Standing'
    <2> SUFFICES ASSUME ~Excused' PROVE Standing'
      BY DEF Standing
    <2>1. ~Excused /\ ~Sends(t)
      BY <1>0 DEF Excused
    <2>2. \A m : Proper(m) /\ Stands(m) => Stands(m)'
      BY <1>0, <2>1 DEF Stands, Sends, About, Proper
    <2>3. \A u \in Ticks : tick'[u].at = "unstamp" \/ (tick'[u].at = "mail" /\ throws' = 0)
                               => Stands(tick[u].last)' /\ tick'[u] = tick[u]
      BY <1>0, <1>1, <1>i, <2>1, <2>2 DEF Standing, Scanned, Sends
    <2>4. row' # NoRow => Stands(row.nudged)' /\ (Enrolled' \/ row'.nudged = NoMarker)
      BY <1>0, <1>i, <2>1 DEF Standing, Scanned, Enrolled, Stands, Sends, About, Proper
    <2> QED BY <2>3, <2>4 DEF Standing
  <1>7. OfThisSheet'
    BY <1>0, <1>1, <1>i DEF OfThisSheet
  <1> QED BY <1>3, <1>4, <1>5, <1>6, <1>7 DEF NudgeInv

\* A tick that stamps the marker: the band is above the old one, so that nobody has told
\* of it, and the tick is now the only one to.
LEMMA StampKeeps ==
    ASSUME MfaTypeOK, MfaTypeOK', NudgeInv, Sound, NEW t \in Ticks, Stamp(t), Unmoved(t)
    PROVE  NudgeInv'
  <1> DEFINE b == tick[t].level
             m == [level |-> b, by |-> t, sheet |-> row.sheet]
  <1>i. Scanned /\ ToCome /\ Told /\ Standing /\ OfThisSheet
    BY DEF NudgeInv
  <1>r. /\ row \in Row /\ row # NoRow /\ Enrolled /\ row.sheet \in Numbers /\ row.nudged \in Marker
        /\ row.sheet <= ops /\ row.nudged.level \in Bands \cup {"none"}
    BY RowFields DEF Unmoved, Enrolled, Sound, Fresh, Marker
  <1>b. b \in Bands /\ Rank(row.nudged.level) < Rank(b) /\ ~Sends(t)
    BY DEF Stamp, Unmoved, Scanned, NudgeInv, Sends
  <1>0. /\ UNCHANGED <<at, seen, ops, fails, throws, nudges, overlaps>>
        /\ row' = [row EXCEPT !.nudged = m]
        /\ (\A u \in Ticks : u # t => tick'[u] = tick[u])
        /\ tick'[t].at = "mail" /\ tick'[t].sheet = row.sheet /\ tick'[t].last = row.nudged
        /\ tick'[t].level = b
    <2>1. tick[t] \in TickState /\ tick \in [Ticks -> TickState]
      BY DEF MfaTypeOK, TickState
    <2> QED BY <2>1 DEF Stamp, request, bounds, history, TickState
  <1> HIDE DEF m
  <1>m. m # NoMarker /\ m.level = b /\ m.by = t /\ m.sheet = row.sheet /\ Proper(m)
    BY <1>b, <1>r, Parameters DEF m, NoMarker, Proper
  <1>1. row' # NoRow /\ row'.sheet = row.sheet /\ row'.nudged = m /\ Enrolled'
    <2>1. row'.sheet = row.sheet /\ row'.nudged = m /\ row'.status = row.status
             /\ row'.id = row.id
      BY <1>0, <1>r DEF Row
    <2>2. row' # NoRow
      BY <1>r, <2>1 DEF NoRow, Row, Numbers
    <2> QED BY <1>r, <2>1, <2>2 DEF Enrolled
  <1> HIDE DEF b
  <1>2. \A u \in Ticks : Sends(u)' <=> (Sends(u) \/ u = t)
    BY <1>0, <1>b DEF Sends
  <1>3. \A n, c : Clean(n, c) /\ (n # row.sheet \/ c # b) => Clean(n, c)'
    BY <1>0, <1>2 DEF Clean, About
  <1>4. Scanned'
    <2>1. \A u \in Ticks : tick'[u].at # "idle" =>
             tick'[u].level \in Bands /\ Rank(tick'[u].last.level) < Rank(tick'[u].level)
      BY <1>0, <1>b, <1>i DEF Scanned
    <2>2. \A u \in Ticks : Proper(tick'[u].last)
      BY <1>0, <1>r, <1>i DEF Scanned
    <2>3. \A u \in Ticks : Sends(u)' => tick'[u].sheet \in 1 .. ops
      BY <1>0, <1>2, <1>r, <1>i DEF Scanned, Numbers
    <2>4. \A u \in Ticks : tick'[u].at = "unstamp" => u # t /\ tick[u].at = "unstamp"
      BY <1>0
    <2> QED BY <1>0, <1>1, <1>m, <1>i, <2>1, <2>2, <2>3, <2>4 DEF Scanned, Proper
  <1>5. ToCome'
    <2>1. \A r \in Reqs : at[r] = "regenerate" => seen[r].sheet # row.sheet
      BY <1>r DEF Sound, Known
    <2> QED BY <1>0, <1>2, <1>i, <2>1 DEF ToCome, Clean, About
  <1>6. Told'
    <2> SUFFICES ASSUME "clobbered" \notin overlaps' PROVE Told'
      BY DEF Told
    <2>0. "clobbered" \notin overlaps /\ Clean(row.sheet, b)
      BY <1>0, <1>b, <1>r, <1>i DEF Told
    <2>1. \A n \in Numbers, c \in Bands : nudges'[<<n, c>>] <= 1
      BY <1>0, <1>i, <2>0 DEF Told
    <2>2. ASSUME NEW u \in Ticks, Sends(u)'
          PROVE  /\ nudges'[<<tick'[u].sheet, tick'[u].level>>] = 0
                 /\ \A v \in Ticks : Sends(v)' /\ tick'[v].sheet = tick'[u].sheet
                                        /\ tick'[v].level = tick'[u].level => v = u
      <3>1. CASE u = t
        BY <1>0, <1>2, <2>0, <3>1 DEF Clean, About
      <3>2. CASE u # t
        BY <1>0, <1>2, <1>i, <2>0, <2>2, <3>2 DEF Clean, About, Told
      <3> QED BY <3>1, <3>2
    <2>3. \A c \in Bands : Rank(m.level) < Rank(c) => Clean(row.sheet, c) /\ c # b
      <3>1. \A c \in Bands : Rank(b) < Rank(c) => Rank(row.nudged.level) < Rank(c)
        BY <1>b, <1>r, Ranks
      <3>2. Rank(b) \in Nat
        BY <1>b, Ranks
      <3> QED BY <1>m, <1>r, <1>i, <2>0, <3>1, <3>2 DEF Told
    <2>4. \A c \in Bands : Rank(row'.nudged.level) < Rank(c) => Clean(row.sheet, c)'
      BY <1>0, <1>1, <1>2, <2>3 DEF Clean, About
    <2>5. ASSUME NEW u \in Ticks, Sends(u)', row'.nudged = StampOf(u)',
                 NEW c \in Bands, Rank(tick'[u].last.level) < Rank(c), ~About(u, row.sheet, c)'
          PROVE  Clean(row.sheet, c)'
      <3>1. u = t
        BY <1>1, <1>m, <2>5 DEF StampOf
      <3>2. Clean(row.sheet, c) /\ c # b
        BY <1>0, <1>1, <1>r, <1>i, <2>0, <2>5, <3>1 DEF Told, About
      <3> QED BY <1>0, <1>1, <1>2, <3>2 DEF Clean, About
    <2>6. ASSUME NEW u \in Ticks, NEW v \in Ticks, Sends(u)', Sends(v)',
                 row'.nudged = StampOf(v)', tick'[v].last = StampOf(u)',
                 NEW c \in Bands, Rank(tick'[u].last.level) < Rank(c), ~About(u, row.sheet, c)',
                 ~About(v, row.sheet, c)'
          PROVE  Clean(row.sheet, c)'
      <3>1. v = t
        BY <1>1, <1>m, <2>6 DEF StampOf
      <3>2. row.nudged = StampOf(u)'
        BY <1>0, <2>6, <3>1
      <3>3. u # t
        <4>1. SUFFICES ASSUME u = t PROVE row.nudged.level = b
          <5>1. Rank(row.nudged.level) # Rank(b)
            BY <1>b, <1>r, Ranks
          <5> QED BY <4>1, <5>1
        <4> QED BY <1>0, <3>2, <4>1 DEF StampOf
      <3>4. Sends(u) /\ row.nudged = StampOf(u) /\ Rank(tick[u].last.level) < Rank(c)
               /\ ~About(u, row.sheet, c)
        BY <1>0, <1>1, <1>2, <2>6, <3>2, <3>3 DEF StampOf, About
      <3>5. Clean(row.sheet, c)
        BY <1>r, <1>i, <2>0, <3>4 DEF Told, Reversible
      <3>6. c # b
        BY <1>0, <1>1, <2>6, <3>1 DEF About
      <3> QED BY <1>0, <1>1, <1>2, <3>5, <3>6 DEF Clean, About
    <2>7. Reversible'
      BY <2>5, <2>6 DEF Reversible
    <2> QED BY <2>1, <2>2, <2>4, <2>7 DEF Told, About
  <1>7. Standing'
    <2> SUFFICES ASSUME ~Excused' PROVE Standing'
      BY DEF Standing
    <2>1. ~Excused
      BY <1>0 DEF Excused
    <2>2. Stands(row.nudged)'
      BY <1>0, <1>1, <1>2, <1>m DEF Stands, About
    <2>3. Stands(row.nudged)
      BY <1>r, <1>i, <2>1 DEF Standing
    <2>4. ASSUME NEW u \in Ticks,
                 tick'[u].at = "unstamp" \/ (tick'[u].at = "mail" /\ throws' = 0)
          PROVE  Stands(tick[u].last)'
      <3>1. Stands(tick'[u].last) /\ Proper(tick'[u].last)
        <4>1. CASE u = t
          BY <1>0, <1>r, <1>i, <2>3, <4>1 DEF Scanned
        <4>2. CASE u # t
          BY <1>0, <1>i, <2>1, <2>4, <4>2 DEF Standing, Scanned
        <4> QED BY <4>1, <4>2
      <3> QED BY <1>0, <1>2, <1>b, <3>1 DEF Stands, About, Proper
    <2> QED BY <1>1, <2>2, <2>4 DEF Standing
  <1>8. OfThisSheet'
    BY <1>0, <1>1, <1>2, <1>m, <1>r, <1>i DEF OfThisSheet
  <1> QED BY <1>4, <1>5, <1>6, <1>7, <1>8 DEF NudgeInv

\* A tick that tells the user.
LEMMA NudgeKeeps ==
    ASSUME MfaTypeOK, MfaTypeOK', NudgeInv, Sound, NEW t \in Ticks, Nudge(t)
    PROVE  NudgeInv'
  <1> DEFINE n == tick[t].sheet
             b == tick[t].level
  <1>i. Scanned /\ ToCome /\ Told /\ Standing /\ OfThisSheet
    BY DEF NudgeInv
  <1>b. b \in Bands /\ n \in Numbers /\ Sends(t) /\ n \in 1 .. ops /\ <<n, b>> \in Numbers \X Bands
    <2>1. Sends(t) /\ tick[t].at # "idle"
      BY DEF Nudge, Sends
    <2>2. n \in 1 .. ops /\ b \in Bands
      BY <1>i, <2>1 DEF Scanned
    <2>3. n \in Numbers
      BY <2>2, Parameters DEF MfaTypeOK, Numbers
    <2> QED BY <2>1, <2>2, <2>3
  <1>0. /\ UNCHANGED <<row, at, seen, ops, fails, throws, overlaps>>
        /\ nudges \in [Numbers \X Bands -> Nat] /\ nudges' = [nudges EXCEPT ![<<n, b>>] = @ + 1]
        /\ (\A u \in Ticks : u # t => tick'[u] = tick[u])
        /\ tick'[t] = Resting
    BY DEF Nudge, Rest, request, bounds, MfaTypeOK
  <1>n. /\ nudges'[<<n, b>>] = nudges[<<n, b>>] + 1
        /\ \A k \in Numbers, c \in Bands : (k # n \/ c # b) => nudges'[<<k, c>>] = nudges[<<k, c>>]
    <2>1. \A k \in Numbers, c \in Bands : (k # n \/ c # b) => <<k, c>> # <<n, b>>
      OBVIOUS
    <2> QED BY <1>0, <1>b, <2>1
  <1> HIDE DEF n, b
  <1>1. \A u \in Ticks : Sends(u)' => Sends(u) /\ u # t /\ tick'[u] = tick[u]
    BY <1>0 DEF Sends, Resting
  <1>2. \A k \in Numbers, c \in Bands : Clean(k, c) => (k # n \/ c # b) /\ Clean(k, c)'
    BY <1>1, <1>b, <1>n DEF Clean, About, n, b
  <1>3. Scanned'
    <2>1. \A u \in Ticks : tick'[u].at # "idle" => u # t
      BY <1>0 DEF Resting
    <2>2. \A u \in Ticks : Proper(tick'[u].last)
      BY <1>0, <1>i DEF Scanned, Resting, Proper
    <2> QED BY <1>0, <1>1, <1>i, <2>1, <2>2 DEF Scanned, Proper
  <1>4. ToCome'
    <2>1. ASSUME NEW k \in Numbers, k > ops, NEW c \in Bands PROVE nudges'[<<k, c>>] = 0
      <3>1. k # n
        BY <1>b, <2>1 DEF MfaTypeOK
      <3> QED BY <1>n, <1>i, <2>1, <3>1 DEF ToCome
    <2>2. ASSUME NEW r \in Reqs, at[r] = "regenerate", NEW c \in Bands
          PROVE  Clean(seen[r].sheet, c)'
      <3>1. seen[r].sheet # n \/ c # b
        BY <1>i, <1>b, <2>2 DEF ToCome, Clean, About, n, b
      <3>2. nudges'[<<seen[r].sheet, c>>] = nudges[<<seen[r].sheet, c>>]
        <4>1. <<seen[r].sheet, c>> # <<n, b>>
          BY <3>1
        <4>2. seen[r].sheet \in Numbers
          BY <2>2, Parameters DEF Sound, Known, MfaTypeOK, Numbers
        <4> QED BY <1>0, <4>1, <4>2
      <3> QED BY <1>0, <1>1, <1>i, <2>2, <3>2 DEF ToCome, Clean, About
    <2> QED BY <1>0, <2>1, <2>2 DEF ToCome
  <1>5. Told'
    <2> SUFFICES ASSUME "clobbered" \notin overlaps' PROVE Told'
      BY DEF Told
    <2>0. "clobbered" \notin overlaps
      BY <1>0
    <2>1. \A k \in Numbers, c \in Bands : nudges'[<<k, c>>] <= 1
      <3>1. nudges[<<n, b>>] = 0
        BY <1>b, <1>i, <2>0 DEF Told, n, b
      <3>2. ASSUME NEW k \in Numbers, NEW c \in Bands PROVE nudges'[<<k, c>>] <= 1
        <4>1. CASE k = n /\ c = b
          BY <1>n, <3>1, <4>1
        <4>2. CASE k # n \/ c # b
          BY <1>n, <1>i, <2>0, <4>2 DEF Told
        <4> QED BY <4>1, <4>2
      <3> QED BY <3>2
    <2>2. ASSUME NEW u \in Ticks, Sends(u)'
          PROVE  /\ nudges'[<<tick[u].sheet, tick[u].level>>] = 0 /\ tick'[u] = tick[u]
                 /\ \A v \in Ticks : Sends(v)' /\ About(v, tick[u].sheet, tick[u].level)' => v = u
      <3>1. Sends(u) /\ u # t /\ tick'[u] = tick[u]
        BY <1>1, <2>2
      <3>2. tick[u].sheet \in Numbers /\ tick[u].level \in Bands
        BY <1>i, <3>1, Parameters DEF Scanned, Sends, MfaTypeOK, Numbers
      <3>3. tick[u].sheet # n \/ tick[u].level # b
        BY <1>b, <1>i, <2>0, <3>1 DEF Told, About, n, b
      <3>4. nudges'[<<tick[u].sheet, tick[u].level>>] = 0
        BY <1>n, <1>i, <2>0, <3>1, <3>2, <3>3 DEF Told
      <3>5. ASSUME NEW v \in Ticks, Sends(v)', About(v, tick[u].sheet, tick[u].level)'
            PROVE  v = u
        <4>1. tick'[u] = tick[u] /\ tick'[v] = tick[v] /\ Sends(v)
          BY <1>1, <3>1, <3>5
        <4>2. About(v, tick[u].sheet, tick[u].level)
          BY <3>5, <4>1 DEF About
        <4> QED BY <1>i, <2>0, <3>1, <4>1, <4>2 DEF Told
      <3> QED BY <3>1, <3>4, <3>5
    <2>3. row # NoRow => row.sheet \in Numbers
      BY RowFields
    <2>4. row # NoRow => \A c \in Bands : Rank(row.nudged.level) < Rank(c) => Clean(row.sheet, c)'
      BY <1>0, <1>2, <1>i, <2>0, <2>3 DEF Told
    <2>5. Reversible
      BY <1>i, <2>0 DEF Told
    <2>6. ASSUME NEW u \in Ticks, Sends(u)', row # NoRow, row.nudged = StampOf(u)',
                 NEW c \in Bands, Rank(tick'[u].last.level) < Rank(c), ~About(u, row.sheet, c)'
          PROVE  Clean(row.sheet, c)'
      <3>1. Sends(u) /\ tick'[u] = tick[u]
        BY <1>1, <2>6
      <3>2. row.nudged = StampOf(u) /\ ~About(u, row.sheet, c)
        BY <1>0, <2>6, <3>1 DEF StampOf, About
      <3>3. Clean(row.sheet, c)
        BY <2>5, <2>6, <3>1, <3>2 DEF Reversible
      <3> QED BY <1>0, <1>2, <2>3, <2>6, <3>3
    <2>7. ASSUME NEW u \in Ticks, NEW v \in Ticks, Sends(u)', Sends(v)', row # NoRow,
                 row.nudged = StampOf(v)', tick'[v].last = StampOf(u)',
                 NEW c \in Bands, Rank(tick'[u].last.level) < Rank(c), ~About(u, row.sheet, c)',
                 ~About(v, row.sheet, c)'
          PROVE  Clean(row.sheet, c)'
      <3>1. Sends(u) /\ tick'[u] = tick[u] /\ Sends(v) /\ tick'[v] = tick[v]
        BY <1>1, <2>7
      <3>2. row.nudged = StampOf(v) /\ tick[v].last = StampOf(u)
        BY <1>0, <2>7, <3>1 DEF StampOf
      <3>3. ~About(u, row.sheet, c) /\ ~About(v, row.sheet, c)
        BY <1>0, <2>7, <3>1 DEF About
      <3>4. Clean(row.sheet, c)
        BY <2>5, <2>7, <3>1, <3>2, <3>3 DEF Reversible
      <3> QED BY <1>0, <1>2, <2>3, <2>7, <3>4
    <2>8. Reversible'
      BY <1>0, <2>6, <2>7 DEF Reversible
    <2> QED BY <1>0, <2>1, <2>2, <2>4, <2>8 DEF Told, About, Clean
  <1>6. Standing'
    <2> SUFFICES ASSUME ~Excused' PROVE Standing'
      BY DEF Standing
    <2>1. ~Excused
      BY <1>0 DEF Excused
    <2>2. ASSUME NEW m, Proper(m), Stands(m), m # NoMarker
          PROVE  \/ nudges'[<<m.sheet, m.level>>] > 0
                 \/ Sends(m.by)' /\ tick'[m.by].sheet = m.sheet /\ tick'[m.by].level = m.level
      <3>1. m.level \in Bands /\ m.by \in Ticks /\ m.sheet \in Numbers
        BY <2>2 DEF Proper
      <3>2. CASE nudges[<<m.sheet, m.level>>] > 0
        BY <1>0, <1>n, <3>1, <3>2
      <3>3. CASE Sends(m.by) /\ About(m.by, m.sheet, m.level) /\ m.by = t
        <4>1. m.sheet = n /\ m.level = b
          BY <3>3 DEF About, n, b
        <4> QED BY <1>0, <1>n, <1>b, <4>1
      <3>4. CASE Sends(m.by) /\ About(m.by, m.sheet, m.level) /\ m.by # t
        BY <1>0, <3>1, <3>4 DEF About, Sends
      <3> QED BY <2>2, <3>2, <3>3, <3>4 DEF Stands
    <2>3. row # NoRow => Stands(row.nudged)' /\ (Enrolled \/ row.nudged = NoMarker)
      BY <1>0, <1>i, <2>1, <2>2 DEF Standing, Scanned, Stands, About
    <2>4. ASSUME NEW u \in Ticks,
                 tick'[u].at = "unstamp" \/ (tick'[u].at = "mail" /\ throws' = 0)
          PROVE  Stands(tick[u].last)'
      <3>1. tick'[u] = tick[u] /\ Stands(tick[u].last) /\ Proper(tick[u].last)
        BY <1>0, <1>1, <1>i, <2>1, <2>4 DEF Standing, Scanned, Sends
      <3> QED BY <2>2, <3>1 DEF Stands, About
    <2>5. row' # NoRow => Stands(row.nudged)' /\ (Enrolled' \/ row'.nudged = NoMarker)
      BY <1>0, <2>3 DEF Enrolled
    <2> QED BY <2>4, <2>5 DEF Standing
  <1>7. OfThisSheet'
    BY <1>0, <1>1, <1>i DEF OfThisSheet
  <1> QED BY <1>3, <1>4, <1>5, <1>6, <1>7 DEF NudgeInv

\* A tick whose mail is not enqueued.
LEMMA NudgeThrowsKeeps ==
    ASSUME MfaTypeOK, MfaTypeOK', NudgeInv, NEW t \in Ticks, NudgeThrows(t)
    PROVE  NudgeInv'
  <1>i. Scanned /\ ToCome /\ Told /\ Standing /\ OfThisSheet
    BY DEF NudgeInv
  <1>0. /\ UNCHANGED <<row, at, seen, ops, fails, overlaps, nudges>>
        /\ throws \in Nat /\ throws' = throws + 1
        /\ (\A u \in Ticks : u # t => tick'[u] = tick[u])
        /\ tick[t].at = "mail" /\ tick'[t].at = "unstamp" /\ tick'[t].last = tick[t].last
        /\ tick'[t].level = tick[t].level /\ tick'[t].sheet = tick[t].sheet
    <2>1. tick[t] \in TickState /\ tick \in [Ticks -> TickState]
      BY DEF MfaTypeOK, TickState
    <2> QED BY <2>1 DEF NudgeThrows, request, history, TickState, MfaTypeOK
  <1>1. \A u \in Ticks : /\ Sends(u)' <=> Sends(u)
                         /\ tick'[u].last = tick[u].last /\ tick'[u].level = tick[u].level
                         /\ tick'[u].sheet = tick[u].sheet
                         /\ (tick'[u].at = "idle" <=> tick[u].at = "idle")
    BY <1>0 DEF Sends
  <1>2. \A n, c : Clean(n, c) <=> Clean(n, c)'
    BY <1>0, <1>1 DEF Clean, About
  <1>3. Scanned'
    BY <1>0, <1>1, <1>i DEF Scanned, Proper
  <1>4. ToCome'
    BY <1>0, <1>1, <1>i DEF ToCome, Clean, About
  <1>5. Told'
    <2> SUFFICES ASSUME "clobbered" \notin overlaps' PROVE Told'
      BY DEF Told
    <2>1. Reversible'
      BY <1>0, <1>1, <1>i DEF Told, Reversible, StampOf, About, Clean
    <2> QED BY <1>0, <1>1, <1>i, <2>1 DEF Told, About, Clean
  <1>6. Standing'
    <2> SUFFICES ASSUME ~Excused' PROVE Standing'
      BY DEF Standing
    <2>1. ~Excused /\ throws = 0 /\ throws' = 1
      BY <1>0 DEF Excused
    <2>2. row' # NoRow => Stands(row.nudged)' /\ (Enrolled' \/ row'.nudged = NoMarker)
      BY <1>0, <1>1, <1>i, <2>1 DEF Standing, Scanned, Stands, About, Proper, Enrolled
    <2>3. ASSUME NEW u \in Ticks,
                 tick'[u].at = "unstamp" \/ (tick'[u].at = "mail" /\ throws' = 0)
          PROVE  Stands(tick[u].last)'
      <3>1. tick[u].at = "mail" \/ tick[u].at = "unstamp"
        BY <1>0, <2>1, <2>3
      <3>2. Stands(tick[u].last) /\ Proper(tick[u].last)
        BY <1>i, <2>1, <3>1 DEF Standing, Scanned
      <3> QED BY <1>0, <1>1, <3>2 DEF Stands, About, Proper
    <2> QED BY <2>2, <2>3 DEF Standing
  <1>7. OfThisSheet'
    BY <1>0, <1>1, <1>i DEF OfThisSheet
  <1> QED BY <1>3, <1>4, <1>5, <1>6, <1>7 DEF NudgeInv

\* A tick that takes the marker back: if it is still its own, the row is where it was
\* before the stamp, and what the tick was to send nobody sends.
LEMMA UnstampKeeps ==
    ASSUME MfaTypeOK, MfaTypeOK', NudgeInv, NEW t \in Ticks, Unstamp(t)
    PROVE  NudgeInv'
  <1> DEFINE same == Enrolled /\ row.nudged.level = tick[t].level
  <1>i. Scanned /\ ToCome /\ Told /\ Standing /\ OfThisSheet
    BY DEF NudgeInv
  <1>t. /\ tick[t].at = "unstamp" /\ Sends(t) /\ tick[t].level \in Bands /\ Proper(tick[t].last)
        /\ Rank(tick[t].last.level) < Rank(tick[t].level) /\ throws > 0
        /\ tick[t].last.level \in Bands \cup {"none"}
    <2>1. tick[t].at = "unstamp" /\ Sends(t) /\ tick[t].at # "idle"
      BY DEF Unstamp, Sends
    <2> QED BY <1>i, <2>1, TickFields DEF Scanned
  <1>0. /\ UNCHANGED <<at, seen, ops, fails, throws, nudges>>
        /\ throws \in Nat /\ (row # NoRow => row \in Row)
        /\ (\A u \in Ticks : u # t => tick'[u] = tick[u]) /\ tick'[t] = Resting
        /\ (same => row # NoRow /\ row' = [row EXCEPT !.nudged = tick[t].last])
        /\ (~same => row' = row)
        /\ overlaps \subseteq overlaps' /\ ("inherited" \in overlaps' => "inherited" \in overlaps)
        /\ (same /\ "clobbered" \notin overlaps' => row.nudged.by = t /\ row.nudged.sheet = tick[t].sheet)
    BY RowFields DEF Unstamp, Rest, Happened, request, bounds, MfaTypeOK, Enrolled
  <1>r. same => /\ row' # NoRow /\ row'.sheet = row.sheet /\ row'.nudged = tick[t].last /\ Enrolled'
                /\ row.nudged \in Marker /\ row.nudged # NoMarker
    <2> SUFFICES ASSUME same
                 PROVE  /\ row' # NoRow /\ row'.sheet = row.sheet /\ row'.nudged = tick[t].last
                        /\ Enrolled' /\ row.nudged \in Marker /\ row.nudged # NoMarker
      OBVIOUS
    <2>1. row \in Row /\ row.nudged \in Marker /\ row.status = "active"
      BY <1>0, RowFields DEF Enrolled
    <2>2. row'.sheet = row.sheet /\ row'.nudged = tick[t].last /\ row'.status = row.status
             /\ row'.id = row.id /\ row.id \in Numbers
      BY <1>0, <2>1 DEF Row
    <2>3. row' # NoRow
      BY <2>2 DEF NoRow, Numbers
    <2>4. row.nudged.level \in Bands
      BY <1>t
    <2> QED BY <2>1, <2>2, <2>3, <2>4 DEF Enrolled, NoMarker, Bands
  <1> HIDE DEF same
  <1>1. \A u \in Ticks : (Sends(u)' => Sends(u) /\ u # t /\ tick'[u] = tick[u]) /\ ~Sends(t)'
    BY <1>0 DEF Sends, Resting
  <1>2. \A k, c : Clean(k, c) => Clean(k, c)'
    BY <1>0, <1>1 DEF Clean, About
  <1>3. Scanned'
    <2>1. \A u \in Ticks : tick'[u].at # "idle" => u # t
      BY <1>0 DEF Resting
    <2>2. \A u \in Ticks : Proper(tick'[u].last)
      BY <1>0, <1>i DEF Scanned, Resting, Proper
    <2>3. row' # NoRow => Proper(row'.nudged)
      BY <1>0, <1>r, <1>t, <1>i DEF Scanned
    <2> QED BY <1>0, <1>1, <1>i, <2>1, <2>2, <2>3 DEF Scanned, Proper
  <1>4. ToCome'
    BY <1>0, <1>1, <1>i DEF ToCome, Clean, About
  <1>5. Told'
    <2> SUFFICES ASSUME "clobbered" \notin overlaps' PROVE Told'
      BY DEF Told
    <2>0. "clobbered" \notin overlaps
      BY <1>0
    <2>1. CASE ~same
      <3>1. row' = row
        BY <1>0, <2>1
      <3>2. Reversible'
        BY <1>0, <1>1, <1>2, <1>i, <2>0, <3>1 DEF Told, Reversible, StampOf, About, Clean
      <3> QED BY <1>0, <1>1, <1>2, <1>i, <2>0, <3>1, <3>2 DEF Told, About, Clean
    <2>2. CASE same
      <3>1. row.nudged = StampOf(t) /\ row # NoRow
        <4>1. row.nudged.level = tick[t].level /\ row.nudged.by = t
                 /\ row.nudged.sheet = tick[t].sheet
          BY <1>0, <2>2 DEF same
        <4> QED BY <1>0, <1>r, <2>2, <4>1 DEF StampOf, Marker
      <3>2. \A c \in Bands : About(t, row.sheet, c) => Clean(row.sheet, c)'
        <4>1. nudges[<<tick[t].sheet, tick[t].level>>] = 0
          BY <1>t, <1>i, <2>0 DEF Told
        <4>2. \A u \in Ticks : Sends(u) /\ About(u, tick[t].sheet, tick[t].level) => u = t
          BY <1>t, <1>i, <2>0 DEF Told
        <4> QED BY <1>0, <1>1, <4>1, <4>2, <2>2, <1>r DEF Clean, About
      <3>3. \A c \in Bands : Rank(tick[t].last.level) < Rank(c) => Clean(row.sheet, c)'
        <4>1. ASSUME NEW c \in Bands, Rank(tick[t].last.level) < Rank(c), ~About(t, row.sheet, c)
              PROVE  Clean(row.sheet, c)
          BY <1>t, <1>i, <2>0, <3>1, <4>1 DEF Told, Reversible
        <4> QED BY <1>0, <1>1, <1>r, <2>2, <3>2, <4>1 DEF Clean, About
      <3>4. ASSUME NEW u \in Ticks, Sends(u)', row'.nudged = StampOf(u)',
                   NEW c \in Bands, Rank(tick'[u].last.level) < Rank(c), ~About(u, row.sheet, c)'
            PROVE  Clean(row.sheet, c)'
        <4>1. /\ Sends(u) /\ tick[t].last = StampOf(u) /\ Rank(tick[u].last.level) < Rank(c)
              /\ ~About(u, row.sheet, c)
          BY <1>0, <1>1, <1>r, <2>2, <3>4 DEF StampOf, About
        <4>2. CASE About(t, row.sheet, c)
          BY <3>2, <4>2
        <4>3. CASE ~About(t, row.sheet, c)
          <5>1. Clean(row.sheet, c)
            BY <1>t, <1>i, <2>0, <3>1, <4>1, <4>3 DEF Told, Reversible
          <5> QED BY <1>0, <1>1, <1>r, <2>2, <5>1 DEF Clean, About
        <4> QED BY <4>2, <4>3
      <3>5. ASSUME NEW u \in Ticks, NEW v \in Ticks, Sends(u)', Sends(v)',
                   row'.nudged = StampOf(v)', tick'[v].last = StampOf(u)'
            PROVE  FALSE
        <4>1. /\ Sends(u) /\ Sends(v) /\ tick[t].last.level = tick[v].level
              /\ tick[v].last.level = tick[u].level
          BY <1>0, <1>1, <1>r, <2>2, <3>5 DEF StampOf
        <4>2. /\ Rank(tick[v].last.level) < Rank(tick[v].level)
              /\ Rank(tick[u].last.level) < Rank(tick[u].level)
          BY <1>i, <4>1 DEF Scanned, Sends
        <4>3. \A a \in {t, u, v} : Rank(tick[a].level) \in 0 .. 2 /\ Rank(tick[a].last.level) \in 0 .. 2
          BY TickFields, Ranks
        <4> QED BY <1>t, <4>1, <4>2, <4>3
      <3>6. Reversible'
        BY <3>4, <3>5 DEF Reversible
      <3>7. row' # NoRow => \A c \in Bands : Rank(row'.nudged.level) < Rank(c) => Clean(row.sheet, c)'
        BY <1>r, <2>2, <3>3
      <3>8. \A n \in Numbers, b \in Bands : nudges'[<<n, b>>] <= 1
        BY <1>0, <1>i, <2>0 DEF Told
      <3>9. \A u \in Ticks : Sends(u)' =>
               /\ nudges'[<<tick'[u].sheet, tick'[u].level>>] = 0
               /\ \A v \in Ticks : Sends(v)' /\ tick'[v].sheet = tick'[u].sheet
                                      /\ tick'[v].level = tick'[u].level => v = u
        BY <1>0, <1>1, <1>i, <2>0 DEF Told, About
      <3> QED BY <3>6, <3>7, <3>8, <3>9 DEF Told, About
    <2> QED BY <2>1, <2>2
  <1>6. Standing'
    <2> SUFFICES ASSUME ~Excused' PROVE Standing'
      BY DEF Standing
    <2>1. ~Excused /\ throws = 1 /\ throws' = 1
      BY <1>0, <1>t DEF Excused
    <2>2. ASSUME NEW u \in Ticks
          PROVE  ~(tick'[u].at = "unstamp" \/ (tick'[u].at = "mail" /\ throws' = 0))
      <3>1. u # t => tick[u].at # "unstamp"
        BY <1>t, <1>i, <2>1 DEF Scanned
      <3> QED BY <1>0, <2>1, <3>1 DEF Resting
    <2>3. ASSUME NEW m, Proper(m), Stands(m), m # NoMarker, m.level # tick[t].level
          PROVE  \/ nudges'[<<m.sheet, m.level>>] > 0
                 \/ Sends(m.by)' /\ tick'[m.by].sheet = m.sheet /\ tick'[m.by].level = m.level
      <3>1. m.by \in Ticks
        BY <2>3 DEF Proper
      <3>2. CASE nudges[<<m.sheet, m.level>>] > 0
        BY <1>0, <3>2
      <3>3. CASE Sends(m.by) /\ About(m.by, m.sheet, m.level)
        <4>1. m.by # t
          BY <2>3, <3>3 DEF About
        <4> QED BY <1>0, <3>1, <3>3, <4>1 DEF About, Sends
      <3> QED BY <2>3, <3>2, <3>3 DEF Stands
    <2>4. CASE same
      <3>1. tick[t].last.level # tick[t].level
        BY <1>t, Ranks
      <3>2. Stands(tick[t].last)
        BY <1>t, <1>i, <2>1 DEF Standing
      <3>3. Stands(row.nudged)'
        BY <1>r, <1>t, <2>3, <2>4, <3>1, <3>2 DEF Stands, About
      <3> QED BY <1>r, <2>2, <2>4, <3>3 DEF Standing
    <2>5. CASE ~same
      <3>1. row # NoRow => /\ Stands(row.nudged) /\ Proper(row.nudged)
                           /\ Enrolled \/ row.nudged = NoMarker
        BY <1>i, <2>1 DEF Standing, Scanned
      <3>2. row # NoRow /\ row.nudged # NoMarker => row.nudged.level # tick[t].level
        BY <2>5, <3>1 DEF same
      <3>3. row' = row /\ (Enrolled' <=> Enrolled)
        BY <1>0, <2>5 DEF Enrolled
      <3>4. row' # NoRow => Stands(row.nudged)'
        BY <2>3, <3>1, <3>2, <3>3 DEF Stands, About
      <3> QED BY <2>2, <3>1, <3>3, <3>4 DEF Standing
    <2> QED BY <2>4, <2>5
  <1>7. OfThisSheet'
    <2> SUFFICES ASSUME overlaps' \cap {"inherited", "clobbered"} = {} PROVE OfThisSheet'
      BY DEF OfThisSheet
    <2>1. overlaps \cap {"inherited", "clobbered"} = {} /\ "clobbered" \notin overlaps'
      BY <1>0
    <2>2. CASE same
      <3>1. row.nudged.sheet = row.sheet /\ row.nudged.sheet = tick[t].sheet
        BY <1>0, <1>r, <1>i, <2>1, <2>2 DEF OfThisSheet
      <3> QED BY <1>0, <1>1, <1>r, <1>t, <1>i, <2>1, <2>2, <3>1 DEF OfThisSheet
    <2>3. CASE ~same
      BY <1>0, <1>1, <1>i, <2>1, <2>3 DEF OfThisSheet
    <2> QED BY <2>2, <2>3
  <1> QED BY <1>3, <1>4, <1>5, <1>6, <1>7 DEF NudgeInv

\* Every step keeps the invariant of the nudges.
LEMMA NudgeInvKept == MfaInv /\ NudgeInv /\ [MfaNext]_mfaVars /\ MfaInv' => NudgeInv'
  <1> SUFFICES ASSUME MfaInv, NudgeInv, [MfaNext]_mfaVars, MfaInv' PROVE NudgeInv'
    OBVIOUS
  <1>0. MfaTypeOK /\ MfaTypeOK' /\ Sound
    BY DEF MfaInv, Sound
  <1>1. CASE \/ \E r \in Reqs : Ask(r) \/ Proceed(r) \/ MailThrows(r) \/ RequestFails(r)
             \/ Age \/ Prune \/ Lapse \/ UNCHANGED mfaVars
    BY <1>0, <1>1, UsersSteps, UsersKeep
  <1>2. ASSUME NEW t \in Ticks, Tick(t) \/ NudgeThrows(t) \/ TickFails(t) PROVE NudgeInv'
    <2>1. OnlyIts(t) /\ UNCHANGED <<at, seen, ops>>
      BY <1>0, <1>2, ItsSteps
    <2>2. Proper(Resting.last) /\ Resting.at = "idle"
      BY DEF Resting, Proper
    <2>3. fails \in Nat /\ fails' \in Nat /\ tick \in [Ticks -> TickState]
      BY <1>0 DEF MfaTypeOK, TickState
    <2>4. ASSUME Scan(t) PROVE Quiet(t)
      <3>1. row # NoRow /\ row.nudged \in Marker /\ Proper(row.nudged)
        BY <1>0, <2>4, RowFields DEF Scan, NudgeDue, Enrolled, NudgeInv, Scanned
      <3>2. Band(row.left) \in Bands /\ Rank(row.nudged.level) < Rank(Band(row.left))
        <4>1. Band(row.left) \in Bands \cup {"none"} /\ row.nudged.level \in Bands \cup {"none"}
          BY <3>1 DEF Band, Bands, Marker
        <4>2. Rank(Band(row.left)) > Rank(row.nudged.level)
          BY <2>4 DEF Scan, NudgeDue
        <4>3. Rank(Band(row.left)) \in 0 .. 2 /\ Rank(row.nudged.level) \in 0 .. 2
          BY <4>1, Ranks
        <4> QED BY <4>1, <4>2, <4>3, Ranks
      <3>3. /\ tick[t].at = "idle" /\ tick'[t].at = "stamp" /\ tick'[t].last = row.nudged
            /\ tick'[t].level = Band(row.left)
        BY <2>3, <2>4 DEF Scan
      <3> QED BY <2>1, <2>3, <2>4, <3>1, <3>2, <3>3 DEF Scan, Quiet, Sends, bounds, history
    <2>5. ASSUME Stamp(t), ~Unmoved(t) PROVE Quiet(t)
      <3>1. tick'[t] = Resting /\ tick[t].at = "stamp"
        BY <2>3, <2>5 DEF Stamp, Rest
      <3> QED BY <2>1, <2>2, <2>3, <2>5, <3>1 DEF Stamp, Quiet, Sends, bounds, history
    <2>6. ASSUME TickFails(t) PROVE Quiet(t)
      <3>1. tick'[t] = Resting /\ fails' = fails + 1
        BY <2>3, <2>6 DEF TickFails, Rest, Fail
      <3> QED BY <2>1, <2>2, <2>3, <2>6, <3>1 DEF TickFails, Fail, Quiet, Sends, history
    <2> QED BY <1>0, <1>2, <2>4, <2>5, <2>6, QuietKeeps, StampKeeps, NudgeKeeps,
               NudgeThrowsKeeps, UnstampKeeps DEF Tick
  <1> QED BY <1>1, <1>2 DEF MfaNext

\* One mail per sheet and band, and a marker that stands for a mail and for this sheet
\* (lib/mfa.ts: the conditional stamp of nudgeLowBackupCodes, and its rollback).
THEOREM ToldOnce == MfaSpec => []NudgedOnce
  <1>1. MfaInit => NudgeInv
    <2> SUFFICES ASSUME MfaInit PROVE NudgeInv
      OBVIOUS
    <2>1. row = NoRow /\ (\A t \in Ticks : tick[t] = Resting) /\ \A r \in Reqs : at[r] = "idle"
      BY DEF MfaInit
    <2>2. \A n \in Numbers, b \in Bands : nudges[<<n, b>>] = 0
      BY DEF MfaInit
    <2>3. \A t \in Ticks : ~Sends(t) /\ tick[t].last = NoMarker /\ tick[t].at = "idle"
      BY <2>1 DEF Sends, Resting
    <2>4. Scanned
      BY <2>1, <2>3 DEF Scanned, Proper, Sends
    <2>5. ToCome /\ Told
      BY <2>1, <2>2, <2>3 DEF ToCome, Told, Reversible
    <2>6. Standing /\ OfThisSheet
      BY <2>1, <2>3 DEF Standing, OfThisSheet
    <2> QED BY <2>4, <2>5, <2>6 DEF NudgeInv
  <1>2. MfaTypeOK /\ NudgeInv => NudgedOnce
    <2> SUFFICES ASSUME MfaTypeOK, NudgeInv PROVE NudgedOnce
      OBVIOUS
    <2>1. \A n \in Numbers \X Bands : nudges[n] <= 1 \/ "clobbered" \in overlaps
      <3>1. \A n \in Numbers \X Bands : n = <<n[1], n[2]>> /\ n[1] \in Numbers /\ n[2] \in Bands
        OBVIOUS
      <3> QED BY <3>1 DEF NudgeInv, Told
    <2>2. row # NoRow /\ row.nudged # NoMarker =>
             \/ nudges[<<row.nudged.sheet, row.nudged.level>>] > 0
             \/ tick[row.nudged.by].at \in {"mail", "unstamp"}
             \/ fails > 0 \/ throws > 1 \/ "inherited" \in overlaps
      BY DEF NudgeInv, Standing, Stands, Excused, Sends
    <2>3. row # NoRow /\ row.nudged # NoMarker =>
             row.nudged.sheet = row.sheet \/ overlaps \cap {"inherited", "clobbered"} # {}
      BY DEF NudgeInv, OfThisSheet
    <2> QED BY <2>1, <2>2, <2>3 DEF NudgedOnce
  <1>3. MfaInv => MfaTypeOK
    BY DEF MfaInv
  <1> QED BY <1>1, <1>2, <1>3, MfaInvariance, NudgeInvKept, PTL DEF MfaSpec
===============================================================================
