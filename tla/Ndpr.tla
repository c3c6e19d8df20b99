-------------------------------- MODULE Ndpr --------------------------------
(***************************************************************************)
(* The privacy requests of one user: an erasure with its grace, the          *)
(* cancellation of a request, corrections and exports; the five-minute tick   *)
(* that every replica runs over the pending requests; and the last arm of    *)
(* the daily retention sweep, which erases once more whoever was erased some *)
(* thirty days ago.                                                         *)
(*                                                                         *)
(* A SQL statement is a step, and statements of requests, ticks and sweeps   *)
(* interleave.  Of the user's data the model keeps the mail address, which   *)
(* stands for what identifies the user, and the belongings (cart, wishes,    *)
(* searches, follows, queued mails, push tokens, identity documents) that     *)
(* the account had when it was first erased.  Audit rows are left to         *)
(* AuditChain.                                                             *)
(***************************************************************************)
EXTENDS Naturals, Sequences

CONSTANTS
    Ticks,     \* runs of processDueNdprRequests that can be in progress
    Sweeps,    \* runs of runRetentionSweep that can be in progress
    Reqs,      \* requests that can be open
    Addresses, \* mail addresses
    Home,      \* the address the account begins with
    MaxOps,    \* bound on requests made
    MaxFaults  \* bound on statements that throw and on runs and requests that die


VARIABLES
    user,       \* the users row, and what hangs on it
    suppressed, \* notification_suppressions: addresses
    rows,       \* ndpr_requests, in order of creation
    runs,       \* of each tick and sweep: label, rows to do, row in hand, address read
    reqs,       \* of each open request: label, row, address asked for
    ops, faults,
    past        \* what has happened, see Init

vars == <<user, suppressed, rows, runs, reqs, ops, faults, past>>

Runs   == Ticks \cup Sweeps
Erased == "erased.invalid"  \* the placeholder of the anonymiser
None   == "none"

ASSUME NdprAssumption ==
    /\ Home \in Addresses /\ Addresses \cap {Erased, None} = {} /\ Ticks \cap Sweeps = {}
    /\ MaxOps \in Nat /\ MaxFaults \in Nat

Kinds  == {"erase", "rectify", "export"}
Status == {"pending", "ready", "completed", "cancelled", "failed"}

Row == [kind : Kinds, status : Status, due : BOOLEAN, to : Addresses \cup {None}]
Resting == [pc |-> "idle", todo |-> {}, at |-> 0, seen |-> None]
NoReq   == [pc |-> "idle", at |-> 0, to |-> None]

\* Mutant: the suppression is entered after the row was anonymised.
EraseStepsSwapped == <<"anonymise", "lookup", "suppress", "delete", "record">>

\* Mutant: the row is marked before the deletes.
EraseStepsEarly == <<"lookup", "suppress", "anonymise", "record", "delete">>

\* applyErase, in the order of its statements, and the mark of the tick.
EraseSteps == <<"lookup", "suppress", "anonymise", "delete", "record">>
RunLabels ==
    {"idle", "choose", "rectify", "recordRectify", "export", "fail"}
        \cup {EraseSteps[k] : k \in DOMAIN EraseSteps}
ReqLabels == {"idle", "insertErase", "cancel", "rectify", "recordRectify"}

Init ==
    /\ user = [email |-> Home, belongings |-> TRUE, deletedAt |-> "never"]
    /\ suppressed = {}
    /\ rows = <<>>
    /\ runs = [w \in Runs |-> Resting]
    /\ reqs = [r \in Reqs |-> NoReq]
    /\ ops = 0 /\ faults = 0
    /\ past = [unlisted |-> {},   \* addresses whose suppression failed, or which a
                                  \* correction brought after the look-up
               kept |-> {},       \* erasures cancelled in their grace, in no tick's hands
               rewritten |-> FALSE, \* a correction reached an erased account
               crossed |-> FALSE] \* two requests to erase were open together

Pending(i) == rows[i].status = "pending"
SetStatus(i, s) == rows' = [rows EXCEPT ![i].status = s]

(***************************************************************************)
(* Requests.                                                               *)
(***************************************************************************)
Op(r) == reqs[r] = NoReq /\ ops < MaxOps /\ ops' = ops + 1
ReqGoes(r, q) == reqs' = [reqs EXCEPT ![r] = q]
NewRow(kind, status, to) ==
    rows' = Append(rows, [kind |-> kind, status |-> status, due |-> FALSE, to |-> to])

\* findActiveErase.
ActiveErase == \E i \in DOMAIN rows : rows[i].kind = "erase" /\ Pending(i)

Inserting(r) == reqs[r].pc = "insertErase"
AskErase(r) ==
    /\ Op(r)
    /\ ~ActiveErase
    /\ ReqGoes(r, [NoReq EXCEPT !.pc = "insertErase"])
    /\ past' = [past EXCEPT !.crossed = @ \/ \E q \in Reqs : Inserting(q)]
    /\ UNCHANGED <<user, suppressed, rows, runs, faults>>

InsertErase(r) ==
    /\ Inserting(r)
    /\ NewRow("erase", "pending", None)
    /\ ReqGoes(r, NoReq)
    /\ UNCHANGED <<user, suppressed, runs, ops, faults, past>>

\* The export with NDPR_ASYNC=1: a pending row for the tick.  The limit of one export in
\* thirty days is left out.
AskExport(r) ==
    /\ Op(r)
    /\ NewRow("export", "pending", None)
    /\ UNCHANGED <<user, suppressed, runs, reqs, faults, past>>

\* A cancellation, of the user or of an operator, reads the row and then writes it.
AskCancel(r) ==
    /\ Op(r)
    /\ \E i \in DOMAIN rows : Pending(i) /\ ReqGoes(r, [NoReq EXCEPT !.pc = "cancel", !.at = i])
    /\ UNCHANGED <<user, suppressed, rows, runs, faults, past>>

InHand(i) == \E t \in Ticks : i \in runs[t].todo \cup {runs[t].at}
Cancel(r) ==
    LET i == reqs[r].at IN
    /\ reqs[r].pc = "cancel"
    /\ SetStatus(i, "cancelled")
    /\ past' = [past EXCEPT !.kept =
         IF rows[i].kind = "erase" /\ Pending(i) /\ ~rows[i].due /\ ~InHand(i)
         THEN @ \cup {i} ELSE @]
    /\ ReqGoes(r, NoReq)
    /\ UNCHANGED <<user, suppressed, runs, ops, faults>>

\* A correction: the row, the users row, the outcome.  A body without a field
\* that may be changed is refused.
AskRectify(r) ==
    /\ Op(r)
    /\ \E a \in Addresses \cup {None} :
         /\ NewRow("rectify", "pending", a)
         /\ ReqGoes(r, [pc |-> "rectify", at |-> Len(rows) + 1, to |-> a])
    /\ UNCHANGED <<user, suppressed, runs, faults, past>>

LookedUp == \E w \in Runs : runs[w].pc \in {"suppress", "anonymise"}
Write(a) ==
    IF a = None THEN UNCHANGED <<user, past>>
    ELSE /\ user' = [user EXCEPT !.email = a]
         /\ past' = [past EXCEPT !.unlisted = IF LookedUp THEN @ \cup {a} ELSE @,
                                 !.rewritten = @ \/ user.deletedAt # "never"]
Outcome(a) == IF a = None THEN "failed" ELSE "completed"

Rectify(r) ==
    /\ reqs[r].pc = "rectify"
    /\ Write(reqs[r].to)
    /\ ReqGoes(r, [reqs[r] EXCEPT !.pc = "recordRectify"])
    /\ UNCHANGED <<suppressed, rows, runs, ops, faults>>

RecordRectify(r) ==
    /\ reqs[r].pc = "recordRectify"
    /\ SetStatus(reqs[r].at, Outcome(reqs[r].to))
    /\ ReqGoes(r, NoReq)
    /\ UNCHANGED <<user, suppressed, runs, ops, faults, past>>

\* A request throws, or its replica dies.
Abandon(r) ==
    /\ reqs[r] # NoReq /\ faults < MaxFaults
    /\ ReqGoes(r, NoReq)
    /\ faults' = faults + 1
    /\ UNCHANGED <<user, suppressed, rows, runs, ops, past>>

Ask(r) == AskErase(r) \/ AskExport(r) \/ AskCancel(r) \/ AskRectify(r)
RequestGoes(r) == InsertErase(r) \/ Cancel(r) \/ Rectify(r) \/ RecordRectify(r)

(***************************************************************************)
(* Ticks and sweeps.                                                       *)
(***************************************************************************)
RunGoes(w, x) == runs' = [runs EXCEPT ![w] = x]
Goto(w, l)    == RunGoes(w, [runs[w] EXCEPT !.pc = l])

\* The rows of the tick, all read at once.
Selected == {i \in DOMAIN rows : Pending(i)}
StartTick(t) ==
    /\ runs[t] = Resting /\ Selected # {}
    /\ RunGoes(t, [Resting EXCEPT !.pc = "choose", !.todo = Selected])
    /\ UNCHANGED <<user, suppressed, rows, reqs, ops, faults, past>>

\* Mutant: the grace is compared the wrong way round.
BranchReversed(i) ==
    CASE rows[i].kind = "erase"   -> IF rows[i].due THEN "choose" ELSE EraseSteps[1]
      [] rows[i].kind = "rectify" -> "rectify"
      [] rows[i].kind = "export"  -> "export"

\* What the tick does with row i; an erasure in its grace is passed over.
Branch(i) ==
    CASE rows[i].kind = "erase"   -> IF rows[i].due THEN EraseSteps[1] ELSE "choose"
      [] rows[i].kind = "rectify" -> "rectify"
      [] rows[i].kind = "export"  -> "export"

\* Mutant: the row in hand stays in hand.
ProceedHolding(t, todo) ==
    RunGoes(t, IF todo = {} THEN Resting ELSE [runs[t] EXCEPT !.pc = "choose", !.todo = todo])

\* To the next row, or to the end of the tick.
Proceed(t, todo) ==
    RunGoes(t, IF todo = {} THEN Resting ELSE [Resting EXCEPT !.pc = "choose", !.todo = todo])
Done(t) == Proceed(t, runs[t].todo)
Take(t) ==
    /\ runs[t].pc = "choose"
    /\ \E i \in runs[t].todo :
         IF Branch(i) = "choose" THEN Proceed(t, runs[t].todo \ {i})
         ELSE RunGoes(t, [Resting EXCEPT !.pc = Branch(i), !.at = i, !.todo = runs[t].todo \ {i}])
    /\ UNCHANGED <<user, suppressed, rows, reqs, ops, faults, past>>

TickRectify(t) ==
    /\ runs[t].pc = "rectify"
    /\ Write(rows[runs[t].at].to)
    /\ Goto(t, "recordRectify")
    /\ UNCHANGED <<suppressed, rows, reqs, ops, faults>>

TickRecordRectify(t) ==
    /\ runs[t].pc = "recordRectify"
    /\ SetStatus(runs[t].at, Outcome(rows[runs[t].at].to))
    /\ Done(t)
    /\ UNCHANGED <<user, suppressed, reqs, ops, faults, past>>

TickExport(t) ==
    /\ runs[t].pc = "export"
    /\ SetStatus(runs[t].at, "ready")
    /\ Done(t)
    /\ UNCHANGED <<user, suppressed, reqs, ops, faults, past>>

\* The catch of the loop; a row that has failed is not tried again.
TickFail(t) ==
    /\ runs[t].pc = "fail"
    /\ SetStatus(runs[t].at, "failed")
    /\ Done(t)
    /\ UNCHANGED <<user, suppressed, reqs, ops, faults, past>>

\* The final purge: users erased more than FINAL_PURGE_AFTER_ERASE_MS ago.
PurgeDue == user.deletedAt = "old"
StartSweep(s) ==
    /\ runs[s] = Resting /\ PurgeDue
    /\ RunGoes(s, [Resting EXCEPT !.pc = EraseSteps[1]])
    /\ UNCHANGED <<user, suppressed, rows, reqs, ops, faults, past>>

\* The label after the one run w is at, in applyErase.
NextLabel(w) == EraseSteps[1 + CHOOSE k \in DOMAIN EraseSteps : EraseSteps[k] = runs[w].pc]

\* suppressUserEmail: the placeholder is not entered.
Lookup(w) ==
    /\ runs[w].pc = "lookup"
    /\ RunGoes(w, [runs[w] EXCEPT !.pc = NextLabel(w),
                                  !.seen = IF user.email = Erased THEN None ELSE user.email])
    /\ UNCHANGED <<user, suppressed, rows, reqs, ops, faults, past>>

\* suppressEmail swallows the failure of its INSERT.
Suppress(w) ==
    LET a == runs[w].seen IN
    /\ runs[w].pc = "suppress"
    /\ RunGoes(w, [runs[w] EXCEPT !.pc = NextLabel(w), !.seen = None])
    /\ \/ /\ suppressed' = suppressed \cup ({a} \ {None})
          /\ UNCHANGED <<faults, past>>
       \/ /\ a # None /\ faults < MaxFaults
          /\ faults' = faults + 1
          /\ past' = [past EXCEPT !.unlisted = @ \cup {a}]
          /\ UNCHANGED suppressed
    /\ UNCHANGED <<user, rows, reqs, ops>>

Anonymise(w) ==
    /\ runs[w].pc = "anonymise"
    /\ user' = [user EXCEPT !.email = Erased, !.deletedAt = "recent"]
    /\ Goto(w, NextLabel(w))
    /\ UNCHANGED <<suppressed, rows, reqs, ops, faults, past>>

\* The deletes and the update of the documents, of which the last one counts.
Delete(w) ==
    /\ runs[w].pc = "delete"
    /\ user' = [user EXCEPT !.belongings = FALSE]
    /\ Goto(w, NextLabel(w))
    /\ UNCHANGED <<suppressed, rows, reqs, ops, faults, past>>

\* A tick marks its row; a sweep has none.
Record(w) ==
    /\ runs[w].pc = "record"
    /\ IF w \in Ticks THEN SetStatus(runs[w].at, "completed") /\ Done(w)
                      ELSE RunGoes(w, Resting) /\ UNCHANGED rows
    /\ UNCHANGED <<user, suppressed, reqs, ops, faults, past>>

\* A statement throws: in a tick the catch of the row takes over; in a sweep, and
\* in the catch itself, the run ends.
Throw(w) ==
    /\ runs[w].pc \notin {"idle", "choose", "suppress"} /\ faults < MaxFaults
    /\ IF w \in Ticks /\ runs[w].pc # "fail" THEN Goto(w, "fail") ELSE RunGoes(w, Resting)
    /\ faults' = faults + 1
    /\ UNCHANGED <<user, suppressed, rows, reqs, ops, past>>

Die(w) ==
    /\ runs[w] # Resting /\ faults < MaxFaults
    /\ RunGoes(w, Resting)
    /\ faults' = faults + 1
    /\ UNCHANGED <<user, suppressed, rows, reqs, ops, past>>

EraseStep(w) ==
    Lookup(w) \/ Suppress(w) \/ Anonymise(w) \/ Delete(w) \/ Record(w)
TickStep(t) ==
    Take(t) \/ TickRectify(t) \/ TickRecordRectify(t) \/ TickExport(t) \/ TickFail(t)

\* effectiveAt of row i passes.
GraceEnds(i) ==
    /\ i \in DOMAIN rows /\ rows[i].kind = "erase" /\ ~rows[i].due
    /\ rows' = [rows EXCEPT ![i].due = TRUE]
    /\ UNCHANGED <<user, suppressed, runs, reqs, ops, faults, past>>

\* dataDeletedAt is thirty days ago, longer than any run or request lasts.
Ages ==
    /\ user.deletedAt = "recent"
    /\ \A w \in Runs : runs[w] = Resting
    /\ \A r \in Reqs : reqs[r] = NoReq
    /\ user' = [user EXCEPT !.deletedAt = "old"]
    /\ UNCHANGED <<suppressed, rows, runs, reqs, ops, faults, past>>

Next ==
    \/ \E r \in Reqs : Ask(r) \/ RequestGoes(r) \/ Abandon(r)
    \/ \E t \in Ticks : StartTick(t) \/ TickStep(t)
    \/ \E s \in Sweeps : StartSweep(s)
    \/ \E w \in Runs : EraseStep(w) \/ Throw(w) \/ Die(w)
    \/ \E i \in 1 .. MaxOps : GraceEnds(i)
    \/ Ages

Spec == Init /\ [][Next]_vars

\* Ticks and sweeps come round, what runs, or was asked for, goes on, and time passes.
Fairness ==
    /\ \A r \in Reqs : WF_vars(RequestGoes(r))
    /\ \A t \in Ticks : WF_vars(StartTick(t)) /\ WF_vars(TickStep(t) \/ EraseStep(t))
    /\ \A s \in Sweeps : WF_vars(StartSweep(s)) /\ WF_vars(EraseStep(s))
    /\ WF_vars(Ages) /\ \A i \in 1 .. MaxOps : WF_vars(GraceEnds(i))

FairSpec == Spec /\ Fairness

-----------------------------------------------------------------------------
TypeOK ==
    /\ user \in [email : Addresses \cup {Erased}, belongings : BOOLEAN,
                 deletedAt : {"never", "recent", "old"}]
    /\ suppressed \subseteq Addresses
    /\ rows \in Seq(Row)
    /\ runs \in [Runs -> [pc : RunLabels, todo : SUBSET (DOMAIN rows), at : 0 .. Len(rows),
                          seen : Addresses \cup {None}]]
    /\ reqs \in [Reqs -> [pc : ReqLabels, at : 0 .. Len(rows), to : Addresses \cup {None}]]
    /\ ops \in 0 .. MaxOps /\ faults \in 0 .. MaxFaults
    \* A run has a row in hand exactly in the branches of the loop.
    /\ \A t \in Ticks : (runs[t].at = 0) = (runs[t].pc \in {"idle", "choose"})

Waits(i) ==
    Pending(i) /\ (rows[i].kind = "erase" => rows[i].due)

(***************************************************************************)
(* Properties.                                                             *)
(***************************************************************************)

\* When the anonymiser overwrites an address, the address is on the suppression list,
\* so that no queued mail reaches its owner; unless the entry failed, which the code
\* swallows, or a correction brought the address after the look-up (applyErase).
WipedIsSuppressed ==
    [][(user.email # Erased /\ user'.email = Erased)
         => user.email \in suppressed \cup past.unlisted]_vars

\* An erasure that is recorded as completed has been applied to the end, whichever
\* runs died, threw or overlapped; only a correction brings an address back
\* (processDueNdprRequests marks the row after applyErase).
CompletedMeansErased ==
    (\E i \in DOMAIN rows : rows[i].kind = "erase" /\ rows[i].status = "completed")
        => /\ ~user.belongings /\ user.deletedAt # "never"
           /\ user.email = Erased \/ past.rewritten

\* An erasure cancelled within its grace, before a tick had it in hand, is never
\* applied: the promise of the schema, "so a user can cancel by mistake".
CancelledIsKept == \A i \in past.kept : ~InHand(i)

\* There is one pending erasure, so that cancelling it cancels the erasure; unless two
\* requests both looked before one inserted (findActiveErase).
OnePendingErase ==
    \A i, j \in DOMAIN rows :
        rows[i].kind = "erase" /\ Pending(i) /\ rows[j].kind = "erase" /\ Pending(j)
            => i = j \/ past.crossed

\* What the table says of an erasure is true: completed, it has been applied to the
\* end; cancelled in time, it is not; and the pending one is the only one.
RecordIsTrue == CompletedMeansErased /\ CancelledIsKept /\ OnePendingErase

\* A pending request that is due does not stay pending, whatever run or route dies: the
\* next tick takes it.  An erasure that got as far as the users row is completed,
\* although a row marked failed is not tried again; and what a correction wrote into an
\* erased account goes (the final purge of the retention sweep).
ErasureFinishes ==
    /\ []<>(\A i \in DOMAIN rows : ~Waits(i))
    /\ (user.deletedAt # "never") ~> (user.email = Erased /\ ~user.belongings)
=============================================================================
