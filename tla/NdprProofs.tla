------------------------------ MODULE NdprProofs ------------------------------
(***************************************************************************)
(* What Ndpr promises of erasures, for any number of replicas, requests and *)
(* addresses, and whatever throws or dies.                                  *)
(*                                                                         *)
(* The table tells the truth because a run knows at each label how far the  *)
(* erasure is (Applied) and has a row of the right kind in hand (TickRows);  *)
(* an address is suppressed before it is wiped because the run that wipes it *)
(* has looked it up, and what came in between is known to (Listed).          *)
(***************************************************************************)
EXTENDS Ndpr, TLAPS

\* The history has its type.
PastOK ==
    past \in [unlisted : SUBSET Addresses, kept : SUBSET Nat, rewritten : BOOLEAN,
              crossed : BOOLEAN]

EraseLabels == {"lookup", "suppress", "anonymise", "delete", "record"}
PendingErase(i) == rows[i].kind = "erase" /\ Pending(i)

\* Unless two requests crossed, there is one pending erasure, or one on its way.
Unique ==
    \/ past.crossed
    \/ /\ \A i, j \in DOMAIN rows : PendingErase(i) /\ PendingErase(j) => i = j
       /\ \A r, q \in Reqs : Inserting(r) /\ Inserting(q) => r = q
       /\ \A r \in Reqs : Inserting(r) => ~ActiveErase

\* A row that was cancelled in time is not pending, so that no tick selects it.
Kept == \A i \in past.kept : i \in DOMAIN rows /\ ~Pending(i) /\ ~InHand(i)

\* A tick is in the branch of the row it has in hand.
TickRows ==
    \A t \in Ticks :
        /\ runs[t].pc \in EraseLabels => rows[runs[t].at].kind = "erase"
        /\ runs[t].pc \in {"rectify", "recordRectify"} => rows[runs[t].at].kind = "rectify"

\* A request writes to a row that exists, a correction to its own.
ReqRows ==
    \A r \in Reqs :
        /\ reqs[r].pc \in {"cancel", "rectify", "recordRectify"} => reqs[r].at \in DOMAIN rows
        /\ reqs[r].pc \in {"rectify", "recordRectify"} => rows[reqs[r].at].kind = "rectify"

\* How far the account is erased when a run is at a label, or a row is completed.
Applied ==
    /\ user.deletedAt # "never" => user.email = Erased \/ past.rewritten
    /\ \A w \in Runs : runs[w].pc \in {"delete", "record"} => user.deletedAt # "never"
    /\ \A w \in Runs : runs[w].pc = "record" => ~user.belongings
    /\ \A i \in DOMAIN rows : rows[i].kind = "erase" /\ rows[i].status = "completed"
           => ~user.belongings /\ user.deletedAt # "never"

\* The address a run is about to suppress, or to wipe.
Listed ==
    \A w \in Runs :
        /\ runs[w].pc = "suppress" => user.email \in {runs[w].seen, Erased} \cup past.unlisted
        /\ runs[w].pc = "anonymise" => user.email \in suppressed \cup {Erased} \cup past.unlisted

IInv == TypeOK /\ PastOK /\ Unique /\ Kept /\ TickRows /\ ReqRows /\ Applied /\ Listed

-----------------------------------------------------------------------------
\* The order of applyErase, label by label.
LEMMA Order ==
    /\ EraseSteps[1] = "lookup" /\ {EraseSteps[k] : k \in DOMAIN EraseSteps} = EraseLabels
    /\ \A w : /\ runs[w].pc = "lookup"    => NextLabel(w) = "suppress"
              /\ runs[w].pc = "suppress"  => NextLabel(w) = "anonymise"
              /\ runs[w].pc = "anonymise" => NextLabel(w) = "delete"
              /\ runs[w].pc = "delete"    => NextLabel(w) = "record"
<1>1. /\ DOMAIN EraseSteps = 1 .. 5
      /\ EraseSteps[1] = "lookup" /\ EraseSteps[2] = "suppress" /\ EraseSteps[3] = "anonymise"
      /\ EraseSteps[4] = "delete" /\ EraseSteps[5] = "record"
  BY DEF EraseSteps
<1>2. {EraseSteps[k] : k \in DOMAIN EraseSteps} = EraseLabels
  <2>1. 1 .. 5 = {1, 2, 3, 4, 5}
    OBVIOUS
  <2> QED BY <1>1, <2>1 DEF EraseLabels
<1>3. ASSUME NEW w, NEW l \in 1 .. 4, runs[w].pc = EraseSteps[l]
      PROVE  NextLabel(w) = EraseSteps[1 + l]
  <2> DEFINE P(k) == k \in DOMAIN EraseSteps /\ EraseSteps[k] = runs[w].pc
  <2>1. \A k \in DOMAIN EraseSteps : EraseSteps[k] = runs[w].pc => k = l
    BY <1>1, <1>3
  <2>2. l \in DOMAIN EraseSteps
    BY <1>1
  <2>3. (CHOOSE k \in DOMAIN EraseSteps : EraseSteps[k] = runs[w].pc) = l
    BY <1>3, <2>1, <2>2
  <2> QED BY <2>3 DEF NextLabel
<1>4. ASSUME NEW w
      PROVE  /\ runs[w].pc = "lookup"    => NextLabel(w) = "suppress"
             /\ runs[w].pc = "suppress"  => NextLabel(w) = "anonymise"
             /\ runs[w].pc = "anonymise" => NextLabel(w) = "delete"
             /\ runs[w].pc = "delete"    => NextLabel(w) = "record"
  BY <1>1, <1>3
<1> QED BY <1>1, <1>2, <1>4

\* What TypeOK says of a row, a run and a request.
LEMMA Typed ==
    ASSUME TypeOK
    PROVE  /\ Len(rows) \in Nat /\ DOMAIN rows = 1 .. Len(rows)
           /\ \A i \in DOMAIN rows : /\ rows[i] \in Row /\ rows[i].kind \in Kinds
                                     /\ rows[i].status \in Status /\ rows[i].due \in BOOLEAN
                                     /\ rows[i].to \in Addresses \cup {None}
           /\ \A w \in Runs : /\ runs[w].pc \in RunLabels /\ runs[w].todo \subseteq DOMAIN rows
                              /\ runs[w].at \in 0 .. Len(rows)
                              /\ runs[w].seen \in Addresses \cup {None}
           /\ \A t \in Ticks : runs[t].pc \notin {"idle", "choose"} => runs[t].at \in DOMAIN rows
           /\ \A r \in Reqs : /\ reqs[r].pc \in ReqLabels /\ reqs[r].at \in 0 .. Len(rows)
                              /\ reqs[r].to \in Addresses \cup {None}
<1>1. rows \in Seq(Row) /\ Len(rows) \in Nat /\ DOMAIN rows = 1 .. Len(rows)
  BY DEF TypeOK
<1>2. \A i \in DOMAIN rows : rows[i] \in Row
  BY <1>1
<1>3. \A i \in DOMAIN rows : /\ rows[i].kind \in Kinds
                             /\ rows[i].status \in Status /\ rows[i].due \in BOOLEAN
                             /\ rows[i].to \in Addresses \cup {None}
  BY <1>2 DEF Row
<1>4. \A w \in Runs : /\ runs[w].pc \in RunLabels /\ runs[w].todo \subseteq DOMAIN rows
                      /\ runs[w].at \in 0 .. Len(rows)
                      /\ runs[w].seen \in Addresses \cup {None}
  BY DEF TypeOK
<1>5. \A r \in Reqs : /\ reqs[r].pc \in ReqLabels /\ reqs[r].at \in 0 .. Len(rows)
                      /\ reqs[r].to \in Addresses \cup {None}
  BY DEF TypeOK
<1>6. \A t \in Ticks : runs[t].pc \notin {"idle", "choose"} => runs[t].at \in DOMAIN rows
  BY <1>1, <1>4 DEF TypeOK, Runs
<1> QED BY <1>1, <1>2, <1>3, <1>4, <1>5, <1>6

\* An UPDATE of one status.
LEMMA SetStatusEffect ==
    ASSUME TypeOK, NEW i \in DOMAIN rows, NEW s \in Status, SetStatus(i, s)
    PROVE  /\ rows' \in Seq(Row) /\ Len(rows') = Len(rows) /\ DOMAIN rows' = DOMAIN rows
           /\ \A j \in DOMAIN rows : /\ rows'[j].kind = rows[j].kind
                                     /\ rows'[j].status = IF j = i THEN s ELSE rows[j].status
<1>1. rows \in Seq(Row) /\ Len(rows) \in Nat /\ DOMAIN rows = 1 .. Len(rows)
  BY Typed DEF TypeOK
<1>2. \A j \in DOMAIN rows : rows[j] \in Row
  BY Typed
<1> DEFINE new == [rows[i] EXCEPT !.status = s]
<1>3. new \in Row /\ new.kind = rows[i].kind /\ new.status = s
  BY <1>2 DEF Row
<1>4. rows' = [rows EXCEPT ![i] = new]
  BY DEF SetStatus
<1> HIDE DEF new
<1>5. rows' \in Seq(Row) /\ Len(rows') = Len(rows) /\ DOMAIN rows' = DOMAIN rows
  BY <1>1, <1>3, <1>4
<1>6. \A j \in DOMAIN rows : rows'[j] = IF j = i THEN new ELSE rows[j]
  BY <1>1, <1>4
<1> QED BY <1>3, <1>5, <1>6

\* An INSERT.
LEMMA NewRowEffect ==
    ASSUME TypeOK, NEW kind \in Kinds, NEW status \in Status, NEW to \in Addresses \cup {None},
           NewRow(kind, status, to)
    PROVE  /\ rows' \in Seq(Row) /\ Len(rows') = Len(rows) + 1
           /\ DOMAIN rows' = DOMAIN rows \cup {Len(rows) + 1}
           /\ \A j \in DOMAIN rows : rows'[j] = rows[j]
           /\ rows'[Len(rows) + 1].kind = kind /\ rows'[Len(rows) + 1].status = status
<1> DEFINE new == [kind |-> kind, status |-> status, due |-> FALSE, to |-> to]
<1>1. rows \in Seq(Row) /\ Len(rows) \in Nat /\ DOMAIN rows = 1 .. Len(rows)
  BY Typed DEF TypeOK
<1>2. new \in Row /\ new.kind = kind /\ new.status = status
  BY DEF Row
<1>3. rows' = Append(rows, new)
  BY DEF NewRow
<1> HIDE DEF new
<1>4. rows' \in Seq(Row) /\ Len(rows') = Len(rows) + 1 /\ DOMAIN rows' = 1 .. Len(rows) + 1
  BY <1>1, <1>2, <1>3
<1>5. \A j \in DOMAIN rows : rows'[j] = rows[j]
  BY <1>1, <1>3
<1>6. rows'[Len(rows) + 1] = new
  BY <1>1, <1>3
<1> QED BY <1>1, <1>2, <1>4, <1>5, <1>6

-----------------------------------------------------------------------------
\* The steps by who takes them.
RequestStep(r) ==
    \/ AskErase(r) \/ AskExport(r) \/ AskCancel(r) \/ AskRectify(r)
    \/ InsertErase(r) \/ Cancel(r) \/ Rectify(r) \/ RecordRectify(r) \/ Abandon(r)

TickOnly(t) ==
    \/ StartTick(t) \/ Take(t) \/ TickRectify(t) \/ TickRecordRectify(t) \/ TickExport(t)
    \/ TickFail(t)

RunStep(w) ==
    \/ Lookup(w) \/ Suppress(w) \/ Anonymise(w) \/ Delete(w) \/ Record(w)
    \/ Throw(w) \/ Die(w)

LEMMA StepShape ==
    Next => \/ \E r \in Reqs : RequestStep(r)
            \/ \E t \in Ticks : TickOnly(t)
            \/ \E s \in Sweeps : StartSweep(s)
            \/ \E w \in Runs : RunStep(w)
            \/ \E i : GraceEnds(i)
            \/ Ages
BY DEF Next, Ask, RequestGoes, TickStep, EraseStep, RequestStep, TickOnly, RunStep

LEMMA InitInv == Init => IInv
<1> SUFFICES ASSUME Init PROVE IInv
  OBVIOUS
<1> USE NdprAssumption DEF Init
<1>1. rows = <<>> /\ rows \in Seq(Row) /\ DOMAIN rows = {} /\ Len(rows) = 0
  OBVIOUS
<1>2. TypeOK
  BY <1>1 DEF TypeOK, RunLabels, ReqLabels, Resting, NoReq, Runs
<1>3. PastOK
  BY DEF PastOK
<1>4. Unique /\ Kept
  BY <1>1 DEF Unique, Kept, Inserting, NoReq
<1>5. TickRows /\ ReqRows /\ Applied /\ Listed
  BY <1>1 DEF TickRows, ReqRows, Applied, Listed, EraseLabels, Resting, NoReq, Runs
<1> QED BY <1>2, <1>3, <1>4, <1>5 DEF IInv

-----------------------------------------------------------------------------
\* What no step does to the rows: they stay, of their kind, and what is not pending
\* any more is never pending again.
RowsGrow ==
    /\ rows' \in Seq(Row) /\ DOMAIN rows \subseteq DOMAIN rows'
    /\ \A i \in DOMAIN rows : /\ rows'[i].kind = rows[i].kind
                              /\ Pending(i)' => Pending(i)

\* Only the insertion of an erasure makes a pending erasure; only a tick that
\* records it completes one.
RowsEarned ==
    /\ \A i \in DOMAIN rows' \ DOMAIN rows :
           PendingErase(i)' => i = Len(rows) + 1 /\ \E r \in Reqs : InsertErase(r)
    /\ \A i \in DOMAIN rows' : rows'[i].kind = "erase" /\ rows'[i].status = "completed"
           => \/ i \in DOMAIN rows /\ rows[i].status = "completed"
              \/ \E t \in Ticks : Record(t)

LEMMA RowSteps == IInv /\ [Next]_vars => RowsGrow /\ RowsEarned
<1> SUFFICES ASSUME IInv, [Next]_vars PROVE RowsGrow /\ RowsEarned
  OBVIOUS
<1>0. TypeOK /\ TickRows /\ ReqRows
  BY DEF IInv
<1>1. ASSUME UNCHANGED rows PROVE RowsGrow /\ RowsEarned
  BY <1>0, <1>1 DEF RowsGrow, RowsEarned, Pending, TypeOK
<1>2. ASSUME NEW i \in DOMAIN rows, NEW s \in Status \ {"pending", "completed"}, SetStatus(i, s)
      PROVE  RowsGrow /\ RowsEarned
  <2>1. s \in Status
    OBVIOUS
  <2> QED BY <1>0, <1>2, <2>1, SetStatusEffect DEF RowsGrow, RowsEarned, Pending
<1>3. ASSUME NEW i \in DOMAIN rows, rows[i].kind # "erase", SetStatus(i, "completed")
      PROVE  RowsGrow /\ RowsEarned
  <2>1. "completed" \in Status
    BY DEF Status
  <2> QED BY <1>0, <1>3, <2>1, SetStatusEffect DEF RowsGrow, RowsEarned, Pending
<1>4. ASSUME NEW kind \in Kinds \ {"erase"}, NEW to \in Addresses \cup {None},
             NewRow(kind, "pending", to)
      PROVE  RowsGrow /\ RowsEarned
  <2>1. "pending" \in Status /\ kind \in Kinds
    BY DEF Status
  <2> QED BY <1>0, <1>4, <2>1, NewRowEffect DEF RowsGrow, RowsEarned, Pending, PendingErase
<1>5. CASE \E r \in Reqs : RequestStep(r)
  <2> PICK r \in Reqs : RequestStep(r)
    BY <1>5
  <2>1. CASE AskErase(r) \/ AskCancel(r) \/ Rectify(r) \/ Abandon(r)
    BY <2>1, <1>1 DEF AskErase, AskCancel, Rectify, Abandon
  <2>2. CASE AskExport(r)
    BY <2>2, <1>4 DEF AskExport, Kinds
  <2>3. CASE AskRectify(r)
    BY <2>3, <1>4 DEF AskRectify, Kinds
  <2>4. CASE InsertErase(r)
    <3>1. "erase" \in Kinds /\ "pending" \in Status /\ NewRow("erase", "pending", None)
      BY <2>4 DEF InsertErase, Kinds, Status
    <3> QED BY <1>0, <2>4, <3>1, NewRowEffect DEF RowsGrow, RowsEarned, Pending, PendingErase
  <2>5. CASE Cancel(r)
    BY <2>5, <1>0, <1>2 DEF Cancel, ReqRows, Status
  <2>6. CASE RecordRectify(r)
    BY <2>6, <1>0, <1>2, <1>3 DEF RecordRectify, ReqRows, Outcome, Status
  <2> QED BY <2>1, <2>2, <2>3, <2>4, <2>5, <2>6 DEF RequestStep
<1>6. CASE \E t \in Ticks : TickOnly(t)
  <2> PICK t \in Ticks : TickOnly(t)
    BY <1>6
  <2>1. CASE StartTick(t) \/ Take(t) \/ TickRectify(t)
    BY <2>1, <1>1 DEF StartTick, Take, TickRectify
  <2>2. runs[t].pc \notin {"idle", "choose"} => runs[t].at \in DOMAIN rows
    BY <1>0, Typed
  <2>3. CASE TickRecordRectify(t)
    BY <2>2, <2>3, <1>0, <1>2, <1>3 DEF TickRecordRectify, TickRows, Outcome, Status
  <2>4. CASE TickExport(t) \/ TickFail(t)
    BY <2>2, <2>4, <1>2 DEF TickExport, TickFail, Status
  <2> QED BY <2>1, <2>3, <2>4 DEF TickOnly
<1>7. CASE \E w \in Runs : RunStep(w)
  <2> PICK w \in Runs : RunStep(w)
    BY <1>7
  <2>1. CASE Lookup(w) \/ Suppress(w) \/ Anonymise(w) \/ Delete(w) \/ Throw(w) \/ Die(w)
    BY <2>1, <1>1 DEF Lookup, Suppress, Anonymise, Delete, Throw, Die
  <2>2. CASE Record(w) /\ w \notin Ticks
    BY <2>2, <1>1 DEF Record
  <2>3. CASE Record(w) /\ w \in Ticks
    <3>1. runs[w].at \in DOMAIN rows /\ "completed" \in Status
      BY <2>3, <1>0, Typed DEF Record, Status
    <3>2. SetStatus(runs[w].at, "completed")
      BY <2>3 DEF Record
    <3> QED BY <1>0, <2>3, <3>1, <3>2, SetStatusEffect DEF RowsGrow, RowsEarned, Pending
  <2> QED BY <2>1, <2>2, <2>3 DEF RunStep
<1>8. CASE \E i : GraceEnds(i)
  <2> PICK i : GraceEnds(i)
    BY <1>8
  <2> DEFINE new == [rows[i] EXCEPT !.due = TRUE]
  <2>1. i \in DOMAIN rows /\ rows' = [rows EXCEPT ![i] = new]
    BY DEF GraceEnds
  <2>2. rows \in Seq(Row) /\ Len(rows) \in Nat /\ DOMAIN rows = 1 .. Len(rows) /\ rows[i] \in Row
    BY <1>0, <2>1, Typed DEF TypeOK
  <2>3. new \in Row /\ new.kind = rows[i].kind /\ new.status = rows[i].status
    BY <2>2 DEF Row
  <2> HIDE DEF new
  <2>4. rows' \in Seq(Row) /\ DOMAIN rows' = DOMAIN rows
           /\ \A j \in DOMAIN rows : rows'[j] = IF j = i THEN new ELSE rows[j]
    BY <2>1, <2>2, <2>3
  <2> QED BY <2>3, <2>4 DEF RowsGrow, RowsEarned, Pending
<1>9. CASE (\E s \in Sweeps : StartSweep(s)) \/ Ages \/ UNCHANGED vars
  BY <1>9, <1>1 DEF StartSweep, Ages, vars
<1> QED BY <1>5, <1>6, <1>7, <1>8, <1>9, StepShape

-----------------------------------------------------------------------------
\* Types.
RunType ==
    [pc : RunLabels, todo : SUBSET (DOMAIN rows), at : 0 .. Len(rows),
     seen : Addresses \cup {None}]
ReqType == [pc : ReqLabels, at : 0 .. Len(rows), to : Addresses \cup {None}]
UserType ==
    [email : Addresses \cup {Erased}, belongings : BOOLEAN,
     deletedAt : {"never", "recent", "old"}]

\* A tick that goes on to the next row, or ends.
LEMMA ProceedTyped ==
    ASSUME TypeOK, NEW t \in Runs, NEW todo \in SUBSET (DOMAIN rows), Proceed(t, todo)
    PROVE  /\ runs' \in [Runs -> RunType]
           /\ runs'[t].at = 0 /\ runs'[t].pc \in {"idle", "choose"} /\ runs'[t].todo = todo
           /\ \A w \in Runs \ {t} : runs'[w] = runs[w]
<1> DEFINE x == IF todo = {} THEN Resting ELSE [Resting EXCEPT !.pc = "choose", !.todo = todo]
<1>1. x \in RunType /\ x.at = 0 /\ x.pc \in {"idle", "choose"} /\ x.todo = todo
  <2> DEFINE Label == IF todo = {} THEN "idle" ELSE "choose"
  <2>1. x = [pc |-> Label, todo |-> todo, at |-> 0, seen |-> None]
    BY DEF Resting
  <2>2. Label \in {"idle", "choose"} /\ Label \in RunLabels /\ 0 \in 0 .. Len(rows)
    BY Typed DEF RunLabels
  <2> HIDE DEF x, Label
  <2> QED BY <2>1, <2>2 DEF RunType
<1>2. runs' = [runs EXCEPT ![t] = x] /\ runs \in [Runs -> RunType]
  BY DEF Proceed, RunGoes, TypeOK, RunType
<1> HIDE DEF x
<1> QED BY <1>1, <1>2

\* A run that goes to another label, with the row it has in hand.
LEMMA GotoTyped ==
    ASSUME TypeOK, NEW w \in Runs, NEW l \in RunLabels \ {"idle", "choose"}, Goto(w, l),
           runs[w].pc \notin {"idle", "choose"}
    PROVE  /\ runs' \in [Runs -> RunType]
           /\ runs'[w].at = runs[w].at /\ runs'[w].pc = l /\ runs'[w].todo = runs[w].todo
           /\ runs'[w].seen = runs[w].seen
           /\ \A v \in Runs \ {w} : runs'[v] = runs[v]
<1> DEFINE x == [runs[w] EXCEPT !.pc = l]
<1>1. runs[w] \in RunType /\ runs \in [Runs -> RunType]
  BY DEF TypeOK, RunType
<1>2. x \in RunType /\ x.at = runs[w].at /\ x.pc = l /\ x.todo = runs[w].todo
         /\ x.seen = runs[w].seen
  BY <1>1 DEF RunType
<1>3. runs' = [runs EXCEPT ![w] = x]
  BY DEF Goto, RunGoes
<1> HIDE DEF x
<1> QED BY <1>1, <1>2, <1>3

\* A run that ends, or has not begun.
LEMMA RestTyped ==
    ASSUME TypeOK, NEW w \in Runs, RunGoes(w, Resting)
    PROVE  /\ runs' \in [Runs -> RunType] /\ runs'[w] = Resting
           /\ \A v \in Runs \ {w} : runs'[v] = runs[v]
<1>1. Resting \in RunType
  BY Typed DEF RunType, Resting, RunLabels
<1>2. runs \in [Runs -> RunType] /\ runs' = [runs EXCEPT ![w] = Resting]
  BY DEF TypeOK, RunType, RunGoes
<1> QED BY <1>1, <1>2

\* A sweep that enters applyErase.
LEMMA SweepTyped ==
    ASSUME TypeOK, NEW s \in Sweeps, StartSweep(s)
    PROVE  /\ runs' \in [Runs -> RunType]
           /\ runs'[s].at = 0 /\ runs'[s].pc = "lookup" /\ runs'[s].todo = {}
           /\ \A v \in Runs \ {s} : runs'[v] = runs[v]
<1> DEFINE x == [Resting EXCEPT !.pc = "lookup"]
<1>1. s \in Runs /\ 0 \in 0 .. Len(rows) /\ "lookup" \in RunLabels
  BY Typed, Order DEF Runs, RunLabels, EraseLabels
<1>2. x \in RunType /\ x.at = 0 /\ x.pc = "lookup" /\ x.todo = {}
  BY <1>1 DEF RunType, Resting
<1>3. runs' = [runs EXCEPT ![s] = x] /\ runs \in [Runs -> RunType]
  BY Order DEF StartSweep, RunGoes, TypeOK, RunType
<1> HIDE DEF x
<1> QED BY <1>1, <1>2, <1>3

\* A run that goes to another label with another address.
LEMMA AdvanceTyped ==
    ASSUME TypeOK, NEW w \in Runs, NEW l \in RunLabels, NEW a \in Addresses \cup {None},
           RunGoes(w, [runs[w] EXCEPT !.pc = l, !.seen = a])
    PROVE  /\ runs' \in [Runs -> RunType]
           /\ runs'[w].at = runs[w].at /\ runs'[w].pc = l /\ runs'[w].todo = runs[w].todo
           /\ runs'[w].seen = a
           /\ \A v \in Runs \ {w} : runs'[v] = runs[v]
<1> DEFINE x == [runs[w] EXCEPT !.pc = l, !.seen = a]
<1>1. runs[w] \in RunType /\ runs \in [Runs -> RunType]
  BY DEF TypeOK, RunType
<1>2. x \in RunType /\ x.at = runs[w].at /\ x.pc = l /\ x.todo = runs[w].todo /\ x.seen = a
  BY <1>1 DEF RunType
<1>3. runs' = [runs EXCEPT ![w] = x]
  BY DEF RunGoes
<1> HIDE DEF x
<1> QED BY <1>1, <1>2, <1>3

\* A tick that takes a row.
LEMMA TakeTyped ==
    ASSUME TypeOK, NEW t \in Runs, NEW l \in RunLabels, NEW i \in 0 .. Len(rows),
           NEW todo \in SUBSET (DOMAIN rows),
           RunGoes(t, [Resting EXCEPT !.pc = l, !.at = i, !.todo = todo])
    PROVE  /\ runs' \in [Runs -> RunType]
           /\ runs'[t].at = i /\ runs'[t].pc = l /\ runs'[t].todo = todo
           /\ \A v \in Runs \ {t} : runs'[v] = runs[v]
<1> DEFINE x == [Resting EXCEPT !.pc = l, !.at = i, !.todo = todo]
<1>1. x \in RunType /\ x.at = i /\ x.pc = l /\ x.todo = todo
  BY DEF RunType, Resting
<1>2. runs' = [runs EXCEPT ![t] = x] /\ runs \in [Runs -> RunType]
  BY DEF RunGoes, TypeOK, RunType
<1> HIDE DEF x
<1> QED BY <1>1, <1>2

LEMMA LabelsOK ==
    /\ EraseLabels \subseteq RunLabels
    /\ {"rectify", "recordRectify", "export", "fail", "idle", "choose"} \subseteq RunLabels
BY Order DEF RunLabels

\* A step of one run, and what it may have in hand and to do after it.
RunEffect(w) ==
    /\ runs' \in [Runs -> RunType]
    /\ \A v \in Runs \ {w} : runs'[v] = runs[v]
    /\ runs'[w].todo \subseteq runs[w].todo \cup {i \in DOMAIN rows : Pending(i)}
    /\ \/ runs'[w].at = 0 /\ runs'[w].pc \in {"idle", "choose"}
       \/ w \notin Ticks /\ runs'[w].at = 0
       \/ runs'[w].at \in runs[w].todo
       \/ runs'[w].at = runs[w].at /\ runs[w].pc \notin {"idle", "choose"}

LEMMA TickSteps ==
    ASSUME IInv, NEW t \in Ticks, TickOnly(t)
    PROVE  /\ RunEffect(t) /\ runs'[t].pc \notin {"suppress", "anonymise", "delete", "record"}
           /\ runs'[t].pc = "lookup" => rows[runs'[t].at].kind = "erase"
           /\ runs'[t].pc \in {"rectify", "recordRectify"} => rows[runs'[t].at].kind = "rectify"
           /\ runs'[t].pc \notin {"idle", "choose"} => runs'[t].at \in DOMAIN rows
           /\ runs'[t].pc \in {"idle", "choose"} => runs'[t].at = 0
<1>0. TypeOK /\ TickRows /\ t \in Runs
  BY DEF IInv, Runs
<1>1. /\ runs[t].todo \subseteq DOMAIN rows /\ Len(rows) \in Nat /\ DOMAIN rows = 1 .. Len(rows)
      /\ runs[t].pc \notin {"idle", "choose"} => runs[t].at \in DOMAIN rows
  BY <1>0, Typed
<1>2. CASE StartTick(t)
  <2>1. Proceed(t, Selected)
    BY <1>2 DEF StartTick, Proceed
  <2>2. Selected \in SUBSET (DOMAIN rows)
    BY DEF Selected
  <2>3. runs' \in [Runs -> RunType] /\ runs'[t].at = 0 /\ runs'[t].pc \in {"idle", "choose"}
        /\ runs'[t].todo = Selected /\ \A w \in Runs \ {t} : runs'[w] = runs[w]
    BY <1>0, <2>1, <2>2, ProceedTyped
  <2> QED BY <2>3 DEF RunEffect, Selected
<1>3. CASE Take(t)
  <2> PICK i \in runs[t].todo :
          \/ Branch(i) = "choose" /\ Proceed(t, runs[t].todo \ {i})
          \/ /\ Branch(i) # "choose"
             /\ RunGoes(t, [Resting EXCEPT !.pc = Branch(i), !.at = i, !.todo = runs[t].todo \ {i}])
    BY <1>3, Zenon DEF Take
  <2>1. CASE Branch(i) = "choose" /\ Proceed(t, runs[t].todo \ {i})
    <3>1. runs[t].todo \ {i} \in SUBSET (DOMAIN rows)
      BY <1>1
    <3> QED BY <1>0, <2>1, <3>1, ProceedTyped DEF RunEffect
  <2>2. CASE /\ Branch(i) # "choose"
             /\ RunGoes(t, [Resting EXCEPT !.pc = Branch(i), !.at = i, !.todo = runs[t].todo \ {i}])
    <3>2. \/ Branch(i) = "lookup" /\ rows[i].kind = "erase"
          \/ Branch(i) = "rectify" /\ rows[i].kind = "rectify"
          \/ Branch(i) = "export"
      <4>1. rows[i].kind \in {"erase", "rectify", "export"}
        BY <1>0, <1>1, Typed DEF Kinds
      <4> QED BY <2>2, <4>1, Order DEF Branch
    <3>3. Branch(i) \in RunLabels
      BY <3>2, LabelsOK DEF EraseLabels
    <3>4. i \in 0 .. Len(rows) /\ runs[t].todo \ {i} \in SUBSET (DOMAIN rows)
      BY <1>1
    <3>5. /\ runs' \in [Runs -> RunType]
          /\ runs'[t].at = i /\ runs'[t].pc = Branch(i) /\ runs'[t].todo = runs[t].todo \ {i}
          /\ \A v \in Runs \ {t} : runs'[v] = runs[v]
      BY <1>0, <2>2, <3>3, <3>4, TakeTyped
    <3> QED BY <1>1, <3>2, <3>5 DEF RunEffect
  <2> QED BY <2>1, <2>2
<1>4. CASE TickRectify(t)
  <2>1. Goto(t, "recordRectify") /\ runs[t].pc = "rectify" /\ "recordRectify" \in RunLabels
    BY <1>4, LabelsOK DEF TickRectify
  <2> QED BY <1>0, <1>1, <2>1, GotoTyped DEF RunEffect, TickRows
<1>5. CASE TickRecordRectify(t) \/ TickExport(t) \/ TickFail(t)
  <2>1. Proceed(t, runs[t].todo) /\ runs[t].todo \in SUBSET (DOMAIN rows)
    BY <1>1, <1>5 DEF TickRecordRectify, TickExport, TickFail, Done
  <2> QED BY <1>0, <2>1, ProceedTyped DEF RunEffect
<1> QED BY <1>2, <1>3, <1>4, <1>5 DEF TickOnly

LEMMA EraseRunSteps ==
    ASSUME IInv, NEW w \in Runs, RunStep(w)
    PROVE  /\ RunEffect(w)
           /\ \/ /\ Lookup(w) /\ runs'[w].pc = "suppress"
                 /\ user.email \in {Erased, runs'[w].seen}
              \/ Suppress(w) /\ runs'[w].pc = "anonymise"
              \/ Anonymise(w) /\ runs'[w].pc = "delete"
              \/ Delete(w) /\ runs'[w].pc = "record"
              \/ (Record(w) \/ Throw(w) \/ Die(w)) /\ runs'[w].pc \in {"idle", "choose", "fail"}
           /\ runs[w].pc \in EraseLabels \/ runs'[w].pc \in {"idle", "fail"}
           /\ runs'[w].pc \notin {"idle", "choose"} => runs'[w].at = runs[w].at
           /\ w \in Ticks /\ runs'[w].pc \notin {"idle", "choose"} => runs'[w].at \in DOMAIN rows
           /\ w \in Ticks /\ runs'[w].pc \in {"idle", "choose"} => runs'[w].at = 0
<1>0. TypeOK
  BY DEF IInv
<1>1. /\ runs[w].todo \subseteq DOMAIN rows /\ Len(rows) \in Nat /\ DOMAIN rows = 1 .. Len(rows)
      /\ w \in Ticks /\ runs[w].pc \notin {"idle", "choose"} => runs[w].at \in DOMAIN rows
      /\ runs[w].at \in 0 .. Len(rows) /\ runs[w].seen \in Addresses \cup {None}
  BY <1>0, Typed
<1>2. {"lookup", "suppress", "anonymise", "delete", "record", "fail"} \subseteq RunLabels
  BY LabelsOK DEF EraseLabels
<1>4. CASE Lookup(w)
  <2> DEFINE a == IF user.email = Erased THEN None ELSE user.email
  <2>1. user.email \in Addresses \cup {Erased}
    BY <1>0 DEF TypeOK
  <2>2. a \in Addresses \cup {None}
    BY <2>1
  <2>3. RunGoes(w, [runs[w] EXCEPT !.pc = "suppress", !.seen = a]) /\ runs[w].pc = "lookup"
    BY <1>4, Order DEF Lookup
  <2> HIDE DEF a
  <2>6. /\ runs' \in [Runs -> RunType]
        /\ runs'[w].at = runs[w].at /\ runs'[w].pc = "suppress" /\ runs'[w].todo = runs[w].todo
        /\ runs'[w].seen = a
        /\ \A v \in Runs \ {w} : runs'[v] = runs[v]
    BY <1>0, <1>2, <2>2, <2>3, AdvanceTyped
  <2>7. user.email \in {Erased, a}
    BY DEF a
  <2> QED BY <1>1, <1>4, <2>3, <2>6, <2>7 DEF RunEffect, EraseLabels
<1>5. CASE Suppress(w)
  <2>1. RunGoes(w, [runs[w] EXCEPT !.pc = "anonymise", !.seen = None]) /\ runs[w].pc = "suppress"
    BY <1>5, Order DEF Suppress
  <2>4. /\ runs' \in [Runs -> RunType]
        /\ runs'[w].at = runs[w].at /\ runs'[w].pc = "anonymise" /\ runs'[w].todo = runs[w].todo
        /\ \A v \in Runs \ {w} : runs'[v] = runs[v]
    BY <1>0, <1>2, <2>1, AdvanceTyped
  <2> QED BY <1>1, <1>5, <2>1, <2>4 DEF RunEffect, EraseLabels
<1>6. CASE Anonymise(w)
  <2>1. Goto(w, "delete") /\ runs[w].pc = "anonymise"
    BY <1>6, Order DEF Anonymise
  <2>2. /\ runs' \in [Runs -> RunType]
        /\ runs'[w].at = runs[w].at /\ runs'[w].pc = "delete" /\ runs'[w].todo = runs[w].todo
        /\ \A v \in Runs \ {w} : runs'[v] = runs[v]
    BY <1>0, <1>2, <2>1, GotoTyped
  <2> QED BY <1>1, <1>6, <2>1, <2>2 DEF RunEffect, EraseLabels
<1>7. CASE Delete(w)
  <2>1. Goto(w, "record") /\ runs[w].pc = "delete"
    BY <1>7, Order DEF Delete
  <2>2. /\ runs' \in [Runs -> RunType]
        /\ runs'[w].at = runs[w].at /\ runs'[w].pc = "record" /\ runs'[w].todo = runs[w].todo
        /\ \A v \in Runs \ {w} : runs'[v] = runs[v]
    BY <1>0, <1>2, <2>1, GotoTyped
  <2> QED BY <1>1, <1>7, <2>1, <2>2 DEF RunEffect, EraseLabels
<1>8. CASE RunGoes(w, Resting) /\ (Record(w) \/ Throw(w) \/ Die(w))
  <2>1. runs' \in [Runs -> RunType] /\ runs'[w] = Resting
            /\ \A v \in Runs \ {w} : runs'[v] = runs[v]
    BY <1>0, <1>8, RestTyped
  <2>2. runs'[w].pc = "idle" /\ runs'[w].at = 0 /\ runs'[w].todo = {}
    BY <2>1 DEF Resting
  <2> QED BY <1>8, <2>1, <2>2 DEF RunEffect
<1>9. CASE Record(w) /\ w \in Ticks
  <2>1. Proceed(w, runs[w].todo) /\ runs[w].todo \in SUBSET (DOMAIN rows) /\ runs[w].pc = "record"
    BY <1>1, <1>9 DEF Record, Done
  <2> QED BY <1>0, <1>9, <2>1, ProceedTyped DEF RunEffect, EraseLabels
<1>10. CASE Throw(w) /\ w \in Ticks /\ Goto(w, "fail") /\ runs[w].pc \notin {"idle", "choose"}
  <2>1. /\ runs' \in [Runs -> RunType]
        /\ runs'[w].at = runs[w].at /\ runs'[w].pc = "fail" /\ runs'[w].todo = runs[w].todo
        /\ \A v \in Runs \ {w} : runs'[v] = runs[v]
    BY <1>0, <1>2, <1>10, GotoTyped
  <2> QED BY <1>1, <1>10, <2>1 DEF RunEffect
<1> QED BY <1>4, <1>5, <1>6, <1>7, <1>8, <1>9, <1>10 DEF RunStep, Record, Throw, Die

-----------------------------------------------------------------------------
\* What the steps of a request make of the requests.
LEMMA Grown ==
    ASSUME TypeOK, RowsGrow
    PROVE  /\ Len(rows) \in Nat /\ Len(rows') \in Nat /\ Len(rows) <= Len(rows')
           /\ DOMAIN rows = 1 .. Len(rows) /\ DOMAIN rows' = 1 .. Len(rows')
           /\ RunType \subseteq RunType' /\ ReqType \subseteq ReqType'
<1>1. Len(rows) \in Nat /\ DOMAIN rows = 1 .. Len(rows)
  BY Typed
<1>2. rows' \in Seq(Row) /\ DOMAIN rows \subseteq DOMAIN rows'
  BY DEF RowsGrow
<1>3. Len(rows') \in Nat /\ DOMAIN rows' = 1 .. Len(rows')
  BY <1>2
<1>4. Len(rows) <= Len(rows')
  <2>1. CASE Len(rows) = 0
    BY <2>1, <1>3
  <2>2. CASE Len(rows) # 0
    <3>1. Len(rows) \in 1 .. Len(rows)
      BY <1>1, <2>2
    <3> QED BY <3>1, <1>1, <1>2, <1>3
  <2> QED BY <2>1, <2>2
<1>5. 0 .. Len(rows) \subseteq 0 .. Len(rows')
  BY <1>1, <1>3, <1>4
<1>6. SUBSET (DOMAIN rows) \subseteq SUBSET (DOMAIN rows')
  BY <1>2
<1>7. RunType \subseteq RunType'
  BY <1>5, <1>6 DEF RunType
<1>8. ReqType \subseteq ReqType'
  BY <1>5 DEF ReqType
<1> QED BY <1>1, <1>3, <1>4, <1>7, <1>8

LEMMA ReqTyped ==
    ASSUME TypeOK, RowsGrow, NEW r \in Reqs, NEW q, q \in ReqType', ReqGoes(r, q)
    PROVE  /\ reqs' \in [Reqs -> ReqType'] /\ reqs'[r] = q
           /\ \A p \in Reqs \ {r} : reqs'[p] = reqs[p]
<1>1. reqs \in [Reqs -> ReqType]
  BY DEF TypeOK, ReqType
<1>2. reqs \in [Reqs -> ReqType']
  BY <1>1, Grown
<1>3. reqs' = [reqs EXCEPT ![r] = q]
  BY DEF ReqGoes
<1> QED BY <1>2, <1>3

ReqEffect(r) ==
    /\ reqs' \in [Reqs -> ReqType']
    /\ \A q \in Reqs \ {r} : reqs'[q] = reqs[q]
    /\ \/ reqs'[r].pc = "idle"
       \/ reqs'[r].pc = "insertErase" /\ AskErase(r)
       \/ reqs'[r].pc = "cancel" /\ reqs'[r].at \in DOMAIN rows'
       \/ /\ reqs'[r].pc \in {"rectify", "recordRectify"}
          /\ reqs'[r].at \in DOMAIN rows' /\ rows'[reqs'[r].at].kind = "rectify"

LEMMA RequestSteps ==
    ASSUME IInv, RowsGrow, NEW r \in Reqs, RequestStep(r)
    PROVE  ReqEffect(r) /\ runs' = runs
<1>0. TypeOK /\ ReqRows
  BY DEF IInv
<1>1. /\ Len(rows) \in Nat /\ Len(rows') \in Nat /\ Len(rows) <= Len(rows')
      /\ DOMAIN rows = 1 .. Len(rows) /\ DOMAIN rows' = 1 .. Len(rows')
      /\ reqs \in [Reqs -> ReqType] /\ ReqType \subseteq ReqType'
  BY <1>0, Grown DEF TypeOK, ReqType
<1>2. runs' = runs
  BY DEF RequestStep, AskErase, AskExport, AskCancel, AskRectify, InsertErase, Cancel, Rectify,
         RecordRectify, Abandon
<1>3. NoReq \in ReqType' /\ NoReq.pc = "idle"
  BY <1>1 DEF NoReq, ReqType, ReqLabels
<1>4. CASE ReqGoes(r, NoReq)
  BY <1>0, <1>2, <1>3, <1>4, ReqTyped DEF ReqEffect
<1>5. CASE AskErase(r)
  <2> DEFINE q == [NoReq EXCEPT !.pc = "insertErase"]
  <2>1. q \in ReqType' /\ q.pc = "insertErase"
    BY <1>1 DEF NoReq, ReqType, ReqLabels
  <2>2. ReqGoes(r, q)
    BY <1>5 DEF AskErase
  <2> HIDE DEF q
  <2> QED BY <1>0, <1>2, <1>5, <2>1, <2>2, ReqTyped DEF ReqEffect
<1>6. CASE AskExport(r)
  <2>1. reqs' = reqs /\ reqs[r] = NoReq
    BY <1>6 DEF AskExport, Op
  <2> QED BY <1>1, <1>2, <1>3, <2>1 DEF ReqEffect
<1>7. CASE AskCancel(r)
  <2> PICK i \in DOMAIN rows : ReqGoes(r, [NoReq EXCEPT !.pc = "cancel", !.at = i])
    BY <1>7 DEF AskCancel
  <2> DEFINE q == [NoReq EXCEPT !.pc = "cancel", !.at = i]
  <2>1. i \in 0 .. Len(rows') /\ i \in DOMAIN rows'
    BY <1>1
  <2>2. q \in ReqType' /\ q.pc = "cancel" /\ q.at = i
    BY <2>1 DEF NoReq, ReqType, ReqLabels
  <2>3. ReqGoes(r, q)
    OBVIOUS
  <2> HIDE DEF q
  <2> QED BY <1>0, <1>2, <2>1, <2>2, <2>3, ReqTyped DEF ReqEffect
<1>8. CASE AskRectify(r)
  <2> PICK a \in Addresses \cup {None} :
          /\ NewRow("rectify", "pending", a)
          /\ ReqGoes(r, [pc |-> "rectify", at |-> Len(rows) + 1, to |-> a])
    BY <1>8 DEF AskRectify
  <2> DEFINE q == [pc |-> "rectify", at |-> Len(rows) + 1, to |-> a]
  <2>1. "rectify" \in Kinds /\ "pending" \in Status
    BY DEF Kinds, Status
  <2>2. Len(rows') = Len(rows) + 1 /\ rows'[Len(rows) + 1].kind = "rectify"
    BY <1>0, <2>1, NewRowEffect
  <2>3. Len(rows) + 1 \in DOMAIN rows' /\ Len(rows) + 1 \in 0 .. Len(rows')
    BY <1>1, <2>2
  <2>4. q \in ReqType' /\ q.pc = "rectify" /\ q.at = Len(rows) + 1
    BY <2>3 DEF ReqType, ReqLabels
  <2>5. ReqGoes(r, q)
    OBVIOUS
  <2> HIDE DEF q
  <2> QED BY <1>0, <1>2, <2>2, <2>3, <2>4, <2>5, ReqTyped DEF ReqEffect
<1>9. CASE Rectify(r)
  <2> DEFINE q == [reqs[r] EXCEPT !.pc = "recordRectify"]
  <2>1. reqs[r] \in ReqType /\ reqs[r].at \in DOMAIN rows /\ rows[reqs[r].at].kind = "rectify"
    BY <1>0, <1>1, <1>9 DEF ReqRows, Rectify
  <2>2. q \in ReqType /\ q.pc = "recordRectify" /\ q.at = reqs[r].at
    BY <2>1 DEF ReqType, ReqLabels
  <2>3. q \in ReqType' /\ ReqGoes(r, q) /\ rows' = rows
    BY <1>1, <1>9, <2>2 DEF Rectify
  <2> HIDE DEF q
  <2>4. reqs' \in [Reqs -> ReqType'] /\ reqs'[r] = q /\ \A p \in Reqs \ {r} : reqs'[p] = reqs[p]
    BY <1>0, <2>3, ReqTyped
  <2> QED BY <1>2, <2>1, <2>2, <2>3, <2>4 DEF ReqEffect
<1> QED BY <1>2, <1>4, <1>5, <1>6, <1>7, <1>8, <1>9
      DEF RequestStep, InsertErase, Cancel, RecordRectify, Abandon

-----------------------------------------------------------------------------
\* What the steps write into the account, the list and the history.
LEMMA WriteTyped ==
    ASSUME TypeOK, PastOK, NEW a \in Addresses \cup {None}, Write(a)
    PROVE  user' \in UserType /\ PastOK'
<1>1. CASE a = None
  BY <1>1 DEF Write, TypeOK, PastOK, UserType
<1>2. CASE a # None
  <2>1. user' = [user EXCEPT !.email = a] /\ a \in Addresses /\ user \in UserType
    BY <1>2 DEF Write, TypeOK, UserType
  <2>2. user' \in UserType
    BY <2>1 DEF UserType
  <2> DEFINE un == IF LookedUp THEN past.unlisted \cup {a} ELSE past.unlisted
             re == past.rewritten \/ user.deletedAt # "never"
  <2>3. un \in SUBSET Addresses /\ re \in BOOLEAN
    BY <2>1 DEF PastOK
  <2>4. past' = [past EXCEPT !.unlisted = un, !.rewritten = re]
    BY <1>2 DEF Write
  <2> HIDE DEF un, re
  <2>5. PastOK'
    BY <2>3, <2>4 DEF PastOK
  <2> QED BY <2>2, <2>5
<1> QED BY <1>1, <1>2

LEMMA RestSteps ==
    IInv /\ [Next]_vars =>
        /\ user' \in UserType /\ suppressed' \subseteq Addresses
        /\ ops' \in 0 .. MaxOps /\ faults' \in 0 .. MaxFaults /\ PastOK'
<1> SUFFICES ASSUME IInv, [Next]_vars
    PROVE  /\ user' \in UserType /\ suppressed' \subseteq Addresses
           /\ ops' \in 0 .. MaxOps /\ faults' \in 0 .. MaxFaults /\ PastOK'
  OBVIOUS
<1>0. TypeOK /\ PastOK
  BY DEF IInv
<1>1. /\ user \in UserType /\ suppressed \subseteq Addresses /\ MaxOps \in Nat /\ MaxFaults \in Nat
      /\ ops \in 0 .. MaxOps /\ faults \in 0 .. MaxFaults
  BY <1>0, NdprAssumption DEF TypeOK, UserType
<1>2. ASSUME UNCHANGED past PROVE PastOK'
  BY <1>0, <1>2 DEF PastOK
<1>3. ASSUME NEW r \in Reqs, Op(r) PROVE ops' \in 0 .. MaxOps
  BY <1>1, <1>3 DEF Op
<1>4. CASE \E r \in Reqs : RequestStep(r)
  <2> PICK r \in Reqs : RequestStep(r)
    BY <1>4
  <2>1. CASE AskErase(r)
    <3>1. past' = [past EXCEPT !.crossed = past.crossed \/ \E q \in Reqs : Inserting(q)]
      BY <2>1 DEF AskErase
    <3>2. PastOK'
      BY <1>0, <3>1 DEF PastOK
    <3> QED BY <1>1, <1>3, <2>1, <3>2 DEF AskErase
  <2>2. CASE AskExport(r) \/ AskCancel(r) \/ AskRectify(r)
    BY <1>1, <1>2, <1>3, <2>2 DEF AskExport, AskCancel, AskRectify
  <2>3. CASE InsertErase(r) \/ RecordRectify(r)
    BY <1>1, <1>2, <2>3 DEF InsertErase, RecordRectify
  <2>4. CASE Cancel(r)
    <3> DEFINE i == reqs[r].at
               ke == IF rows[i].kind = "erase" /\ Pending(i) /\ ~rows[i].due /\ ~InHand(i)
                     THEN past.kept \cup {i} ELSE past.kept
    <3>1. i \in Nat
      BY <1>0, Typed
    <3>2. past' = [past EXCEPT !.kept = ke]
      BY <2>4 DEF Cancel
    <3>3. ke \in SUBSET Nat
      BY <1>0, <3>1 DEF PastOK
    <3> HIDE DEF ke
    <3>4. PastOK'
      BY <1>0, <3>2, <3>3 DEF PastOK
    <3> QED BY <1>1, <2>4, <3>4 DEF Cancel
  <2>5. CASE Rectify(r)
    <3>1. reqs[r].to \in Addresses \cup {None} /\ Write(reqs[r].to)
      BY <1>0, <2>5, Typed DEF Rectify
    <3>2. user' \in UserType /\ PastOK'
      BY <1>0, <3>1, WriteTyped
    <3> QED BY <1>1, <2>5, <3>2 DEF Rectify
  <2>6. CASE Abandon(r)
    BY <1>1, <1>2, <2>6 DEF Abandon
  <2> QED BY <2>1, <2>2, <2>3, <2>4, <2>5, <2>6 DEF RequestStep
<1>5. CASE \E t \in Ticks : TickOnly(t)
  <2> PICK t \in Ticks : TickOnly(t)
    BY <1>5
  <2>1. CASE StartTick(t) \/ Take(t) \/ TickRecordRectify(t) \/ TickExport(t) \/ TickFail(t)
    BY <1>1, <1>2, <2>1 DEF StartTick, Take, TickRecordRectify, TickExport, TickFail
  <2>2. CASE TickRectify(t)
    <3>1. runs[t].at \in DOMAIN rows
      BY <1>0, <2>2, Typed DEF TickRectify
    <3>2. rows[runs[t].at].to \in Addresses \cup {None} /\ Write(rows[runs[t].at].to)
      BY <1>0, <2>2, <3>1, Typed DEF TickRectify
    <3>3. user' \in UserType /\ PastOK'
      BY <1>0, <3>2, WriteTyped
    <3> QED BY <1>1, <2>2, <3>3 DEF TickRectify
  <2> QED BY <2>1, <2>2 DEF TickOnly
<1>6. CASE \E w \in Runs : RunStep(w)
  <2> PICK w \in Runs : RunStep(w)
    BY <1>6
  <2>1. CASE Lookup(w) \/ Record(w)
    BY <1>1, <1>2, <2>1 DEF Lookup, Record
  <2>2. CASE Suppress(w)
    <3>1. runs[w].seen \in Addresses \cup {None}
      BY <1>0, Typed
    <3>2. CASE suppressed' = suppressed \cup ({runs[w].seen} \ {None}) /\ UNCHANGED <<faults, past>>
      BY <1>1, <1>2, <2>2, <3>1, <3>2 DEF Suppress
    <3>3. CASE /\ runs[w].seen # None /\ faults < MaxFaults /\ faults' = faults + 1
               /\ past' = [past EXCEPT !.unlisted = past.unlisted \cup {runs[w].seen}]
               /\ UNCHANGED suppressed
      <4>1. PastOK'
        BY <1>0, <3>1, <3>3 DEF PastOK
      <4> QED BY <1>1, <2>2, <3>3, <4>1 DEF Suppress
    <3> QED BY <2>2, <3>2, <3>3 DEF Suppress
  <2>3. CASE Anonymise(w)
    <3>1. user' \in UserType
      BY <1>1, <2>3 DEF Anonymise, UserType
    <3> QED BY <1>1, <1>2, <2>3, <3>1 DEF Anonymise
  <2>4. CASE Delete(w)
    <3>1. user' \in UserType
      BY <1>1, <2>4 DEF Delete, UserType
    <3> QED BY <1>1, <1>2, <2>4, <3>1 DEF Delete
  <2>5. CASE Throw(w) \/ Die(w)
    BY <1>1, <1>2, <2>5 DEF Throw, Die
  <2> QED BY <2>1, <2>2, <2>3, <2>4, <2>5 DEF RunStep
<1>7. CASE (\E s \in Sweeps : StartSweep(s)) \/ (\E i : GraceEnds(i)) \/ UNCHANGED vars
  BY <1>1, <1>2, <1>7 DEF StartSweep, GraceEnds, vars
<1>8. CASE Ages
  <2>1. user' \in UserType
    BY <1>1, <1>8 DEF Ages, UserType
  <2> QED BY <1>1, <1>2, <1>8, <2>1 DEF Ages
<1> QED BY <1>4, <1>5, <1>6, <1>7, <1>8, StepShape

\* What any step may do to the account, the list and the history.
UserEffect ==
    /\ past.unlisted \subseteq past'.unlisted /\ suppressed \subseteq suppressed'
    /\ past.rewritten => past'.rewritten
    /\ past.crossed => past'.crossed
    /\ ~user.belongings => ~user'.belongings
    /\ user.deletedAt # "never" => user'.deletedAt # "never"
    /\ user.deletedAt = "never" /\ user'.deletedAt # "never" => user'.email = Erased
    /\ \/ user'.email = user.email
       \/ user'.email = Erased /\ \E w \in Runs : Anonymise(w)
       \/ /\ user'.email \in Addresses
          /\ LookedUp => user'.email \in past'.unlisted
          /\ user.deletedAt # "never" => past'.rewritten

LEMMA WriteEffect ==
    ASSUME TypeOK, PastOK, NEW a \in Addresses \cup {None}, Write(a), suppressed' = suppressed
    PROVE  UserEffect
<1>1. CASE a = None
  BY <1>1 DEF Write, UserEffect
<1>2. CASE a # None
  <2>1. user' = [user EXCEPT !.email = a] /\ a \in Addresses /\ user \in UserType
    BY <1>2 DEF Write, TypeOK, UserType
  <2>2. user'.email = a /\ user'.belongings = user.belongings /\ user'.deletedAt = user.deletedAt
    BY <2>1 DEF UserType
  <2> DEFINE un == IF LookedUp THEN past.unlisted \cup {a} ELSE past.unlisted
             re == past.rewritten \/ user.deletedAt # "never"
  <2>4. past' = [past EXCEPT !.unlisted = un, !.rewritten = re]
    BY <1>2 DEF Write
  <2> HIDE DEF un, re
  <2>5. past'.unlisted = un /\ past'.rewritten = re /\ past'.crossed = past.crossed
    BY <2>4 DEF PastOK
  <2>6. past.unlisted \subseteq un /\ (LookedUp => a \in un)
    BY DEF un
  <2>7. (past.rewritten => re) /\ (user.deletedAt # "never" => re)
    BY DEF re
  <2> QED BY <2>1, <2>2, <2>5, <2>6, <2>7 DEF UserEffect
<1> QED BY <1>1, <1>2

LEMMA UserSteps == IInv /\ [Next]_vars => UserEffect
<1> SUFFICES ASSUME IInv, [Next]_vars PROVE UserEffect
  OBVIOUS
<1>0. TypeOK /\ PastOK /\ user \in UserType
  BY DEF IInv, TypeOK, UserType
<1>1. ASSUME UNCHANGED <<user, suppressed, past>> PROVE UserEffect
  BY <1>1 DEF UserEffect
<1>2. ASSUME UNCHANGED <<user, suppressed>>, past'.unlisted = past.unlisted,
             past'.rewritten = past.rewritten, past.crossed => past'.crossed
      PROVE  UserEffect
  BY <1>2 DEF UserEffect
<1>4. CASE \E r \in Reqs : RequestStep(r)
  <2> PICK r \in Reqs : RequestStep(r)
    BY <1>4
  <2>1. CASE AskErase(r)
    <3>1. past' = [past EXCEPT !.crossed = past.crossed \/ \E q \in Reqs : Inserting(q)]
      BY <2>1 DEF AskErase
    <3>2. /\ past'.unlisted = past.unlisted /\ past'.rewritten = past.rewritten
          /\ past.crossed => past'.crossed
      BY <1>0, <3>1 DEF PastOK
    <3> QED BY <1>2, <2>1, <3>2 DEF AskErase
  <2>2. CASE AskExport(r) \/ AskCancel(r) \/ AskRectify(r) \/ InsertErase(r) \/ RecordRectify(r)
                 \/ Abandon(r)
    BY <1>1, <2>2 DEF AskExport, AskCancel, AskRectify, InsertErase, RecordRectify, Abandon
  <2>4. CASE Cancel(r)
    <3> DEFINE i == reqs[r].at
               ke == IF rows[i].kind = "erase" /\ Pending(i) /\ ~rows[i].due /\ ~InHand(i)
                     THEN past.kept \cup {i} ELSE past.kept
    <3>2. past' = [past EXCEPT !.kept = ke]
      BY <2>4 DEF Cancel
    <3> HIDE DEF ke
    <3>3. /\ past'.unlisted = past.unlisted /\ past'.rewritten = past.rewritten
          /\ past'.crossed = past.crossed
      BY <1>0, <3>2 DEF PastOK
    <3> QED BY <1>2, <2>4, <3>3 DEF Cancel
  <2>5. CASE Rectify(r)
    <3>1. reqs[r].to \in Addresses \cup {None} /\ Write(reqs[r].to) /\ suppressed' = suppressed
      BY <1>0, <2>5, Typed DEF Rectify
    <3> QED BY <1>0, <3>1, WriteEffect
  <2> QED BY <2>1, <2>2, <2>4, <2>5 DEF RequestStep
<1>5. CASE \E t \in Ticks : TickOnly(t)
  <2> PICK t \in Ticks : TickOnly(t)
    BY <1>5
  <2>1. CASE StartTick(t) \/ Take(t) \/ TickRecordRectify(t) \/ TickExport(t) \/ TickFail(t)
    BY <1>1, <2>1 DEF StartTick, Take, TickRecordRectify, TickExport, TickFail
  <2>2. CASE TickRectify(t)
    <3>1. runs[t].at \in DOMAIN rows
      BY <1>0, <2>2, Typed DEF TickRectify
    <3>2. /\ rows[runs[t].at].to \in Addresses \cup {None} /\ Write(rows[runs[t].at].to)
          /\ suppressed' = suppressed
      BY <1>0, <2>2, <3>1, Typed DEF TickRectify
    <3> QED BY <1>0, <3>2, WriteEffect
  <2> QED BY <2>1, <2>2 DEF TickOnly
<1>6. CASE \E w \in Runs : RunStep(w)
  <2> PICK w \in Runs : RunStep(w)
    BY <1>6
  <2>1. CASE Lookup(w) \/ Record(w) \/ Throw(w) \/ Die(w)
    BY <1>1, <2>1 DEF Lookup, Record, Throw, Die
  <2>2. CASE Suppress(w)
    <3>1. CASE suppressed' = suppressed \cup ({runs[w].seen} \ {None}) /\ UNCHANGED <<faults, past>>
      BY <2>2, <3>1 DEF Suppress, UserEffect
    <3>2. CASE /\ past' = [past EXCEPT !.unlisted = past.unlisted \cup {runs[w].seen}]
               /\ UNCHANGED suppressed
      <4>1. /\ past'.unlisted = past.unlisted \cup {runs[w].seen}
            /\ past'.rewritten = past.rewritten /\ past'.crossed = past.crossed
        BY <1>0, <3>2 DEF PastOK
      <4> QED BY <2>2, <3>2, <4>1 DEF Suppress, UserEffect
    <3> QED BY <2>2, <3>1, <3>2 DEF Suppress
  <2>3. CASE Anonymise(w)
    <3>1. user' = [user EXCEPT !.email = Erased, !.deletedAt = "recent"]
      BY <2>3 DEF Anonymise
    <3>2. user'.email = Erased /\ user'.deletedAt = "recent" /\ user'.belongings = user.belongings
      BY <1>0, <3>1 DEF UserType
    <3> QED BY <2>3, <3>2 DEF Anonymise, UserEffect
  <2>4. CASE Delete(w)
    <3>1. user' = [user EXCEPT !.belongings = FALSE]
      BY <2>4 DEF Delete
    <3>2. user'.email = user.email /\ user'.deletedAt = user.deletedAt /\ user'.belongings = FALSE
      BY <1>0, <3>1 DEF UserType
    <3> QED BY <2>4, <3>2 DEF Delete, UserEffect
  <2> QED BY <2>1, <2>2, <2>3, <2>4 DEF RunStep
<1>7. CASE (\E s \in Sweeps : StartSweep(s)) \/ (\E i : GraceEnds(i)) \/ UNCHANGED vars
  BY <1>1, <1>7 DEF StartSweep, GraceEnds, vars
<1>8. CASE Ages
  <2>1. user' = [user EXCEPT !.deletedAt = "old"] /\ user.deletedAt = "recent"
    BY <1>8 DEF Ages
  <2>2. user'.email = user.email /\ user'.deletedAt = "old" /\ user'.belongings = user.belongings
    BY <1>0, <2>1 DEF UserType
  <2> QED BY <1>8, <2>1, <2>2 DEF Ages, UserEffect
<1> QED BY <1>4, <1>5, <1>6, <1>7, <1>8, StepShape

-----------------------------------------------------------------------------
\* A step moves the runs and the requests whose step it is.
LEMMA RunsMove ==
    ASSUME IInv, [Next]_vars
    PROVE  /\ runs' \in [Runs -> RunType]
           /\ \A w \in Runs : \/ runs'[w] = runs[w]
                              \/ w \in Ticks /\ TickOnly(w)
                              \/ /\ w \in Sweeps \ Ticks
                                 /\ runs'[w].pc = "lookup" /\ runs'[w].at = 0
                              \/ RunStep(w)
<1>0. TypeOK /\ runs \in [Runs -> RunType]
  BY DEF IInv, TypeOK, RunType
<1>1. CASE runs' = runs
  BY <1>0, <1>1
<1>2. CASE \E r \in Reqs : RequestStep(r)
  <2>1. runs' = runs
    BY <1>2 DEF RequestStep, AskErase, AskExport, AskCancel, AskRectify, InsertErase, Cancel,
                Rectify, RecordRectify, Abandon
  <2> QED BY <1>1, <2>1
<1>3. CASE \E t \in Ticks : TickOnly(t)
  <2> PICK t \in Ticks : TickOnly(t)
    BY <1>3
  <2>1. RunEffect(t)
    BY TickSteps
  <2> QED BY <2>1 DEF RunEffect
<1>4. CASE \E s \in Sweeps : StartSweep(s)
  <2> PICK s \in Sweeps : StartSweep(s)
    BY <1>4
  <2>1. s \notin Ticks
    BY NdprAssumption
  <2> QED BY <1>0, <2>1, SweepTyped
<1>5. CASE \E w \in Runs : RunStep(w)
  <2> PICK w \in Runs : RunStep(w)
    BY <1>5
  <2>1. RunEffect(w)
    BY EraseRunSteps
  <2> QED BY <2>1 DEF RunEffect
<1>6. CASE (\E i : GraceEnds(i)) \/ Ages \/ UNCHANGED vars
  BY <1>1, <1>6 DEF GraceEnds, Ages, vars
<1> QED BY <1>2, <1>3, <1>4, <1>5, <1>6, StepShape

LEMMA ReqsMove ==
    ASSUME IInv, [Next]_vars
    PROVE  /\ reqs' \in [Reqs -> ReqType']
           /\ \A r \in Reqs : reqs'[r] = reqs[r] \/ ReqEffect(r)
<1>0. TypeOK /\ RowsGrow
  BY RowSteps DEF IInv
<1>1. CASE reqs' = reqs
  <2>1. reqs \in [Reqs -> ReqType] /\ ReqType \subseteq ReqType'
    BY <1>0, Grown DEF TypeOK, ReqType
  <2> QED BY <1>1, <2>1
<1>2. CASE \E r \in Reqs : RequestStep(r)
  <2> PICK r \in Reqs : RequestStep(r)
    BY <1>2
  <2>1. ReqEffect(r)
    BY <1>0, RequestSteps
  <2> QED BY <2>1 DEF ReqEffect
<1>3. CASE (\E t \in Ticks : TickOnly(t)) \/ (\E s \in Sweeps : StartSweep(s))
  <2>1. reqs' = reqs
    BY <1>3 DEF TickOnly, StartTick, Take, TickRectify, TickRecordRectify, TickExport, TickFail,
                StartSweep
  <2> QED BY <1>1, <2>1
<1>4. CASE \E w \in Runs : RunStep(w)
  <2>1. reqs' = reqs
    BY <1>4 DEF RunStep, Lookup, Suppress, Anonymise, Delete, Record, Throw, Die
  <2> QED BY <1>1, <2>1
<1>5. CASE (\E i : GraceEnds(i)) \/ Ages \/ UNCHANGED vars
  BY <1>1, <1>5 DEF GraceEnds, Ages, vars
<1> QED BY <1>2, <1>3, <1>4, <1>5, StepShape

-----------------------------------------------------------------------------
\* Every conjunct of the invariant is kept by every step.
LEMMA StepTypeOK == IInv /\ [Next]_vars => TypeOK'
<1> SUFFICES ASSUME IInv, [Next]_vars PROVE TypeOK'
  OBVIOUS
<1>0. TypeOK /\ RowsGrow
  BY RowSteps DEF IInv
<1>1. /\ user' \in UserType /\ suppressed' \subseteq Addresses
      /\ ops' \in 0 .. MaxOps /\ faults' \in 0 .. MaxFaults
  BY RestSteps
<1>2. rows' \in Seq(Row) /\ RunType \subseteq RunType'
  BY <1>0, Grown DEF RowsGrow
<1>3. runs' \in [Runs -> RunType'] /\ reqs' \in [Reqs -> ReqType']
  BY <1>2, RunsMove, ReqsMove
<1>4. ASSUME NEW t \in Ticks PROVE (runs'[t].at = 0) = (runs'[t].pc \in {"idle", "choose"})
  <2>1. t \in Runs /\ DOMAIN rows = 1 .. Len(rows) /\ Len(rows) \in Nat
    BY <1>0, Grown DEF Runs
  <2>2. CASE runs'[t] = runs[t]
    BY <1>0, <2>2 DEF TypeOK
  <2>3. CASE TickOnly(t)
    BY <2>1, <2>3, TickSteps
  <2>4. CASE RunStep(t)
    BY <2>1, <2>4, EraseRunSteps
  <2> QED BY <2>1, <2>2, <2>3, <2>4, RunsMove
<1> QED BY <1>1, <1>2, <1>3, <1>4 DEF TypeOK, UserType, RunType, ReqType

LEMMA StepUnique == IInv /\ [Next]_vars => Unique'
<1> SUFFICES ASSUME IInv, [Next]_vars, ~past'.crossed PROVE Unique'
  BY DEF Unique
<1>0. TypeOK /\ PastOK /\ RowsGrow /\ RowsEarned /\ UserEffect
  BY RowSteps, UserSteps DEF IInv
<1>1. /\ \A i, j \in DOMAIN rows : PendingErase(i) /\ PendingErase(j) => i = j
      /\ \A r, q \in Reqs : Inserting(r) /\ Inserting(q) => r = q
      /\ \A r \in Reqs : Inserting(r) => ~ActiveErase
  BY <1>0 DEF IInv, Unique, UserEffect
<1>2. ASSUME NEW i \in DOMAIN rows', PendingErase(i)'
      PROVE  \/ i \in DOMAIN rows /\ PendingErase(i)
             \/ i = Len(rows) + 1 /\ \E r \in Reqs : InsertErase(r)
  <2>1. CASE i \in DOMAIN rows
    BY <1>0, <1>2, <2>1 DEF RowsGrow, PendingErase
  <2>2. CASE i \notin DOMAIN rows
    BY <1>0, <1>2, <2>2 DEF RowsEarned
  <2> QED BY <2>1, <2>2
<1>3. ASSUME NEW r \in Reqs, Inserting(r)'
      PROVE  \/ Inserting(r) /\ ~InsertErase(r)
             \/ AskErase(r)
  <2>1. ~InsertErase(r)
    <3> SUFFICES ASSUME InsertErase(r) PROVE FALSE
      OBVIOUS
    <3>1. reqs' = [reqs EXCEPT ![r] = NoReq] /\ reqs \in [Reqs -> ReqType]
      BY <1>0 DEF InsertErase, ReqGoes, TypeOK, ReqType
    <3> QED BY <1>3, <3>1 DEF Inserting, NoReq
  <2>2. reqs'[r].pc = "insertErase"
    BY <1>3 DEF Inserting
  <2>3. CASE reqs'[r] = reqs[r]
    BY <2>1, <2>2, <2>3 DEF Inserting
  <2>4. CASE ReqEffect(r)
    BY <2>2, <2>4 DEF ReqEffect
  <2> QED BY <2>3, <2>4, ReqsMove
<1>4. ASSUME NEW r \in Reqs, AskErase(r)
      PROVE  ~ActiveErase /\ rows' = rows /\ \A q \in Reqs : ~Inserting(q)
  <2>1. past' = [past EXCEPT !.crossed = past.crossed \/ \E q \in Reqs : Inserting(q)]
    BY <1>4 DEF AskErase
  <2>2. past'.crossed = (past.crossed \/ \E q \in Reqs : Inserting(q))
    BY <1>0, <2>1 DEF PastOK
  <2> QED BY <1>4, <2>2 DEF AskErase
<1>5. ASSUME NEW i \in DOMAIN rows', NEW j \in DOMAIN rows', PendingErase(i)', PendingErase(j)'
      PROVE  i = j
  <2>1. CASE \E r \in Reqs : InsertErase(r)
    <3>1. ~ActiveErase
      BY <1>1, <2>1 DEF InsertErase
    <3>2. ~(i \in DOMAIN rows /\ PendingErase(i)) /\ ~(j \in DOMAIN rows /\ PendingErase(j))
      BY <3>1 DEF ActiveErase, PendingErase
    <3> QED BY <1>2, <1>5, <3>2
  <2>2. CASE ~\E r \in Reqs : InsertErase(r)
    BY <1>1, <1>2, <1>5, <2>2
  <2> QED BY <2>1, <2>2
<1>6. ASSUME NEW r \in Reqs, NEW q \in Reqs, Inserting(r)', Inserting(q)' PROVE r = q
  <2>1. CASE AskErase(r)
    <3>1. reqs' = [reqs EXCEPT ![r] = [NoReq EXCEPT !.pc = "insertErase"]]
      BY <2>1 DEF AskErase, ReqGoes
    <3>2. q # r => reqs'[q] = reqs[q]
      BY <1>0, <3>1 DEF TypeOK
    <3> QED BY <1>4, <1>6, <2>1, <3>2 DEF Inserting
  <2>2. CASE AskErase(q)
    <3>1. reqs' = [reqs EXCEPT ![q] = [NoReq EXCEPT !.pc = "insertErase"]]
      BY <2>2 DEF AskErase, ReqGoes
    <3>2. q # r => reqs'[r] = reqs[r]
      BY <1>0, <3>1 DEF TypeOK
    <3> QED BY <1>4, <1>6, <2>2, <3>2 DEF Inserting
  <2>3. CASE Inserting(r) /\ Inserting(q)
    BY <1>1, <2>3
  <2> QED BY <1>3, <1>6, <2>1, <2>2, <2>3
<1>7. ASSUME NEW r \in Reqs, Inserting(r)', NEW i \in DOMAIN rows', PendingErase(i)' PROVE FALSE
  <2>1. CASE AskErase(r)
    BY <1>4, <1>7, <2>1 DEF ActiveErase, PendingErase, Pending
  <2>2. CASE Inserting(r) /\ ~InsertErase(r)
    <3>1. ~ActiveErase
      BY <1>1, <2>2
    <3>2. ~(i \in DOMAIN rows /\ PendingErase(i))
      BY <3>1 DEF ActiveErase, PendingErase
    <3>3. PICK q \in Reqs : InsertErase(q)
      BY <1>2, <1>7, <3>2
    <3>4. q = r
      BY <1>1, <2>2, <3>3 DEF InsertErase
    <3> QED BY <2>2, <3>3, <3>4
  <2> QED BY <1>3, <1>7, <2>1, <2>2
<1>8. \A r \in Reqs : Inserting(r)' => ~ActiveErase'
  BY <1>7 DEF ActiveErase, PendingErase
<1> QED BY <1>5, <1>6, <1>8 DEF Unique

LEMMA StepKept == IInv /\ [Next]_vars => Kept'
<1> SUFFICES ASSUME IInv, [Next]_vars, NEW i \in past'.kept
    PROVE  i \in DOMAIN rows' /\ ~Pending(i)' /\ ~InHand(i)'
  BY DEF Kept
<1>0. TypeOK /\ PastOK /\ RowsGrow /\ Kept
  BY RowSteps DEF IInv
<1>1. CASE i \in past.kept
  <2>1. i \in DOMAIN rows /\ ~Pending(i) /\ ~InHand(i) /\ i # 0
    BY <1>0, <1>1, Grown DEF Kept
  <2>2. i \in DOMAIN rows' /\ ~Pending(i)'
    BY <1>0, <2>1 DEF RowsGrow
  <2>3. ASSUME NEW t \in Ticks PROVE i \notin runs'[t].todo \cup {runs'[t].at}
    <3>1. i \notin runs[t].todo \cup {runs[t].at} /\ t \in Runs /\ t \notin Sweeps
      BY <2>1, NdprAssumption DEF InHand, Runs
    <3>2. CASE RunEffect(t)
      BY <2>1, <3>1, <3>2 DEF RunEffect
    <3>3. TickOnly(t) => RunEffect(t)
      BY TickSteps
    <3>4. RunStep(t) => RunEffect(t)
      BY <3>1, EraseRunSteps
    <3> QED BY <3>1, <3>2, <3>3, <3>4, RunsMove
  <2> QED BY <2>2, <2>3 DEF InHand
<1>2. CASE i \notin past.kept
  <2>1. PICK r \in Reqs : Cancel(r)
    <3>1. past'.kept # past.kept
      BY <1>2
    <3>2. ASSUME NEW a, Write(a) PROVE past'.kept = past.kept
      <4>1. CASE a = None
        BY <3>2, <4>1 DEF Write
      <4>2. CASE a # None
        <5> DEFINE un == IF LookedUp THEN past.unlisted \cup {a} ELSE past.unlisted
                   re == past.rewritten \/ user.deletedAt # "never"
        <5>1. past' = [past EXCEPT !.unlisted = un, !.rewritten = re]
          BY <3>2, <4>2 DEF Write
        <5> HIDE DEF un, re
        <5> QED BY <1>0, <5>1 DEF PastOK
      <4> QED BY <4>1, <4>2
    <3>3. ASSUME NEW r \in Reqs, AskErase(r) PROVE past'.kept = past.kept
      <4>1. past' = [past EXCEPT !.crossed = past.crossed \/ \E q \in Reqs : Inserting(q)]
        BY <3>3 DEF AskErase
      <4> QED BY <1>0, <4>1 DEF PastOK
    <3>4. ASSUME NEW w \in Runs, Suppress(w) PROVE past'.kept = past.kept
      <4>1. past' = past \/ past' = [past EXCEPT !.unlisted = past.unlisted \cup {runs[w].seen}]
        BY <3>4 DEF Suppress
      <4> QED BY <1>0, <4>1 DEF PastOK
    <3>5. CASE \E r \in Reqs : RequestStep(r)
      BY <3>1, <3>2, <3>3, <3>5 DEF RequestStep, AskExport, AskCancel, AskRectify, InsertErase,
             Rectify, RecordRectify, Abandon
    <3>6. CASE \E t \in Ticks : TickOnly(t)
      BY <3>1, <3>2, <3>6 DEF TickOnly, StartTick, Take, TickRectify, TickRecordRectify,
             TickExport, TickFail
    <3>7. CASE \E w \in Runs : RunStep(w)
      BY <3>1, <3>4, <3>7 DEF RunStep, Lookup, Anonymise, Delete, Record, Throw, Die
    <3>8. CASE (\E s \in Sweeps : StartSweep(s)) \/ (\E j : GraceEnds(j)) \/ Ages \/ UNCHANGED vars
      BY <3>1, <3>8 DEF StartSweep, GraceEnds, Ages, vars
    <3> QED BY <3>5, <3>6, <3>7, <3>8, StepShape
  <2> DEFINE j == reqs[r].at
             ke == IF rows[j].kind = "erase" /\ Pending(j) /\ ~rows[j].due /\ ~InHand(j)
                   THEN past.kept \cup {j} ELSE past.kept
  <2>2. past' = [past EXCEPT !.kept = ke]
    BY <2>1 DEF Cancel
  <2> HIDE DEF ke
  <2>3. past'.kept = ke
    BY <1>0, <2>2 DEF PastOK
  <2>4. i = j /\ ~InHand(j)
    BY <1>2, <2>3 DEF ke
  <2>5. j \in DOMAIN rows /\ SetStatus(j, "cancelled") /\ runs' = runs /\ "cancelled" \in Status
    BY <2>1 DEF Cancel, IInv, ReqRows, Status
  <2>6. j \in DOMAIN rows' /\ rows'[j].status = "cancelled"
    BY <1>0, <2>5, SetStatusEffect
  <2> QED BY <2>4, <2>5, <2>6 DEF InHand, Pending
<1> QED BY <1>1, <1>2

LEMMA StepRows == IInv /\ [Next]_vars => TickRows' /\ ReqRows'
<1> SUFFICES ASSUME IInv, [Next]_vars PROVE TickRows' /\ ReqRows'
  OBVIOUS
<1>0. TypeOK /\ RowsGrow /\ TickRows /\ ReqRows
  BY RowSteps DEF IInv
<1>1. ASSUME NEW i \in DOMAIN rows PROVE i \in DOMAIN rows' /\ rows'[i].kind = rows[i].kind
  BY <1>0 DEF RowsGrow
<1>2. ASSUME NEW t \in Ticks
      PROVE  /\ runs'[t].pc \in EraseLabels => rows'[runs'[t].at].kind = "erase"
             /\ runs'[t].pc \in {"rectify", "recordRectify"}
                    => rows'[runs'[t].at].kind = "rectify"
  <2>1. t \in Runs /\ t \notin Sweeps
    BY NdprAssumption DEF Runs
  <2>2. CASE runs'[t] = runs[t]
    <3>1. runs[t].pc \notin {"idle", "choose"} => runs[t].at \in DOMAIN rows
      BY <1>0, Typed
    <3> QED BY <1>0, <1>1, <2>2, <3>1 DEF TickRows, EraseLabels
  <2>3. CASE TickOnly(t)
    BY <1>1, <2>3, TickSteps DEF EraseLabels
  <2>4. CASE RunStep(t)
    <3>1. CASE runs'[t].pc \in EraseLabels
      <4>1. runs[t].pc \in EraseLabels /\ runs'[t].at = runs[t].at /\ runs'[t].at \in DOMAIN rows
        BY <2>1, <2>4, <3>1, EraseRunSteps DEF EraseLabels
      <4> QED BY <1>0, <1>1, <3>1, <4>1 DEF TickRows, EraseLabels
    <3>2. CASE runs'[t].pc \notin EraseLabels
      BY <2>1, <2>4, <3>2, EraseRunSteps
    <3> QED BY <3>1, <3>2
  <2> QED BY <2>1, <2>2, <2>3, <2>4, RunsMove
<1>3. ASSUME NEW r \in Reqs
      PROVE  /\ reqs'[r].pc \in {"cancel", "rectify", "recordRectify"} => reqs'[r].at \in DOMAIN rows'
             /\ reqs'[r].pc \in {"rectify", "recordRectify"} => rows'[reqs'[r].at].kind = "rectify"
  <2>1. CASE reqs'[r] = reqs[r]
    BY <1>0, <1>1, <2>1 DEF ReqRows
  <2>2. CASE ReqEffect(r)
    BY <2>2 DEF ReqEffect
  <2> QED BY <2>1, <2>2, ReqsMove
<1> QED BY <1>2, <1>3 DEF TickRows, ReqRows

LEMMA StepApplied == IInv /\ [Next]_vars => Applied'
<1> SUFFICES ASSUME IInv, [Next]_vars PROVE Applied'
  OBVIOUS
<1>0. TypeOK /\ RowsGrow /\ RowsEarned /\ UserEffect /\ Applied /\ user \in UserType
  BY RowSteps, UserSteps DEF IInv, TypeOK, UserType
<1>1. user'.deletedAt # "never" => user'.email = Erased \/ past'.rewritten
  BY <1>0 DEF Applied, UserEffect
<1>2. ASSUME NEW w \in Runs
      PROVE  /\ runs'[w].pc \in {"delete", "record"} => user'.deletedAt # "never"
             /\ runs'[w].pc = "record" => ~user'.belongings
  <2>1. CASE runs'[w] = runs[w]
    BY <1>0, <2>1 DEF Applied, UserEffect
  <2>2. CASE w \in Ticks /\ TickOnly(w)
    BY <2>2, TickSteps
  <2>3. CASE RunStep(w)
    <3>1. CASE Anonymise(w) /\ runs'[w].pc = "delete"
      <4>1. user' = [user EXCEPT !.email = Erased, !.deletedAt = "recent"]
        BY <3>1 DEF Anonymise
      <4>2. user'.deletedAt = "recent"
        BY <1>0, <4>1 DEF UserType
      <4> QED BY <3>1, <4>2
    <3>2. CASE Delete(w) /\ runs'[w].pc = "record"
      <4>1. user' = [user EXCEPT !.belongings = FALSE] /\ runs[w].pc = "delete"
        BY <3>2 DEF Delete
      <4>2. user'.belongings = FALSE
        BY <1>0, <4>1 DEF UserType
      <4> QED BY <1>0, <4>1, <4>2 DEF Applied, UserEffect
    <3>3. CASE runs'[w].pc \notin {"delete", "record"}
      BY <3>3
    <3> QED BY <2>3, <3>1, <3>2, <3>3, EraseRunSteps
  <2> QED BY <2>1, <2>2, <2>3, RunsMove
<1>3. ASSUME NEW i \in DOMAIN rows', rows'[i].kind = "erase", rows'[i].status = "completed"
      PROVE  ~user'.belongings /\ user'.deletedAt # "never"
  <2>1. CASE i \in DOMAIN rows /\ rows[i].status = "completed"
    BY <1>0, <1>3, <2>1 DEF Applied, UserEffect, RowsGrow
  <2>2. CASE \E t \in Ticks : Record(t)
    <3>1. PICK t \in Ticks : Record(t)
      BY <2>2
    <3>2. t \in Runs /\ runs[t].pc = "record"
      BY <3>1 DEF Record, Runs
    <3> QED BY <1>0, <3>2 DEF Applied, UserEffect
  <2> QED BY <1>0, <1>3, <2>1, <2>2 DEF RowsEarned
<1> QED BY <1>1, <1>2, <1>3 DEF Applied

LEMMA StepListed == IInv /\ [Next]_vars => Listed'
<1> SUFFICES ASSUME IInv, [Next]_vars, NEW w \in Runs
    PROVE  /\ runs'[w].pc = "suppress"
                  => user'.email \in {runs'[w].seen, Erased} \cup past'.unlisted
           /\ runs'[w].pc = "anonymise"
                  => user'.email \in suppressed' \cup {Erased} \cup past'.unlisted
  BY DEF Listed
<1>0. TypeOK /\ PastOK /\ Listed /\ UserEffect
  BY UserSteps DEF IInv
<1>1. CASE runs'[w] = runs[w]
  <2>1. runs[w].pc \in {"suppress", "anonymise"} => LookedUp
    BY DEF LookedUp
  <2>2. /\ past.unlisted \subseteq past'.unlisted /\ suppressed \subseteq suppressed'
        /\ \/ user'.email = user.email
           \/ user'.email = Erased
           \/ LookedUp => user'.email \in past'.unlisted
    BY <1>0 DEF UserEffect
  <2> QED BY <1>0, <1>1, <2>1, <2>2 DEF Listed
<1>2. CASE w \in Ticks /\ TickOnly(w)
  BY <1>2, TickSteps
<1>3. CASE RunStep(w)
  <2>1. CASE Lookup(w) /\ runs'[w].pc = "suppress" /\ user.email \in {Erased, runs'[w].seen}
    BY <2>1 DEF Lookup
  <2>2. CASE Suppress(w) /\ runs'[w].pc = "anonymise"
    <3>1. user' = user /\ runs[w].pc = "suppress"
      BY <2>2 DEF Suppress
    <3>2. user.email \in {runs[w].seen, Erased} \cup past.unlisted /\ user.email # None
      <4>1. user.email \in Addresses \cup {Erased}
        BY <1>0 DEF TypeOK
      <4>2. None # Erased /\ None \notin Addresses
        BY NdprAssumption DEF None, Erased
      <4> QED BY <1>0, <3>1, <4>1, <4>2 DEF Listed
    <3>3. CASE suppressed' = suppressed \cup ({runs[w].seen} \ {None}) /\ past' = past
      BY <2>2, <3>1, <3>2, <3>3
    <3>4. CASE past' = [past EXCEPT !.unlisted = past.unlisted \cup {runs[w].seen}]
      <4>1. past'.unlisted = past.unlisted \cup {runs[w].seen}
        BY <1>0, <3>4 DEF PastOK
      <4> QED BY <2>2, <3>1, <3>2, <4>1
    <3> QED BY <2>2, <3>3, <3>4 DEF Suppress
  <2>3. CASE runs'[w].pc \notin {"suppress", "anonymise"}
    BY <2>3
  <2> QED BY <1>3, <2>1, <2>2, <2>3, EraseRunSteps
<1> QED BY <1>1, <1>2, <1>3, RunsMove

-----------------------------------------------------------------------------
\* The invariant that the rest follows from: how far each run is tells how far the
\* erasure is.
THEOREM Invariance == Spec => []IInv
<1>1. Init => IInv
  BY InitInv
<1>2. IInv /\ [Next]_vars => IInv'
  <2> SUFFICES ASSUME IInv, [Next]_vars PROVE IInv'
    OBVIOUS
  <2>1. TypeOK' /\ PastOK' /\ Unique' /\ Kept'
    BY StepTypeOK, RestSteps, StepUnique, StepKept
  <2>2. TickRows' /\ ReqRows' /\ Applied' /\ Listed'
    BY StepRows, StepApplied, StepListed
  <2> QED BY <2>1, <2>2 DEF IInv
<1> QED BY <1>1, <1>2, PTL DEF Spec

\* Every variable keeps its type, and a tick has a row in hand exactly in the branches
\* of its loop.
THEOREM TypeCorrect == Spec => []TypeOK
<1>1. IInv => TypeOK
  BY DEF IInv
<1> QED BY <1>1, Invariance, PTL

\* What the table says of an erasure is true: a completed one has been applied to the
\* end, one cancelled in time is in no tick's hands, and the pending one is the only
\* one (processDueNdprRequests, the routes of ndpr.ts).
THEOREM RecordTruth == Spec => []RecordIsTrue
<1>1. IInv => RecordIsTrue
  <2> SUFFICES ASSUME IInv PROVE RecordIsTrue
    OBVIOUS
  <2>1. CompletedMeansErased
    BY DEF IInv, Applied, CompletedMeansErased
  <2>2. CancelledIsKept
    BY DEF IInv, Kept, CancelledIsKept
  <2>3. OnePendingErase
    BY DEF IInv, Unique, PendingErase, OnePendingErase
  <2> QED BY <2>1, <2>2, <2>3 DEF RecordIsTrue
<1> QED BY <1>1, Invariance, PTL

\* Whoever overlaps or dies, an address that the anonymiser overwrites is suppressed,
\* or is known to have slipped by (applyErase).
THEOREM WipedListed == Spec => WipedIsSuppressed
<1>1. IInv /\ [Next]_vars
          => [(user.email # Erased /\ user'.email = Erased)
                => user.email \in suppressed \cup past.unlisted]_vars
  <2> SUFFICES ASSUME IInv, [Next]_vars, user.email # Erased, user'.email = Erased
      PROVE  user.email \in suppressed \cup past.unlisted
    OBVIOUS
  <2>1. Erased \notin Addresses
    BY NdprAssumption
  <2>2. PICK w \in Runs : Anonymise(w)
    BY <2>1, UserSteps DEF UserEffect
  <2>3. runs[w].pc = "anonymise"
    BY <2>2 DEF Anonymise
  <2> QED BY <2>3 DEF IInv, Listed
<1> QED BY <1>1, Invariance, PTL DEF Spec, WipedIsSuppressed
=============================================================================
