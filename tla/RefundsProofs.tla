---------------------------- MODULE RefundsProofs ----------------------------
(***************************************************************************)
(* The refund lock, for any number of requests, deliveries, sweeps,        *)
(* attempts and deaths.                                                    *)
(*                                                                         *)
(* As long as nobody clears the lock while something is at stake under it  *)
(* (Lock), one request at most is on its way to the gateway and the gateway*)
(* has one attempt at most; that is why the money goes back once.  That    *)
(* the tables are true rests on what an actor has seen when it gets to     *)
(* finalize (Backed, Finalized) or to record a failure (Recorded).         *)
(***************************************************************************)
EXTENDS Refunds, FiniteSetTheorems, TLAPS

\* The gateway's refusals are true: a refund that it reports as failed moved no
\* money ("a clean result.ok === false ... that the gateway acknowledges as
\* not-charged").
TrueRefusals == \A c \in Scenes : "lost" \notin c.replies

\* The gateway repeats an event, but does not deliver it twice at a time.
OneDelivery ==
    \A d, e \in Deliveries :
        pc[d] # "idle" /\ pc[e] # "idle" /\ event[d] = event[e] => d = e

Kinds  == {"refund", "clawback"}
States == {"pending", "processed", "failed"}
Entry  == [kind : Kinds, state : States]

\* What each kind of actor does.
Roles ==
    /\ \A a \in Requests :
          pc[a] \in {"idle", "checked", "locked", "inserted", "called", "release",
                     "claw", "order", "intent", "row"}
    /\ \A a \in Deliveries :
          pc[a] \in {"idle", "reopen", "opened", "mark", "unlock", "close",
                     "claw", "order", "intent", "row"}
    /\ \A a \in Sweeps : pc[a] \in {"idle", "found", "unlock", "claw", "order", "intent"}

Attempts == {i \in DOMAIN rows : rows[i].kind = "refund"}
Locked   == {a \in Requests : pc[a] = "locked"}

\* The table holds the attempts that were started, and the clawback once.
Counted ==
    /\ Cardinality(Attempts) + Cardinality(Locked) <= MaxTries
    /\ Len(rows) = Cardinality(Attempts) + IF HasClawback THEN 1 ELSE 0

\* A request that has inserted its attempt knows which it is.
RowKnown == \A a \in Requests : pc[a] \in {"inserted", "called"} => row[a] \in DOMAIN rows

Typed == TypeOK /\ Roles /\ Counted /\ RowKnown

\* Who finalizes has seen that the money went back.
Finalizing(a) == pc[a] \in {"claw", "order", "intent", "row"}

Backed ==
    /\ \A d \in Deliveries :
          /\ pc[d] # "idle" => event[d] \in Events /\ Emitted(event[d])
          /\ pc[d] \in {"mark", "unlock"} => event[d][2] = "failed"
    /\ \A a \in Requests : pc[a] = "called" /\ reply[a] = "processed" => moved # {}
    /\ \A a \in Actors : Finalizing(a) => moved # {}
    /\ \A i \in DOMAIN rows : rows[i].state = "processed" => moved # {}
    /\ status = "refunded" => moved # {}

\* Who closes the attempt has been through the clawback and the intent.
Finalized ==
    /\ \A a \in Actors :
          /\ pc[a] \in {"order", "intent", "row"} => clawed
          /\ pc[a] = "row" => intent = "refunded"
    /\ \A i \in DOMAIN rows : rows[i].state = "processed" => clawed /\ intent = "refunded"

\* Only an attempt that was accepted to be settled later is settled or bounced later.
Late == "pending" \in scene.replies \/ inflight \cup bounced = {}

\* Nothing is at stake under a lock that is free; under one that is held, one attempt.
Lock ==
    \/ overtaken
    \/ /\ \A i, j \in moved \cup inflight : i = j
       /\ moved \cup inflight # {} => lock # "free"
       /\ \A a \in Requests : Charging(a) => lock # "free" /\ moved \cup inflight = {}
       /\ \A a, b \in Requests : Charging(a) /\ Charging(b) => a = b

\* A request's attempt is its own and, until the gateway was asked, nothing the gateway
\* has; a refund that it settles or gives up on is none that it still has.
Asked(a) == pc[a] = "inserted" \/ (pc[a] = "called" /\ reply[a] = "failed")
OwnRow ==
    /\ \A a, b \in Requests :
          {pc[a], pc[b]} \subseteq {"inserted", "called"} /\ row[a] = row[b] => a = b
    /\ \A a \in Requests : Asked(a) => row[a] \notin moved \cup inflight \cup bounced
    /\ moved \cup inflight \cup bounced \subseteq DOMAIN rows
    /\ moved \cap inflight = {} /\ moved \cap bounced = {} /\ inflight \cap bounced = {}

\* The gateway has given up on i and the shop has not got as far as recording it.
Untold(i) ==
    \/ hook[<<i, "failed">>] = "none"
    \/ \E d \in Deliveries : pc[d] \in {"reopen", "opened", "mark"} /\ event[d] = <<i, "failed">>

\* An event is worked on by a delivery from its arrival to its end, and what it is about
\* is at stake until the attempt is recorded as failed.
OnePerEvent ==
    \/ scene.deaths > 0
    \/ \A e \in Events : hook[e] = "open" => \E d \in Deliveries : pc[d] # "idle" /\ event[d] = e

Repeats == "pending" \in scene.replies /\ scene.deaths > 0
Recorded ==
    \/ overtaken \/ Repeats
    \/ /\ \A i \in DOMAIN rows : rows[i].state = "failed" => i \notin moved \cup inflight
       /\ \A a \in Requests : pc[a] = "inserted" => rows[row[a]].state # "failed"
       /\ \A i \in bounced :
             Untold(i) =>
                /\ lock # "free" /\ moved \cup inflight = {}
                /\ \A a \in Requests : ~Charging(a)
                /\ rows[i].state # "failed" /\ hook[<<i, "failed">>] # "done"
                /\ \A j \in bounced : Untold(j) => i = j

Hooked ==
    /\ \A e \in Events : hook[e] # "none" /\ e[2] = "failed" => e[1] \in bounced
    /\ \A d \in Deliveries : pc[d] # "idle" => hook[event[d]] # "none"

\* A gateway that settles at once, and one sweep: it clears a stale lock, under which
\* nobody is at work, after an attempt that failed.
Alone ==
    \/ "pending" \in scene.replies \/ \E s, t \in Sweeps : s # t
    \/ /\ ~overtaken
       /\ lock = "stale" => \A a \in Requests : pc[a] \in {"idle", "checked"}
       /\ \A s \in Sweeps :
             /\ pc[s] \in {"found", "unlock"} => lock = "stale"
             /\ pc[s] = "unlock" => moved = {}
       /\ \A i \in moved, j \in DOMAIN rows : i <= j => rows[j].state # "failed"
       /\ \A a \in Requests :
             pc[a] = "inserted" => row[a] = Len(rows) /\ rows[row[a]].state # "failed"

\* What keeps the money, and what keeps the records.
Core ==
    /\ Typed /\ Backed /\ Finalized /\ Late /\ Lock /\ OwnRow
    /\ OnePerEvent /\ Hooked /\ Alone

IInv == Core /\ Recorded

-----------------------------------------------------------------------------
(* The table of attempts.                                                  *)

LEMMA FiniteAttempts ==
    ASSUME TypeOK
    PROVE  /\ IsFiniteSet(Attempts) /\ IsFiniteSet(Locked)
           /\ Cardinality(Attempts) \in Nat /\ Cardinality(Locked) \in Nat
<1>1. DOMAIN rows = 1 .. Len(rows) /\ Len(rows) \in Nat
  BY DEF TypeOK
<1>2. IsFiniteSet(1 .. Len(rows))
  BY <1>1, FS_Interval
<1>3. IsFiniteSet(Attempts)
  BY <1>1, <1>2, FS_Subset DEF Attempts
<1>4. IsFiniteSet(Locked)
  BY FS_Subset, RefundsAssumption DEF Locked
<1>. QED  BY <1>3, <1>4, FS_CardinalityType

\* An UPDATE of a row writes its state and nothing else.
LEMMA RowUpdate ==
    ASSUME TypeOK, NEW i, NEW st \in States, SetRow(i, st)
    PROVE  /\ rows' \in Seq(Entry) /\ Len(rows') = Len(rows)
           /\ DOMAIN rows' = DOMAIN rows
           /\ \A j \in DOMAIN rows : rows'[j].kind = rows[j].kind
           /\ \A j \in DOMAIN rows : j # i => rows'[j] = rows[j]
           /\ i \in DOMAIN rows => rows'[i].state = st
<1>1. rows \in Seq(Entry) /\ rows' = [rows EXCEPT ![i].state = st]
  BY DEF TypeOK, SetRow, Entry, Kinds, States
<1>2. \A j \in DOMAIN rows : rows[j] \in Entry
  BY <1>1
<1>3. DOMAIN rows' = DOMAIN rows
  BY <1>1
<1>4. \A j \in DOMAIN rows : j # i => rows'[j] = rows[j]
  BY <1>1
<1>5. ASSUME i \in DOMAIN rows
      PROVE  rows'[i] = [rows[i] EXCEPT !.state = st]
  BY <1>1, <1>5
<1>6. \A j \in DOMAIN rows : rows'[j] \in Entry /\ rows'[j].kind = rows[j].kind
  BY <1>2, <1>4, <1>5 DEF Entry
<1>7. rows' \in Seq(Entry) /\ Len(rows') = Len(rows)
  <2>1. DOMAIN rows = 1 .. Len(rows) /\ Len(rows) \in Nat
    BY <1>1
  <2>2. rows' \in [1 .. Len(rows) -> Entry]
    BY <1>1, <1>6, <2>1
  <2>. QED  BY <2>1, <2>2
<1>. QED  BY <1>2, <1>3, <1>4, <1>5, <1>6, <1>7 DEF Entry

\* An INSERT appends a row.
LEMMA RowInsert ==
    ASSUME TypeOK, NEW e \in Entry, rows' = Append(rows, e)
    PROVE  /\ rows' \in Seq(Entry) /\ Len(rows') = Len(rows) + 1
           /\ DOMAIN rows' = DOMAIN rows \cup {Len(rows) + 1}
           /\ Len(rows) + 1 \notin DOMAIN rows
           /\ \A j \in DOMAIN rows : rows'[j] = rows[j]
           /\ rows'[Len(rows) + 1] = e
<1>1. rows \in Seq(Entry)
  BY DEF TypeOK, Entry, Kinds, States
<1>. QED  BY <1>1

\* Rows that keep their kinds keep their counts.
LEMMA SameCounts ==
    ASSUME Typed, DOMAIN rows' = DOMAIN rows, Len(rows') = Len(rows),
           \A j \in DOMAIN rows : rows'[j].kind = rows[j].kind,
           \A a \in Requests : pc'[a] = "locked" <=> pc[a] = "locked"
    PROVE  Counted'
<1>1. Attempts' = Attempts /\ Locked' = Locked /\ (HasClawback' <=> HasClawback)
  BY DEF Attempts, Locked, HasClawback
<1>. QED  BY <1>1 DEF Typed, Counted

LEMMA InitTyped == Init => Typed
<1> SUFFICES ASSUME Init PROVE Typed
  OBVIOUS
<1> USE RefundsAssumption DEF Init
<1>1. TypeOK
  <2>1. scene \in Scenes /\ scene \in Scene /\ scene.left = scene.deaths
    OBVIOUS
  <2>2. \E c \in Scenes :
           scene \in [replies : {c.replies}, deaths : {c.deaths}, left : 0 .. c.deaths]
    <3>. WITNESS scene \in Scenes
    <3>. QED  BY <2>1 DEF Scene
  <2>3. rows \in Seq([kind : Kinds, state : States]) /\ Len(rows) = 0
    OBVIOUS
  <2>4. hook \in [Events -> {"none", "open", "done"}]
    OBVIOUS
  <2>5. row \in [Actors -> RowIds \cup {0}] /\ event \in [Actors -> Events \cup {NoEvent}]
    OBVIOUS
  <2>6. /\ pc \in [Actors -> {"idle", "checked", "locked", "inserted", "called", "release",
                             "reopen", "opened", "mark", "unlock", "close", "found",
                             "claw", "order", "intent", "row"}]
        /\ reply \in [Actors -> {"none", "processed", "pending", "failed"}]
    OBVIOUS
  <2>7. Len(rows) <= MaxTries + 1 /\ moved \subseteq RowIds /\ inflight \subseteq RowIds
        /\ bounced \subseteq RowIds
    BY <2>3
  <2>. QED  BY <2>2, <2>3, <2>4, <2>5, <2>6, <2>7 DEF TypeOK, Kinds, States
<1>2. Roles /\ RowKnown
  BY DEF Roles, RowKnown, Actors
<1>3. Counted
  <2>1. Attempts = {} /\ Locked = {} /\ ~HasClawback /\ Len(rows) = 0
    BY DEF Attempts, Locked, HasClawback, Actors
  <2>. QED  BY <2>1, FS_EmptySet DEF Counted
<1>. QED  BY <1>1, <1>2, <1>3 DEF Typed

-----------------------------------------------------------------------------
(* Types.                                                                  *)

\* A step that leaves the table alone, and nobody with the lock just taken.
LEMMA TableAside ==
    ASSUME Typed, UNCHANGED rows,
           \A a \in Requests : pc'[a] = "locked" <=> pc[a] = "locked"
    PROVE  Counted'
  BY SameCounts

LEMMA AroundTyped ==
    ASSUME Typed,
           \/ \E i \in RowIds : Settle(i)
           \/ LockAges \/ OrderDelivered \/ CancelCheck \/ CancelWrite
           \/ UNCHANGED vars
    PROVE  Typed'
<1> USE DEF Settle, LockAges, OrderDelivered, CancelCheck, CancelWrite, vars,
            database, gateway, ghost, actor
<1>1. UNCHANGED <<rows, clawed, hook, scene, overtaken, pc, row, reply, event>>
  OBVIOUS
<1>2. TypeOK'
  <2>1. /\ status' \in {"paid", "delivered", "cancelled", "refunded"}
        /\ lock' \in {"free", "fresh", "stale"} /\ UNCHANGED intent
        /\ cancelling' \in BOOLEAN
    BY DEF Typed, TypeOK
  <2>2. moved' \subseteq RowIds /\ inflight' \subseteq RowIds /\ bounced' \subseteq RowIds
    BY DEF Typed, TypeOK
  <2>. QED  BY <1>1, <2>1, <2>2 DEF Typed, TypeOK
<1>3. Roles' /\ RowKnown'
  BY <1>1 DEF Typed, Roles, RowKnown
<1>4. Counted'
  BY <1>1, TableAside
<1>. QED  BY <1>2, <1>3, <1>4 DEF Typed

LEMMA DieTyped ==
    ASSUME Typed, NEW a \in Actors, Die(a) \/ InsertThrows(a)
    PROVE  Typed'
<1> USE DEF Die, InsertThrows, Finish, Goto, database, gateway
<1>1. UNCHANGED <<database, cancelling, gateway, overtaken>>
  OBVIOUS
<1>2. scene' = [scene EXCEPT !.left = @ - 1] /\ scene.left > 0
  OBVIOUS
<1>3. \E c \in Scenes :
         scene' \in [replies : {c.replies}, deaths : {c.deaths}, left : 0 .. c.deaths]
  <2>1. PICK c \in Scenes :
              scene \in [replies : {c.replies}, deaths : {c.deaths}, left : 0 .. c.deaths]
    BY DEF Typed, TypeOK
  <2>2. c.deaths \in Nat
    BY RefundsAssumption DEF Scene
  <2>. QED  BY <1>2, <2>1, <2>2
<1>4. /\ row' \in [Actors -> RowIds \cup {0}] /\ event' \in [Actors -> Events \cup {NoEvent}]
      /\ reply' \in [Actors -> {"none", "processed", "pending", "failed"}]
      /\ \/ pc' = [pc EXCEPT ![a] = "idle"]
         \/ pc[a] = "locked" /\ pc' = [pc EXCEPT ![a] = "release"]
  BY DEF Typed, TypeOK
<1>5. TypeOK'
  BY <1>1, <1>3, <1>4 DEF Typed, TypeOK
<1>6. Roles'
  BY <1>4, RefundsAssumption DEF Typed, TypeOK, Roles, Actors
<1>7. RowKnown'
  <2>1. \A b \in Requests : pc'[b] \in {"inserted", "called"} => pc'[b] = pc[b] /\ row'[b] = row[b]
    BY <1>4 DEF Typed, TypeOK, Actors
  <2>. QED  BY <1>1, <2>1 DEF Typed, RowKnown
<1>8. Counted'
  <2>1. Attempts' = Attempts /\ (HasClawback' <=> HasClawback)
    BY <1>1 DEF Attempts, HasClawback
  <2>3. Locked' \subseteq Locked
    BY <1>4 DEF Typed, TypeOK, Locked, Actors
  <2>2. Cardinality(Locked') \in Nat /\ Cardinality(Locked') <= Cardinality(Locked)
    BY <2>3, FiniteAttempts, FS_Subset, FS_CardinalityType DEF Typed
  <2>. QED  BY <1>1, <2>1, <2>2, FiniteAttempts, RefundsAssumption DEF Typed, Counted
<1>. QED  BY <1>5, <1>6, <1>7, <1>8 DEF Typed

\* A step of an actor that neither takes the lock nor inserts a row.
LEMMA MoveTyped ==
    ASSUME Typed, NEW a \in Actors, TypeOK', pc[a] # "locked",
           NEW label, pc' = [pc EXCEPT ![a] = label], label # "locked",
           Roles', DOMAIN rows' = DOMAIN rows, Len(rows') = Len(rows),
           \A j \in DOMAIN rows : rows'[j].kind = rows[j].kind,
           \A b \in Requests : pc'[b] \in {"inserted", "called"} =>
              pc[b] \in {"inserted", "called"} /\ row'[b] = row[b]
    PROVE  Typed'
<1>1. \A b \in Requests : pc'[b] = "locked" <=> pc[b] = "locked"
  BY DEF Typed, TypeOK, Actors
<1>2. Counted'
  BY <1>1, SameCounts
<1>3. RowKnown'
  BY DEF Typed, RowKnown
<1>. QED  BY <1>2, <1>3 DEF Typed

LEMMA BeginTyped ==
    ASSUME Typed, NEW a \in Actors, Begin(a)
    PROVE  Typed'
<1> USE DEF database, gateway, ghost, actor, Goto
<1>1. CASE RequestCheck(a)
  <2>1. TypeOK' /\ Roles'
    BY <1>1, RefundsAssumption DEF RequestCheck, Typed, TypeOK, Roles, Actors
  <2>. QED  BY <1>1, <2>1, MoveTyped DEF RequestCheck, Typed, TypeOK, Actors
<1>2. CASE SweepFind(a)
  <2>1. TypeOK' /\ Roles'
    BY <1>2, RefundsAssumption DEF SweepFind, Typed, TypeOK, Roles, Actors
  <2>. QED  BY <1>2, <2>1, MoveTyped DEF SweepFind, Typed, TypeOK, Actors
<1>3. ASSUME NEW e \in Events, Deliver(a, e) PROVE Typed'
  <2>1. /\ pc[a] = "idle" /\ a \in Deliveries
        /\ \E label \in {"opened", "reopen"} : pc' = [pc EXCEPT ![a] = label]
        /\ event' = [event EXCEPT ![a] = e]
        /\ hook' = [hook EXCEPT ![e] = IF @ = "none" THEN "open" ELSE @]
        /\ UNCHANGED <<status, lock, intent, rows, clawed, cancelling, gateway, ghost,
                       row, reply>>
    BY <1>3 DEF Deliver
  <2>2. hook' \in [Events -> {"none", "open", "done"}]
    BY <2>1 DEF Typed, TypeOK
  <2>3. TypeOK'
    BY <2>1, <2>2 DEF Typed, TypeOK
  <2>4. Roles'
    BY <2>1, RefundsAssumption DEF Typed, TypeOK, Roles, Actors
  <2>5. PICK label \in {"opened", "reopen"} : pc' = [pc EXCEPT ![a] = label]
    BY <2>1
  <2>6. \A b \in Requests : pc'[b] \in {"inserted", "called"} =>
           pc[b] \in {"inserted", "called"} /\ row'[b] = row[b]
    BY <2>1, <2>5 DEF Typed, TypeOK, Actors
  <2>. QED  BY <2>1, <2>3, <2>4, <2>5, <2>6, MoveTyped
<1>. QED  BY <1>1, <1>2, <1>3 DEF Begin

LEMMA TakeLockTyped ==
    ASSUME Typed, NEW a \in Actors, TakeLock(a)
    PROVE  Typed'
<1> USE DEF TakeLock, Goto, Finish, database, gateway, ghost, actor
<1>1. pc[a] = "checked" /\ a \in Requests
  BY DEF Typed, Roles, Actors
<1>2. /\ UNCHANGED <<status, intent, rows, clawed, hook, cancelling, gateway, ghost>>
      /\ lock' \in {"fresh", lock}
      /\ pc' \in {[pc EXCEPT ![a] = "locked"], [pc EXCEPT ![a] = "idle"]}
      /\ row' \in {row, [row EXCEPT ![a] = 0]}
      /\ event' \in {event, [event EXCEPT ![a] = NoEvent]}
      /\ reply' \in {reply, [reply EXCEPT ![a] = "none"]}
  OBVIOUS
<1> HIDE DEF TakeLock
<1>3. TypeOK'
  BY <1>2 DEF Typed, TypeOK
<1>4. Roles'
  <2>0. PICK label \in {"locked", "idle"} : pc' = [pc EXCEPT ![a] = label]
    BY <1>2
  <2>1. \A b \in Actors : pc'[b] = pc[b] \/ (b = a /\ pc'[b] \in {"locked", "idle"})
    BY <2>0 DEF Typed, TypeOK
  <2>2. a \notin Deliveries /\ a \notin Sweeps
    BY <1>1, RefundsAssumption
  <2>3. \A b \in Deliveries \cup Sweeps : pc'[b] = pc[b]
    BY <2>1, <2>2 DEF Actors
  <2>4. \A b \in Requests : pc'[b] = pc[b] \/ pc'[b] \in {"locked", "idle"}
    BY <2>1 DEF Actors
  <2>. QED  BY <2>3, <2>4 DEF Typed, Roles
<1>5. RowKnown'
  BY <1>1, <1>2 DEF Typed, TypeOK, RowKnown, Actors
<1>6. Counted'
  <2>1. Cardinality(Attempts) + Cardinality(Locked) < MaxTries
    BY DEF TakeLock, Started, Attempts, Locked
  <2>2. Attempts' = Attempts /\ (HasClawback' <=> HasClawback)
    BY <1>2 DEF Attempts, HasClawback
  <2>3. Locked' \in {Locked, Locked \cup {a}}
    BY <1>1, <1>2 DEF Typed, TypeOK, Locked, Actors
  <2>4. Cardinality(Locked') \in Nat /\ Cardinality(Locked') <= Cardinality(Locked) + 1
    <3>1. IsFiniteSet(Locked) /\ Cardinality(Locked) \in Nat
      BY FiniteAttempts DEF Typed
    <3>2. a \notin Locked
      BY <1>1 DEF Locked
    <3>3. Cardinality(Locked \cup {a}) = Cardinality(Locked) + 1
      BY <3>1, <3>2, FS_AddElement
    <3>4. CASE Locked' = Locked
      BY <3>1, <3>4
    <3>5. CASE Locked' = Locked \cup {a}
      BY <3>1, <3>3, <3>5
    <3>. QED  BY <2>3, <3>4, <3>5
  <2>. QED  BY <1>2, <2>1, <2>2, <2>4, FiniteAttempts, RefundsAssumption DEF Typed, Counted
<1>. QED  BY <1>3, <1>4, <1>5, <1>6 DEF Typed

LEMMA InsertTyped ==
    ASSUME Typed, NEW a \in Actors, InsertAttempt(a)
    PROVE  Typed'
<1> DEFINE e == [kind |-> "refund", state |-> "pending"]
<1>1. pc[a] = "locked" /\ a \in Requests
  BY DEF InsertAttempt, Typed, Roles, Actors
<1>2. e \in Entry /\ rows' = Append(rows, e)
  BY DEF InsertAttempt, Entry, Kinds, States
<1>3. /\ rows' \in Seq(Entry) /\ Len(rows') = Len(rows) + 1
      /\ DOMAIN rows' = DOMAIN rows \cup {Len(rows) + 1}
      /\ Len(rows) + 1 \notin DOMAIN rows
      /\ \A j \in DOMAIN rows : rows'[j] = rows[j]
      /\ rows'[Len(rows) + 1] = e
  BY <1>2, RowInsert DEF Typed
<1>4. Len(rows) \in Nat
  BY DEF Typed, TypeOK
<1>5. Attempts' = Attempts \cup {Len(rows) + 1} /\ Len(rows) + 1 \notin Attempts
  BY <1>3 DEF Attempts
<1>6. HasClawback' <=> HasClawback
  BY <1>3 DEF HasClawback
<1>7. Locked' = Locked \ {a} /\ a \in Locked
  BY <1>1 DEF InsertAttempt, Typed, TypeOK, Locked, Actors
<1>8. /\ Cardinality(Attempts') = Cardinality(Attempts) + 1
      /\ Cardinality(Locked') = Cardinality(Locked) - 1
  BY <1>5, <1>7, FiniteAttempts, FS_AddElement, FS_RemoveElement DEF Typed
<1>9. Counted'
  BY <1>3, <1>4, <1>6, <1>8, FiniteAttempts, RefundsAssumption DEF Typed, Counted
<1>10. Len(rows') <= MaxTries + 1 /\ Len(rows) + 1 \in RowIds
  <2>1. Cardinality(Attempts) + 1 <= MaxTries
    <3>1. Cardinality(Locked) # 0
      BY <1>7, FS_EmptySet, FiniteAttempts DEF Typed
    <3>. QED  BY <3>1, FiniteAttempts, RefundsAssumption DEF Typed, Counted
  <2>. QED  BY <2>1, <1>3, <1>4, FiniteAttempts, RefundsAssumption DEF Typed, Counted, RowIds
<1>11. TypeOK'
  BY <1>3, <1>10 DEF InsertAttempt, Typed, TypeOK, Entry, Kinds, States, gateway, ghost
<1>12. Roles'
  BY <1>1, RefundsAssumption DEF InsertAttempt, Typed, TypeOK, Roles, Actors
<1>13. RowKnown'
  BY <1>1, <1>3 DEF InsertAttempt, Typed, TypeOK, RowKnown, Actors
<1>. QED  BY <1>9, <1>11, <1>12, <1>13 DEF Typed

LEMMA ClawTyped ==
    ASSUME Typed, NEW a \in Actors, Claw(a)
    PROVE  Typed'
<1> DEFINE e == [kind |-> "clawback", state |-> "pending"]
<1> USE DEF Claw, Goto, gateway, ghost
<1>1. pc[a] = "claw" /\ pc' = [pc EXCEPT ![a] = "order"] /\ UNCHANGED <<row, reply, event>>
  OBVIOUS
<1>2. Roles'
  BY <1>1, RefundsAssumption DEF Typed, TypeOK, Roles, Actors
<1>3. \A b \in Requests : pc'[b] \in {"inserted", "called"} =>
         pc[b] \in {"inserted", "called"} /\ row'[b] = row[b]
  BY <1>1 DEF Typed, TypeOK, Actors
<1>4. CASE LegDisbursed /\ ~HasClawback
  <2>1. e \in Entry /\ rows' = Append(rows, e)
    BY <1>4 DEF Entry, Kinds, States
  <2>2. /\ rows' \in Seq(Entry) /\ Len(rows') = Len(rows) + 1
        /\ DOMAIN rows' = DOMAIN rows \cup {Len(rows) + 1}
        /\ Len(rows) + 1 \notin DOMAIN rows
        /\ \A j \in DOMAIN rows : rows'[j] = rows[j]
        /\ rows'[Len(rows) + 1] = e
    BY <2>1, RowInsert DEF Typed
  <2>3. Len(rows) \in Nat /\ DOMAIN rows = 1 .. Len(rows)
    BY DEF Typed, TypeOK
  <2>4. Attempts' = Attempts /\ HasClawback'
    BY <2>2, <2>3 DEF Attempts, HasClawback
  <2>5. Locked' = Locked
    BY <1>1 DEF Typed, TypeOK, Locked, Actors
  <2>6. Counted' /\ Len(rows') <= MaxTries + 1
    BY <1>4, <2>2, <2>3, <2>4, <2>5, FiniteAttempts, RefundsAssumption DEF Typed, Counted
  <2>7. TypeOK'
    BY <2>2, <2>6 DEF Typed, TypeOK, Entry, Kinds, States
  <2>8. RowKnown'
    BY <1>3, <2>2 DEF Typed, RowKnown
  <2>. QED  BY <1>2, <2>6, <2>7, <2>8 DEF Typed
<1>5. CASE ~(LegDisbursed /\ ~HasClawback)
  <2>1. UNCHANGED rows
    BY <1>5
  <2>2. TypeOK'
    BY <2>1 DEF Typed, TypeOK
  <2>. QED  BY <1>1, <1>2, <1>3, <2>1, <2>2, MoveTyped
<1>. QED  BY <1>4, <1>5

\* The statements that write the state of a row.
LEMMA RowTyped ==
    ASSUME Typed, NEW a \in Actors, RecordAnswer(a) \/ CloseRow(a) \/ MarkFailed(a)
    PROVE  Typed'
<1> USE DEF RecordAnswer, CloseRow, MarkFailed, Goto, Finish, gateway, ghost
<1>1. PICK st \in States : SetRow(row[a], st)
  BY DEF States
<1>2. /\ rows' \in Seq(Entry) /\ Len(rows') = Len(rows) /\ DOMAIN rows' = DOMAIN rows
      /\ \A j \in DOMAIN rows : rows'[j].kind = rows[j].kind
  BY <1>1, RowUpdate DEF Typed
<1>3. UNCHANGED <<status, lock, intent, clawed, hook, cancelling, gateway, ghost>>
  OBVIOUS
<1>4. /\ row' \in {row, [row EXCEPT ![a] = 0]}
      /\ event' \in {event, [event EXCEPT ![a] = NoEvent]}
      /\ reply' \in {reply, [reply EXCEPT ![a] = "none"]}
  OBVIOUS
<1>5. PICK label :
         /\ pc' = [pc EXCEPT ![a] = label]
         /\ \/ pc[a] = "called" /\ label \in {"claw", "release", "idle"}
            \/ pc[a] = "row" /\ a \in Requests /\ label = "idle"
            \/ pc[a] = "row" /\ a \notin Requests /\ label = "close"
            \/ pc[a] = "mark" /\ label = "unlock"
  BY DEF NextAfterReply
<1>6. TypeOK'
  <2>1. /\ row' \in [Actors -> RowIds \cup {0}] /\ event' \in [Actors -> Events \cup {NoEvent}]
        /\ reply' \in [Actors -> {"none", "processed", "pending", "failed"}]
    BY <1>4 DEF Typed, TypeOK
  <2>2. pc' \in [Actors -> {"idle", "checked", "locked", "inserted", "called", "release",
                           "reopen", "opened", "mark", "unlock", "close", "found",
                           "claw", "order", "intent", "row"}]
    BY <1>5 DEF Typed, TypeOK
  <2>. QED  BY <1>2, <1>3, <2>1, <2>2 DEF Typed, TypeOK, Entry, Kinds, States
<1>7. Roles'
  BY <1>5, RefundsAssumption DEF Typed, TypeOK, Roles, Actors
<1>8. \A b \in Requests : pc'[b] \in {"inserted", "called"} =>
         pc[b] \in {"inserted", "called"} /\ row'[b] = row[b]
  BY <1>4, <1>5 DEF Typed, TypeOK, Actors
<1>. QED  BY <1>2, <1>5, <1>6, <1>7, <1>8, MoveTyped

LEMMA AskTyped ==
    ASSUME Typed, NEW a \in Actors, NEW out \in AllReplies, AskGateway(a, out)
    PROVE  Typed'
<1> USE DEF AskGateway, database, ghost
<1>1. pc[a] = "inserted" /\ a \in Requests /\ pc' = [pc EXCEPT ![a] = "called"]
  BY DEF Typed, Roles, Actors
<1>2. row[a] \in RowIds
  BY <1>1 DEF Typed, TypeOK, RowKnown, RowIds
<1>3. TypeOK'
  <2>1. moved' \subseteq RowIds /\ inflight' \subseteq RowIds
    BY <1>2 DEF Typed, TypeOK
  <2>. QED  BY <1>1, <2>1 DEF Typed, TypeOK
<1>4. Roles'
  BY <1>1, RefundsAssumption DEF Typed, TypeOK, Roles, Actors
<1>5. \A b \in Requests : pc'[b] \in {"inserted", "called"} =>
         pc[b] \in {"inserted", "called"} /\ row'[b] = row[b]
  BY <1>1 DEF Typed, TypeOK, Actors
<1>. QED  BY <1>1, <1>3, <1>4, <1>5, MoveTyped

\* What is left: the steps that touch neither the table nor the gateway.
LEMMA PlainTyped ==
    ASSUME Typed, NEW a \in Actors,
           \/ Release(a) \/ FlipOrder(a) \/ FlipIntent(a)
           \/ Reopen(a) \/ ReadLatest(a) \/ Unlock(a) \/ CloseEvent(a) \/ InspectLatest(a)
    PROVE  Typed'
<1> USE DEF Release, FlipOrder, FlipIntent, Reopen, ReadLatest, Unlock, CloseEvent,
            InspectLatest, Inspect, Goto, Finish, database, gateway, ghost
<1>1. UNCHANGED <<rows, clawed, cancelling, gateway, scene>>
  OBVIOUS
<1>2. PICK label :
         /\ pc' = [pc EXCEPT ![a] = label]
         /\ \/ pc[a] \in {"release", "close"} /\ label = "idle"
            \/ pc[a] = "order" /\ label = "intent"
            \/ pc[a] = "intent" /\ label = IF a \in Sweeps THEN "idle" ELSE "row"
            \/ pc[a] = "reopen" /\ label = "opened"
            \/ pc[a] = "opened" /\ label \in {"claw", "mark", "close"}
            \/ pc[a] = "unlock" /\ label = IF a \in Sweeps THEN "idle" ELSE "close"
            \/ pc[a] = "found" /\ label \in {"claw", "unlock", "idle"}
  BY DEF AfterLatest
<1>3. /\ row' \in [Actors -> RowIds \cup {0}] /\ event' \in [Actors -> Events \cup {NoEvent}]
      /\ reply' \in [Actors -> {"none", "processed", "pending", "failed"}]
  <2>1. Len(rows) \in RowIds \cup {0}
    BY RefundsAssumption DEF Typed, TypeOK, RowIds
  <2>2. /\ row' \in {row, [row EXCEPT ![a] = 0], [row EXCEPT ![a] = Len(rows)]}
        /\ event' \in {event, [event EXCEPT ![a] = NoEvent]}
        /\ reply' \in {reply, [reply EXCEPT ![a] = "none"]}
    OBVIOUS
  <2>. QED  BY <2>1, <2>2 DEF Typed, TypeOK
<1>4. /\ status' \in {status, "refunded"} /\ lock' \in {lock, "free"}
      /\ intent' \in {intent, "refunded"}
      /\ hook' \in [Events -> {"none", "open", "done"}]
      /\ overtaken' \in BOOLEAN
  BY DEF Typed, TypeOK
<1>5. TypeOK'
  <2>1. pc' \in [Actors -> {"idle", "checked", "locked", "inserted", "called", "release",
                           "reopen", "opened", "mark", "unlock", "close", "found",
                           "claw", "order", "intent", "row"}]
    BY <1>2 DEF Typed, TypeOK
  <2>. QED  BY <1>1, <1>3, <1>4, <2>1 DEF Typed, TypeOK
<1>6. Roles'
  BY <1>2, RefundsAssumption DEF Typed, TypeOK, Roles, Actors
<1>7. \A b \in Requests : pc'[b] \in {"inserted", "called"} =>
         pc[b] \in {"inserted", "called"} /\ row'[b] = row[b]
  BY <1>2 DEF Typed, TypeOK, Actors
<1>. QED  BY <1>1, <1>2, <1>5, <1>6, <1>7, MoveTyped

LEMMA StepTyped == Typed /\ [Next]_vars => Typed'
<1> SUFFICES ASSUME Typed, [Next]_vars PROVE Typed'
  OBVIOUS
<1>1. scene.replies \subseteq AllReplies
  BY RefundsAssumption DEF Typed, TypeOK, Scene
<1>2. ASSUME NEW a \in Actors, Continue(a) PROVE Typed'
  BY <1>1, <1>2, TakeLockTyped, InsertTyped, AskTyped, RowTyped, ClawTyped, PlainTyped
     DEF Continue
<1>. QED  BY <1>2, AroundTyped, BeginTyped, DieTyped DEF Next

\* TypeOK holds in every reachable state: in particular every attempt that is started
\* has a row, and the clawback of the order has one (clawbackPayoutsForRefund).
THEOREM TypeCorrect == Spec => []TypeOK
<1>1. Typed => TypeOK
  BY DEF Typed
<1>. QED  BY <1>1, InitTyped, StepTyped, PTL DEF Spec

-----------------------------------------------------------------------------
(* The tables and the money.                                               *)

LEMMA Kinds3 ==
    /\ Requests \subseteq Actors /\ Deliveries \subseteq Actors /\ Sweeps \subseteq Actors
    /\ \A a \in Requests : a \notin Deliveries /\ a \notin Sweeps
    /\ \A a \in Deliveries : a \notin Requests /\ a \notin Sweeps
  BY RefundsAssumption DEF Actors

\* What the gateway has sent or given up on stays so, and its answers stay the same.
LEMMA Grows ==
    ASSUME Typed, [Next]_vars
    PROVE  /\ moved \subseteq moved' /\ bounced \subseteq bounced'
           /\ scene'.replies = scene.replies /\ scene'.deaths = scene.deaths
<1>1. ASSUME NEW a \in Actors, Continue(a) PROVE UNCHANGED <<bounced, scene>> /\ moved \subseteq moved'
  BY <1>1 DEF Continue, TakeLock, InsertAttempt, AskGateway, RecordAnswer, Release, Claw,
     FlipOrder, FlipIntent, CloseRow, Reopen, ReadLatest, MarkFailed, Unlock, CloseEvent,
     InspectLatest, Inspect, gateway, ghost
<1>2. ASSUME NEW a \in Actors, Begin(a) PROVE UNCHANGED <<moved, bounced, scene>>
  BY <1>2 DEF Begin, RequestCheck, SweepFind, Deliver, gateway, ghost
<1>3. ASSUME NEW a \in Actors, Die(a) \/ InsertThrows(a)
      PROVE  UNCHANGED <<moved, bounced>> /\ scene' = [scene EXCEPT !.left = @ - 1]
  BY <1>3 DEF Die, InsertThrows, gateway
<1>4. ASSUME NEW i \in RowIds, Settle(i)
      PROVE  moved \subseteq moved' /\ bounced \subseteq bounced' /\ UNCHANGED scene
  BY <1>4 DEF Settle, ghost
<1>5. ASSUME LockAges \/ OrderDelivered \/ CancelCheck \/ CancelWrite \/ UNCHANGED vars
      PROVE  UNCHANGED <<moved, bounced, scene>>
  BY <1>5 DEF LockAges, OrderDelivered, CancelCheck, CancelWrite, vars, gateway, ghost
<1>6. /\ [scene EXCEPT !.left = @ - 1].replies = scene.replies
      /\ [scene EXCEPT !.left = @ - 1].deaths = scene.deaths
  BY DEF Typed, TypeOK
<1>. QED  BY <1>1, <1>2, <1>3, <1>4, <1>5, <1>6 DEF Next

\* Backed, for a step that finds the money where it claims to.
LEMMA BackedIf ==
    ASSUME Backed, moved \subseteq moved', bounced \subseteq bounced',
           \A d \in Deliveries : \/ pc'[d] = "idle"
                                 \/ pc[d] # "idle" /\ event'[d] = event[d]
                                 \/ event'[d] \in Events /\ Emitted(event'[d]),
           \A d \in Deliveries : pc'[d] \in {"mark", "unlock"} =>
              \/ pc[d] \in {"mark", "unlock"} /\ event'[d] = event[d]
              \/ event'[d][2] = "failed",
           \A a \in Requests : pc'[a] = "called" /\ reply'[a] = "processed" =>
              (pc[a] = "called" /\ reply[a] = "processed") \/ moved' # {},
           \A a \in Actors : Finalizing(a)' => Finalizing(a) \/ moved' # {},
           \A i \in DOMAIN rows' : rows'[i].state = "processed" =>
              (i \in DOMAIN rows /\ rows[i].state = "processed") \/ moved' # {},
           status' = "refunded" => status = "refunded" \/ moved' # {}
    PROVE  Backed'
<1>1. \A e : Emitted(e) => Emitted(e)'
  BY DEF Emitted
<1>2. moved # {} => moved' # {}
  OBVIOUS
<1>. QED  BY <1>1, <1>2 DEF Backed

\* A step that leaves the table and the order alone, and in which nobody gets anywhere
\* that it was not before.
LEMMA BackedAside ==
    ASSUME Backed, moved \subseteq moved', bounced \subseteq bounced', UNCHANGED <<rows, status>>,
           \A a \in Actors :
              \/ pc'[a] = "idle"
              \/ a \notin Deliveries /\ pc'[a] \in {"checked", "found", "locked", "release"}
              \/ pc'[a] = pc[a] /\ event'[a] = event[a] /\ reply'[a] = reply[a]
    PROVE  Backed'
  BY BackedIf, Kinds3 DEF Finalizing

LEMMA ContinueBacked ==
    ASSUME Typed, Backed, NEW a \in Actors, Continue(a), moved \subseteq moved', bounced \subseteq bounced'
    PROVE  Backed'
<1> USE Kinds3 DEF Typed, TypeOK, Goto, Finish, database, gateway, ghost
<1>1. CASE TakeLock(a) \/ Release(a)
  <2>1. UNCHANGED <<rows, status>>
    BY <1>1 DEF TakeLock, Release
  <2>2. \A b \in Actors : \/ pc'[b] = "idle"
                          \/ b \in Requests /\ pc'[b] = "locked"
                          \/ pc'[b] = pc[b] /\ event'[b] = event[b] /\ reply'[b] = reply[b]
    BY <1>1 DEF TakeLock, Release, Roles, Actors
  <2>. QED  BY <2>1, <2>2, BackedAside
<1>2. CASE InsertAttempt(a)
  <2>1. \A i \in DOMAIN rows' : rows'[i].state = "processed" => i \in DOMAIN rows /\ rows[i].state = "processed"
    BY <1>2, RowInsert DEF InsertAttempt, Entry, Kinds, States
  <2>. QED  BY <1>2, <2>1, BackedIf DEF InsertAttempt, Finalizing
<1>3. ASSUME NEW out \in AllReplies, AskGateway(a, out) PROVE Backed'
  <2>1. reply'[a] = "processed" => moved' # {}
    BY <1>3 DEF AskGateway, AllReplies
  <2>. QED  BY <1>3, <2>1, BackedIf DEF AskGateway, Finalizing, Roles
<1>4. CASE RecordAnswer(a)
  <2>0. PICK st \in {"failed", "pending"} : SetRow(row[a], st)
    BY <1>4 DEF RecordAnswer
  <2>1. \A i \in DOMAIN rows' : rows'[i].state = "processed" => i \in DOMAIN rows /\ rows[i].state = "processed"
    <3>1. /\ DOMAIN rows' = DOMAIN rows
          /\ \A i \in DOMAIN rows : i # row[a] => rows'[i] = rows[i]
          /\ row[a] \in DOMAIN rows => rows'[row[a]].state = st
      BY <2>0, RowUpdate DEF States
    <3>. QED  BY <3>1
  <2>2. a \in Requests /\ UNCHANGED status
    BY <1>4 DEF RecordAnswer, Roles, Actors
  <2>3. pc'[a] = "claw" => moved # {}
    BY <1>4, <2>2 DEF RecordAnswer, NextAfterReply, Backed
  <2>4. pc'[a] \in {"claw", "idle", "release"}
    BY <1>4 DEF RecordAnswer, NextAfterReply
  <2>5. \A b \in Actors : b # a => pc'[b] = pc[b] /\ event'[b] = event[b] /\ reply'[b] = reply[b]
    BY <1>4 DEF RecordAnswer
  <2>. QED  BY <2>1, <2>2, <2>3, <2>4, <2>5, BackedIf DEF Finalizing
<1>5. CASE Claw(a)
  <2>1. \A i \in DOMAIN rows' : rows'[i].state = "processed" => i \in DOMAIN rows /\ rows[i].state = "processed"
    BY <1>5, RowInsert DEF Claw, Entry, Kinds, States
  <2>. QED  BY <1>5, <2>1, BackedIf DEF Claw, Finalizing
<1>6. CASE FlipOrder(a) \/ FlipIntent(a)
  <2>1. Finalizing(a) /\ moved # {} /\ UNCHANGED rows
    BY <1>6 DEF FlipOrder, FlipIntent, Finalizing, Backed
  <2>2. \A b \in Actors : b # a => pc'[b] = pc[b] /\ event'[b] = event[b] /\ reply'[b] = reply[b]
    BY <1>6 DEF FlipOrder, FlipIntent
  <2>3. pc'[a] \in {"idle", "intent", "row"} /\ (pc'[a] # "idle" => event'[a] = event[a])
    BY <1>6 DEF FlipOrder, FlipIntent
  <2>4. pc[a] # "idle"
    BY <1>6 DEF FlipOrder, FlipIntent
  <2>. QED  BY <2>1, <2>2, <2>3, <2>4, BackedIf DEF Finalizing
<1>7. CASE CloseRow(a)
  <2>1. Finalizing(a) /\ moved # {} /\ UNCHANGED status
    BY <1>7 DEF CloseRow, Finalizing, Backed
  <2>2. \A b \in Actors : b # a => pc'[b] = pc[b] /\ event'[b] = event[b] /\ reply'[b] = reply[b]
    BY <1>7 DEF CloseRow
  <2>3. pc'[a] \in {"idle", "close"} /\ (pc'[a] # "idle" => event'[a] = event[a])
    BY <1>7 DEF CloseRow
  <2>4. pc[a] # "idle"
    BY <1>7 DEF CloseRow
  <2>. QED  BY <2>1, <2>2, <2>3, <2>4, BackedIf DEF Finalizing
<1>8. CASE Reopen(a) \/ CloseEvent(a)
  BY <1>8, BackedIf DEF Reopen, CloseEvent, Finalizing
<1>9. CASE ReadLatest(a)
  <2>1. a \in Deliveries /\ event[a] \in Events /\ Emitted(event[a])
    BY <1>9 DEF ReadLatest, Roles, Actors, Backed
  <2>2. UNCHANGED <<rows, status, event, reply>> /\ pc[a] = "opened"
    BY <1>9 DEF ReadLatest
  <2>3. \/ pc' = [pc EXCEPT ![a] = "close"]
        \/ pc' = [pc EXCEPT ![a] = "claw"] /\ Meaning(event[a][2]) = "success"
        \/ pc' = [pc EXCEPT ![a] = "mark"] /\ Meaning(event[a][2]) = "failed"
    BY <1>9 DEF ReadLatest, AfterLatest
  <2>4. Meaning(event[a][2]) = "success" => moved # {}
    BY <2>1 DEF Meaning, Emitted
  <2>5. Meaning(event[a][2]) = "failed" => event[a][2] = "failed"
    BY DEF Meaning
  <2>. QED  BY <2>1, <2>2, <2>3, <2>4, <2>5, BackedIf DEF Finalizing
<1>10. CASE MarkFailed(a)
  <2>1. \A i \in DOMAIN rows' : rows'[i].state = "processed" => i \in DOMAIN rows /\ rows[i].state = "processed"
    BY <1>10, RowUpdate DEF MarkFailed, States
  <2>. QED  BY <1>10, <2>1, BackedIf DEF MarkFailed, Finalizing
<1>11. CASE Unlock(a)
  BY <1>11, BackedIf DEF Unlock, Finalizing
<1>12. CASE InspectLatest(a)
  <2>1. a \in Sweeps /\ UNCHANGED <<rows, status>>
    BY <1>12 DEF InspectLatest, Inspect, Roles, Actors
  <2>2. pc'[a] = "claw" => moved # {}
    BY <1>12 DEF InspectLatest, Inspect, Backed, Latest
  <2>3. pc'[a] \in {"claw", "unlock", "idle"}
    BY <1>12 DEF InspectLatest, Inspect
  <2>4. \A b \in Actors : b # a => pc'[b] = pc[b] /\ event'[b] = event[b] /\ reply'[b] = reply[b]
    BY <1>12 DEF InspectLatest, Inspect
  <2>. QED  BY <2>1, <2>2, <2>3, <2>4, BackedIf DEF Finalizing
<1>. QED
  <2>1. scene.replies \subseteq AllReplies
    BY RefundsAssumption DEF Scene
  <2>. QED
    BY <2>1, <1>1, <1>2, <1>3, <1>4, <1>5, <1>6, <1>7, <1>8, <1>9, <1>10, <1>11, <1>12
       DEF Continue

LEMMA StepBacked == Typed /\ Backed /\ [Next]_vars => Backed'
<1> SUFFICES ASSUME Typed, Backed, [Next]_vars PROVE Backed'
  OBVIOUS
<1>0. moved \subseteq moved' /\ bounced \subseteq bounced'
  BY Grows
<1> USE Kinds3 DEF Typed, TypeOK, Goto, Finish, database, gateway, ghost, actor
<1>1. ASSUME NEW a \in Actors, Die(a) \/ InsertThrows(a) PROVE Backed'
  <2>1. \A b \in Actors : \/ pc'[b] = "idle"
                          \/ b \in Requests /\ pc'[b] = "release"
                          \/ pc'[b] = pc[b] /\ event'[b] = event[b] /\ reply'[b] = reply[b]
    BY <1>1 DEF Die, InsertThrows, Roles, Actors
  <2>. QED  BY <1>0, <1>1, <2>1, BackedAside DEF Die, InsertThrows
<1>2. ASSUME NEW a \in Actors, RequestCheck(a) \/ SweepFind(a) PROVE Backed'
  <2>1. \A b \in Actors : \/ b \notin Deliveries /\ pc'[b] \in {"checked", "found"}
                          \/ pc'[b] = pc[b] /\ event'[b] = event[b] /\ reply'[b] = reply[b]
    BY <1>2 DEF RequestCheck, SweepFind
  <2>. QED  BY <1>0, <1>2, <2>1, BackedAside DEF RequestCheck, SweepFind
<1>3. ASSUME NEW a \in Actors, NEW e \in Events, Deliver(a, e) PROVE Backed'
  BY <1>0, <1>3, BackedIf DEF Deliver, Finalizing
<1>4. ASSUME \/ \E i \in RowIds : Settle(i)
             \/ LockAges \/ CancelCheck \/ UNCHANGED vars
      PROVE  Backed'
  BY <1>0, <1>4, BackedAside DEF Settle, LockAges, CancelCheck, vars
<1>5. ASSUME OrderDelivered \/ CancelWrite PROVE Backed'
  BY <1>0, <1>5, BackedIf DEF OrderDelivered, CancelWrite, Finalizing
<1>. QED  BY <1>0, <1>1, <1>2, <1>3, <1>4, <1>5, ContinueBacked DEF Next, Begin

\* The clawback and the flip of the intent are for good, and the steps keep their order.
LEMMA FinalizedIf ==
    ASSUME Finalized, clawed => clawed', intent = "refunded" => intent' = "refunded",
           \A a \in Actors : pc'[a] \in {"order", "intent", "row"} =>
              pc[a] \in {"order", "intent", "row"} \/ clawed',
           \A a \in Actors : pc'[a] = "row" => pc[a] = "row" \/ intent' = "refunded",
           \A i \in DOMAIN rows' : rows'[i].state = "processed" =>
              \/ i \in DOMAIN rows /\ rows[i].state = "processed"
              \/ clawed' /\ intent' = "refunded"
    PROVE  Finalized'
  BY DEF Finalized

LEMMA StepFinalized == Typed /\ Finalized /\ [Next]_vars => Finalized'
<1> SUFFICES ASSUME Typed, Finalized, [Next]_vars PROVE Finalized'
  OBVIOUS
<1> USE DEF Typed, TypeOK, Goto, Finish, database, gateway, ghost, actor
<1>1. ASSUME \/ \E i \in RowIds : Settle(i)
             \/ LockAges \/ CancelCheck \/ CancelWrite \/ OrderDelivered \/ UNCHANGED vars
      PROVE  Finalized'
  BY <1>1, FinalizedIf DEF Settle, LockAges, CancelCheck, CancelWrite, OrderDelivered, vars
<1>2. ASSUME NEW a \in Actors, Begin(a) \/ Die(a) \/ InsertThrows(a) PROVE Finalized'
  <2>1. UNCHANGED <<rows, clawed, intent>>
    BY <1>2 DEF Begin, RequestCheck, SweepFind, Deliver, Die, InsertThrows
  <2>2. \A b \in Actors : pc'[b] = pc[b] \/ pc'[b] \notin {"order", "intent", "row"}
    BY <1>2 DEF Begin, RequestCheck, SweepFind, Deliver, Die, InsertThrows
  <2>. QED  BY <2>1, <2>2, FinalizedIf
<1>3. ASSUME NEW a \in Actors, Continue(a) PROVE Finalized'
  <2>1. CASE \/ TakeLock(a) \/ Release(a) \/ Unlock(a)
             \/ \E out \in scene.replies : AskGateway(a, out)
    <3>1. UNCHANGED <<rows, clawed, intent>>
      BY <2>1 DEF TakeLock, Release, Unlock, AskGateway
    <3>2. \A b \in Actors : pc'[b] = pc[b] \/ pc'[b] \notin {"order", "intent", "row"}
      BY <2>1 DEF TakeLock, Release, Unlock, AskGateway
    <3>. QED  BY <3>1, <3>2, FinalizedIf
  <2>2. CASE Reopen(a) \/ ReadLatest(a) \/ CloseEvent(a) \/ InspectLatest(a)
    <3>1. UNCHANGED <<rows, clawed, intent>>
      BY <2>2 DEF Reopen, ReadLatest, CloseEvent, InspectLatest, Inspect
    <3>2. \A b \in Actors : pc'[b] = pc[b] \/ pc'[b] \notin {"order", "intent", "row"}
      BY <2>2 DEF Reopen, ReadLatest, CloseEvent, InspectLatest, Inspect, AfterLatest
    <3>. QED  BY <3>1, <3>2, FinalizedIf
  <2>3. CASE InsertAttempt(a)
    <3>1. \A i \in DOMAIN rows' : rows'[i].state = "processed" =>
             i \in DOMAIN rows /\ rows[i].state = "processed"
      BY <2>3, RowInsert DEF InsertAttempt, Entry, Kinds, States
    <3>. QED  BY <2>3, <3>1, FinalizedIf DEF InsertAttempt
  <2>4. CASE RecordAnswer(a) \/ MarkFailed(a)
    <3>1. \A i \in DOMAIN rows' : rows'[i].state = "processed" =>
             i \in DOMAIN rows /\ rows[i].state = "processed"
      BY <2>4, RowUpdate DEF RecordAnswer, MarkFailed, States
    <3>2. UNCHANGED <<clawed, intent>>
      BY <2>4 DEF RecordAnswer, MarkFailed
    <3>3. \A b \in Actors : pc'[b] = pc[b] \/ pc'[b] \notin {"order", "intent", "row"}
      BY <2>4 DEF RecordAnswer, MarkFailed, NextAfterReply
    <3>. QED  BY <3>1, <3>2, <3>3, FinalizedIf
  <2>5. CASE Claw(a)
    <3>1. \A i \in DOMAIN rows' : rows'[i].state = "processed" =>
             i \in DOMAIN rows /\ rows[i].state = "processed"
      BY <2>5, RowInsert DEF Claw, Entry, Kinds, States
    <3>. QED  BY <2>5, <3>1, FinalizedIf DEF Claw
  <2>6. CASE FlipOrder(a)
    BY <2>6, FinalizedIf DEF FlipOrder
  <2>7. CASE FlipIntent(a)
    BY <2>7, FinalizedIf DEF FlipIntent
  <2>8. CASE CloseRow(a)
    <3>1. clawed /\ intent = "refunded" /\ UNCHANGED <<clawed, intent>>
      BY <2>8 DEF CloseRow, Finalized
    <3>. QED  BY <3>1 DEF Finalized
  <2>. QED  BY <1>3, <2>1, <2>2, <2>3, <2>4, <2>5, <2>6, <2>7, <2>8 DEF Continue
<1>. QED  BY <1>1, <1>2, <1>3 DEF Next

LEMMA StepLate == Core /\ [Next]_vars => Late'
<1> SUFFICES ASSUME Core, [Next]_vars PROVE Late'
  OBVIOUS
<1>0. scene'.replies = scene.replies
  BY Grows DEF Core
<1> USE DEF Core, Late, database, gateway, ghost, actor
<1>1. ASSUME NEW i \in RowIds, Settle(i) PROVE Late'
  BY <1>0, <1>1 DEF Settle
<1>2. ASSUME LockAges \/ CancelCheck \/ CancelWrite \/ OrderDelivered \/ UNCHANGED vars
      PROVE  Late'
  BY <1>0, <1>2 DEF LockAges, CancelCheck, CancelWrite, OrderDelivered, vars
<1>3. ASSUME NEW a \in Actors, Begin(a) \/ Die(a) \/ InsertThrows(a) PROVE Late'
  BY <1>0, <1>3 DEF Begin, RequestCheck, SweepFind, Deliver, Die, InsertThrows
<1>4. ASSUME NEW a \in Actors, NEW out \in scene.replies, AskGateway(a, out) PROVE Late'
  BY <1>0, <1>4 DEF AskGateway
<1>5. ASSUME NEW a \in Actors, Continue(a), ~\E out \in scene.replies : AskGateway(a, out)
      PROVE  Late'
  <2>1. UNCHANGED gateway
    BY <1>5 DEF Continue, TakeLock, InsertAttempt, RecordAnswer, Release, Claw, FlipOrder,
       FlipIntent, CloseRow, Reopen, ReadLatest, MarkFailed, Unlock, CloseEvent,
       InspectLatest, Inspect
  <2>. QED  BY <1>0, <2>1
<1>. QED  BY <1>1, <1>2, <1>3, <1>4, <1>5 DEF Next

-----------------------------------------------------------------------------
(* The lock.                                                               *)

\* A step that clears no lock, gives the gateway nothing and starts no request.
LEMMA LockAside ==
    ASSUME Lock, overtaken => overtaken', moved' \cup inflight' \subseteq moved \cup inflight,
           lock # "free" => lock' # "free",
           \A a \in Requests : Charging(a)' => Charging(a)
    PROVE  Lock'
<1> SUFFICES ASSUME ~overtaken' PROVE Lock'
  BY DEF Lock
<1>. QED  BY DEF Lock

LEMMA ContinueLock ==
    ASSUME TrueRefusals, Core, NEW a \in Actors, Continue(a)
    PROVE  Lock'
<1> USE Kinds3 DEF Core, Typed, TypeOK, Goto, Finish, database, gateway, ghost
<1>1. CASE TakeLock(a)
  <2>0. a \in Requests
    BY <1>1 DEF TakeLock, Roles, Actors
  <2>1. CASE lock = "free" /\ status \notin {"refunded", "cancelled"}
    <3>1. pc' = [pc EXCEPT ![a] = "locked"] /\ lock' = "fresh" /\ UNCHANGED <<gateway, ghost, reply>>
      BY <1>1, <2>1 DEF TakeLock
    <3>2. \A b \in Requests : Charging(b)' => b = a \/ Charging(b)
      BY <3>1 DEF Charging
    <3>3. overtaken \/ (moved \cup inflight = {} /\ \A b \in Requests : ~Charging(b))
      BY <2>1 DEF Lock
    <3>. QED  BY <3>1, <3>2, <3>3 DEF Lock
  <2>2. CASE ~(lock = "free" /\ status \notin {"refunded", "cancelled"})
    <3>1. pc' = [pc EXCEPT ![a] = "idle"] /\ reply' = [reply EXCEPT ![a] = "none"]
          /\ UNCHANGED <<gateway, ghost, lock>>
      BY <1>1, <2>2 DEF TakeLock
    <3>2. \A b \in Requests : Charging(b)' => Charging(b)
      BY <3>1 DEF Charging
    <3>. QED  BY <3>1, <3>2, LockAside
  <2>. QED  BY <2>1, <2>2
<1>2. CASE InsertAttempt(a)
  <2>1. \A b \in Requests : Charging(b)' => Charging(b)
    BY <1>2 DEF InsertAttempt, Charging
  <2>. QED  BY <1>2, <2>1, LockAside DEF InsertAttempt
<1>3. ASSUME NEW out \in scene.replies, AskGateway(a, out) PROVE Lock'
  <2>1. out \in AllReplies \ {"lost"}
    BY RefundsAssumption DEF Scene, TrueRefusals
  <2>2. a \in Requests /\ Charging(a)
    BY <1>3 DEF AskGateway, Roles, Actors, Charging
  <2>3. /\ pc' = [pc EXCEPT ![a] = "called"] /\ UNCHANGED <<lock, overtaken>>
        /\ reply' = [reply EXCEPT ![a] = IF out \in {"processed", "pending"} THEN out ELSE "failed"]
        /\ moved' = IF out = "processed" THEN moved \cup {row[a]} ELSE moved
        /\ inflight' = IF out = "pending" THEN inflight \cup {row[a]} ELSE inflight
    BY <1>3, <2>1 DEF AskGateway
  <2>4. \A b \in Requests : Charging(b)' => Charging(b)
    BY <2>2, <2>3 DEF Charging
  <2>5. CASE out = "rejected"
    BY <2>3, <2>4, <2>5, LockAside
  <2>6. CASE out \in {"processed", "pending"}
    <3>1. SUFFICES ASSUME ~overtaken' PROVE Lock'
      BY DEF Lock
    <3>2. /\ moved \cup inflight = {} /\ lock # "free"
          /\ \A b \in Requests : Charging(b) => b = a
      BY <3>1, <2>2, <2>3 DEF Lock
    <3>3. moved' \cup inflight' = {row[a]}
      BY <2>3, <2>6, <3>2
    <3>4. ~Charging(a)'
      BY <2>2, <2>3, <2>6 DEF Charging
    <3>. QED  BY <2>3, <2>4, <3>2, <3>3, <3>4 DEF Lock
  <2>. QED  BY <2>1, <2>5, <2>6 DEF AllReplies
<1>4. CASE RecordAnswer(a)
  <2>1. a \in Requests /\ pc[a] = "called"
    BY <1>4 DEF RecordAnswer, Roles, Actors
  <2>2. Charging(a)' => Charging(a)
    BY <1>4, <2>1 DEF RecordAnswer, NextAfterReply, Charging
  <2>3. \A b \in Requests : b # a => (Charging(b)' <=> Charging(b))
    BY <1>4 DEF RecordAnswer, Charging
  <2>. QED  BY <1>4, <2>2, <2>3, LockAside DEF RecordAnswer
<1>5. CASE Release(a)
  <2>1. a \in Requests /\ Charging(a)
    BY <1>5 DEF Release, Roles, Actors, Charging
  <2>2. /\ pc' = [pc EXCEPT ![a] = "idle"] /\ reply' = [reply EXCEPT ![a] = "none"]
        /\ UNCHANGED <<gateway, overtaken>>
    BY <1>5 DEF Release
  <2>3. \A b \in Requests : Charging(b)' => Charging(b) /\ b # a
    BY <2>1, <2>2 DEF Charging
  <2>. QED  BY <2>1, <2>2, <2>3 DEF Lock
<1>6. CASE Unlock(a)
  <2>1. ~overtaken' => ~overtaken /\ ~AtStake
    BY <1>6 DEF Unlock
  <2>2. \A b \in Requests : Charging(b)' => Charging(b)
    BY <1>6 DEF Unlock, Charging
  <2>3. UNCHANGED gateway
    BY <1>6 DEF Unlock
  <2>. QED  BY <2>1, <2>2, <2>3 DEF Lock, AtStake
<1>7. CASE Claw(a) \/ FlipOrder(a) \/ FlipIntent(a) \/ CloseRow(a)
  <2>1. UNCHANGED <<gateway, overtaken, lock>>
    BY <1>7 DEF Claw, FlipOrder, FlipIntent, CloseRow
  <2>2. \A b \in Requests : Charging(b)' => Charging(b)
    BY <1>7 DEF Claw, FlipOrder, FlipIntent, CloseRow, Charging
  <2>. QED  BY <2>1, <2>2, LockAside
<1>8. CASE Reopen(a) \/ ReadLatest(a) \/ MarkFailed(a) \/ CloseEvent(a) \/ InspectLatest(a)
  <2>1. UNCHANGED <<gateway, overtaken, lock>>
    BY <1>8 DEF Reopen, ReadLatest, MarkFailed, CloseEvent, InspectLatest, Inspect
  <2>2. \A b \in Requests : Charging(b)' => Charging(b)
    BY <1>8 DEF Reopen, ReadLatest, MarkFailed, CloseEvent, InspectLatest, Inspect, Charging,
       AfterLatest
  <2>. QED  BY <2>1, <2>2, LockAside
<1>. QED  BY <1>1, <1>2, <1>3, <1>4, <1>5, <1>6, <1>7, <1>8 DEF Continue

LEMMA StepLock == TrueRefusals /\ Core /\ [Next]_vars => Lock'
<1> SUFFICES ASSUME TrueRefusals, Core, [Next]_vars PROVE Lock'
  OBVIOUS
<1> USE Kinds3 DEF Core, Typed, TypeOK, Goto, Finish, database, gateway, ghost, actor
<1>1. ASSUME \/ \E i \in RowIds : Settle(i)
             \/ LockAges \/ CancelCheck \/ CancelWrite \/ OrderDelivered \/ UNCHANGED vars
      PROVE  Lock'
  BY <1>1, LockAside DEF Settle, LockAges, CancelCheck, CancelWrite, OrderDelivered, vars,
     Charging
<1>2. ASSUME NEW a \in Actors, Begin(a) \/ Die(a) \/ InsertThrows(a) PROVE Lock'
  <2>1. UNCHANGED <<gateway, overtaken, lock>>
    BY <1>2 DEF Begin, RequestCheck, SweepFind, Deliver, Die, InsertThrows
  <2>2. \A b \in Requests : Charging(b)' => Charging(b)
    BY <1>2 DEF Begin, RequestCheck, SweepFind, Deliver, Die, InsertThrows, Charging
  <2>. QED  BY <2>1, <2>2, LockAside
<1>. QED  BY <1>1, <1>2, ContinueLock DEF Next

-----------------------------------------------------------------------------
(* Which attempt is whose.                                                 *)

\* A step that asks nothing and settles nothing; rows may be added.
LEMMA OwnRowAside ==
    ASSUME OwnRow, UNCHANGED gateway, DOMAIN rows \subseteq DOMAIN rows',
           \A a \in Requests :
              /\ pc'[a] \in {"inserted", "called"} =>
                    pc[a] \in {"inserted", "called"} /\ row'[a] = row[a]
              /\ Asked(a)' => Asked(a)
    PROVE  OwnRow'
<1>1. \A a, b \in Requests :
         {pc'[a], pc'[b]} \subseteq {"inserted", "called"} /\ row'[a] = row'[b] => a = b
  BY DEF OwnRow
<1>2. \A a \in Requests : Asked(a)' => row'[a] \notin moved' \cup inflight' \cup bounced'
  BY DEF OwnRow, Asked, gateway
<1>. QED  BY <1>1, <1>2 DEF OwnRow, gateway

LEMMA ContinueOwnRow ==
    ASSUME TrueRefusals, Core, NEW a \in Actors, Continue(a)
    PROVE  OwnRow'
<1> USE Kinds3 DEF Core, Typed, TypeOK, Goto, Finish, database, ghost
<1>1. CASE InsertAttempt(a)
  <2>1. a \in Requests
    BY <1>1 DEF InsertAttempt, Roles, Actors
  <2>2. /\ DOMAIN rows' = DOMAIN rows \cup {Len(rows) + 1} /\ Len(rows) + 1 \notin DOMAIN rows
    BY <1>1, RowInsert DEF InsertAttempt, Entry, Kinds, States
  <2>3. /\ UNCHANGED <<gateway, reply>> /\ pc' = [pc EXCEPT ![a] = "inserted"]
        /\ row' = [row EXCEPT ![a] = Len(rows) + 1]
    BY <1>1 DEF InsertAttempt
  <2>4. \A b \in Requests : b # a /\ pc[b] \in {"inserted", "called"} => row[b] \in DOMAIN rows
    BY DEF RowKnown
  <2>5. \A b, c \in Requests :
           {pc'[b], pc'[c]} \subseteq {"inserted", "called"} /\ row'[b] = row'[c] => b = c
    BY <2>1, <2>2, <2>3, <2>4 DEF OwnRow
  <2>6. \A b \in Requests : Asked(b)' => row'[b] \notin moved' \cup inflight' \cup bounced'
    BY <2>1, <2>2, <2>3 DEF OwnRow, Asked, gateway
  <2>. QED  BY <2>2, <2>3, <2>5, <2>6 DEF OwnRow, gateway
<1>2. ASSUME NEW out \in scene.replies, AskGateway(a, out) PROVE OwnRow'
  <2>1. a \in Requests /\ Asked(a) /\ row[a] \in DOMAIN rows
    BY <1>2 DEF AskGateway, Roles, Actors, Asked, RowKnown
  <2>2. /\ pc' = [pc EXCEPT ![a] = "called"] /\ UNCHANGED <<rows, row, bounced>>
        /\ reply' = [reply EXCEPT ![a] = IF out \in {"processed", "pending"} THEN out ELSE "failed"]
        /\ moved' \in {moved, moved \cup {row[a]}}
        /\ inflight' \in {inflight, inflight \cup {row[a]}}
        /\ moved' = moved \/ inflight' = inflight
    BY <1>2 DEF AskGateway
  <2>3. \A b, c \in Requests :
           {pc'[b], pc'[c]} \subseteq {"inserted", "called"} /\ row'[b] = row'[c] => b = c
    BY <1>2, <2>1, <2>2 DEF OwnRow, AskGateway
  <2>4. \A b \in Requests : b # a /\ Asked(b)' => Asked(b) /\ row[b] # row[a]
    BY <1>2, <2>1, <2>2 DEF OwnRow, Asked, AskGateway
  <2>5. row[a] \notin moved \cup inflight \cup bounced
    BY <2>1 DEF OwnRow
  <2>6. Asked(a)' => out \notin {"processed", "pending"}
    BY <2>1, <2>2 DEF Asked
  <2>7. out \in AllReplies \ {"lost"}
    BY RefundsAssumption DEF Scene, TrueRefusals
  <2>8. out \notin {"processed", "pending"} => moved' = moved /\ inflight' = inflight
    BY <1>2, <2>7 DEF AskGateway
  <2>9. \A b \in Requests : Asked(b)' => row'[b] \notin moved' \cup inflight' \cup bounced'
    BY <2>1, <2>2, <2>4, <2>5, <2>6, <2>8 DEF OwnRow
  <2>. QED  BY <2>1, <2>2, <2>3, <2>5, <2>9 DEF OwnRow
<1>3. CASE RecordAnswer(a) \/ CloseRow(a) \/ MarkFailed(a)
  <2>1. DOMAIN rows' = DOMAIN rows
    BY <1>3, RowUpdate DEF RecordAnswer, CloseRow, MarkFailed, States
  <2>2. UNCHANGED gateway
    BY <1>3 DEF RecordAnswer, CloseRow, MarkFailed
  <2>3. \A b \in Requests :
           /\ pc'[b] \in {"inserted", "called"} =>
                 pc[b] \in {"inserted", "called"} /\ row'[b] = row[b]
           /\ Asked(b)' => Asked(b)
    BY <1>3 DEF RecordAnswer, CloseRow, MarkFailed, NextAfterReply, Asked
  <2>. QED  BY <2>1, <2>2, <2>3, OwnRowAside
<1>4. CASE Claw(a)
  <2>1. DOMAIN rows \subseteq DOMAIN rows'
    BY <1>4, RowInsert DEF Claw, Entry, Kinds, States
  <2>. QED  BY <1>4, <2>1, OwnRowAside DEF Claw, Asked
<1>5. CASE TakeLock(a) \/ Release(a) \/ FlipOrder(a) \/ FlipIntent(a)
  <2>1. UNCHANGED <<gateway, rows>>
    BY <1>5 DEF TakeLock, Release, FlipOrder, FlipIntent
  <2>2. \A b \in Requests :
           /\ pc'[b] \in {"inserted", "called"} =>
                 pc[b] \in {"inserted", "called"} /\ row'[b] = row[b]
           /\ Asked(b)' => Asked(b)
    BY <1>5 DEF TakeLock, Release, FlipOrder, FlipIntent, Asked
  <2>. QED  BY <2>1, <2>2, OwnRowAside
<1>6. CASE Reopen(a) \/ ReadLatest(a) \/ Unlock(a) \/ CloseEvent(a) \/ InspectLatest(a)
  <2>1. UNCHANGED <<gateway, rows>>
    BY <1>6 DEF Reopen, ReadLatest, Unlock, CloseEvent, InspectLatest, Inspect
  <2>2. \A b \in Requests :
           /\ pc'[b] \in {"inserted", "called"} =>
                 pc[b] \in {"inserted", "called"} /\ row'[b] = row[b]
           /\ Asked(b)' => Asked(b)
    BY <1>6 DEF Reopen, ReadLatest, Unlock, CloseEvent, InspectLatest, Inspect, Asked,
       AfterLatest
  <2>. QED  BY <2>1, <2>2, OwnRowAside
<1>. QED  BY <1>1, <1>2, <1>3, <1>4, <1>5, <1>6 DEF Continue

LEMMA StepOwnRow == TrueRefusals /\ Core /\ [Next]_vars => OwnRow'
<1> SUFFICES ASSUME TrueRefusals, Core, [Next]_vars PROVE OwnRow'
  OBVIOUS
<1> USE Kinds3 DEF Core, Typed, TypeOK, Goto, Finish, database, ghost, actor
<1>1. ASSUME NEW i \in RowIds, Settle(i) PROVE OwnRow'
  BY <1>1 DEF Settle, OwnRow, Asked
<1>2. ASSUME LockAges \/ CancelCheck \/ CancelWrite \/ OrderDelivered \/ UNCHANGED vars
      PROVE  OwnRow'
  BY <1>2, OwnRowAside DEF LockAges, CancelCheck, CancelWrite, OrderDelivered, vars, Asked
<1>3. ASSUME NEW a \in Actors, Begin(a) \/ Die(a) \/ InsertThrows(a) PROVE OwnRow'
  <2>1. UNCHANGED <<gateway, rows>>
    BY <1>3 DEF Begin, RequestCheck, SweepFind, Deliver, Die, InsertThrows
  <2>2. \A b \in Requests :
           /\ pc'[b] \in {"inserted", "called"} =>
                 pc[b] \in {"inserted", "called"} /\ row'[b] = row[b]
           /\ Asked(b)' => Asked(b)
    BY <1>3 DEF Begin, RequestCheck, SweepFind, Deliver, Die, InsertThrows, Asked
  <2>. QED  BY <2>1, <2>2, OwnRowAside
<1>. QED  BY <1>1, <1>2, <1>3, ContinueOwnRow DEF Next

-----------------------------------------------------------------------------
(* The events.                                                             *)

\* The steps that leave every delivery where it is.
LEMMA NoDelivery ==
    ASSUME Typed, NEW a \in Actors, a \notin Deliveries,
           Continue(a) \/ RequestCheck(a) \/ SweepFind(a) \/ Die(a) \/ InsertThrows(a)
    PROVE  /\ UNCHANGED hook
           /\ \A d \in Deliveries : pc'[d] = pc[d] /\ event'[d] = event[d]
<1> USE Kinds3 DEF Typed, TypeOK, Roles, Goto, Finish, database
<1>1. pc[a] \notin {"reopen", "opened", "mark", "close"}
  BY DEF Actors
<1>2. CASE Continue(a)
  <2>1. ~Reopen(a) /\ ~ReadLatest(a) /\ ~MarkFailed(a) /\ ~CloseEvent(a)
    BY <1>1 DEF Reopen, ReadLatest, MarkFailed, CloseEvent
  <2>2. UNCHANGED hook
    BY <1>2, <2>1 DEF Continue, TakeLock, InsertAttempt, AskGateway, RecordAnswer, Release, Claw,
       FlipOrder, FlipIntent, CloseRow, Unlock, InspectLatest, Inspect
  <2>3. \A d \in Actors : d # a => pc'[d] = pc[d] /\ event'[d] = event[d]
    BY <1>2, <2>1 DEF Continue, TakeLock, InsertAttempt, AskGateway, RecordAnswer, Release, Claw,
       FlipOrder, FlipIntent, CloseRow, Unlock, InspectLatest, Inspect
  <2>. QED  BY <2>2, <2>3
<1>3. CASE RequestCheck(a) \/ SweepFind(a) \/ Die(a) \/ InsertThrows(a)
  BY <1>3 DEF RequestCheck, SweepFind, Die, InsertThrows
<1>. QED  BY <1>2, <1>3

\* What a delivery's step does to the deliveries and to the events.
LEMMA DeliveryStep ==
    ASSUME Typed, NEW a \in Deliveries, Continue(a)
    PROVE  /\ \A d \in Actors : d # a => pc'[d] = pc[d] /\ event'[d] = event[d]
           /\ pc[a] # "idle"
           /\ \/ UNCHANGED hook /\ pc[a] # "close" /\ pc'[a] # "idle" /\ event'[a] = event[a]
              \/ Reopen(a)
              \/ CloseEvent(a)
<1> USE Kinds3 DEF Typed, TypeOK, Roles, Goto, Finish, database
<1>1. /\ pc[a] \in {"idle", "reopen", "opened", "mark", "unlock", "close",
                    "claw", "order", "intent", "row"}
  OBVIOUS
<1>2. \/ Claw(a) \/ FlipOrder(a) \/ FlipIntent(a) \/ CloseRow(a)
      \/ Reopen(a) \/ ReadLatest(a) \/ MarkFailed(a) \/ Unlock(a) \/ CloseEvent(a)
  BY <1>1 DEF Continue, TakeLock, InsertAttempt, AskGateway, RecordAnswer, Release,
     InspectLatest, Inspect
<1>3. CASE Claw(a) \/ FlipOrder(a) \/ FlipIntent(a) \/ CloseRow(a)
  BY <1>3 DEF Claw, FlipOrder, FlipIntent, CloseRow
<1>4. CASE ReadLatest(a)
  <2>1. pc'[a] \in {"claw", "mark", "close"}
    BY <1>4 DEF ReadLatest, AfterLatest
  <2>. QED  BY <1>4, <2>1 DEF ReadLatest
<1>5. CASE MarkFailed(a) \/ Unlock(a)
  BY <1>5 DEF MarkFailed, Unlock
<1>6. CASE Reopen(a) \/ CloseEvent(a)
  BY <1>6 DEF Reopen, CloseEvent
<1>. QED  BY <1>2, <1>3, <1>4, <1>5, <1>6

LEMMA AroundEvents ==
    ASSUME \/ \E i \in RowIds : Settle(i)
           \/ LockAges \/ CancelCheck \/ CancelWrite \/ OrderDelivered \/ UNCHANGED vars
    PROVE  UNCHANGED <<hook, pc, event, row, reply, rows>>
  BY DEF Settle, LockAges, CancelCheck, CancelWrite, OrderDelivered, vars, database, actor

LEMMA StepHooked == Core /\ [Next]_vars => Hooked' /\ OnePerEvent'
<1> SUFFICES ASSUME Core, [Next]_vars PROVE Hooked' /\ OnePerEvent'
  OBVIOUS
<1>0. bounced \subseteq bounced' /\ scene'.deaths = scene.deaths
  BY Grows DEF Core
<1> USE <1>0, Kinds3 DEF Core, Hooked, OnePerEvent
<1>1. ASSUME UNCHANGED hook,
             \A d \in Deliveries : pc'[d] = pc[d] /\ event'[d] = event[d]
      PROVE  Hooked' /\ OnePerEvent'
  BY <1>1
<1>2. ASSUME NEW a \in Deliveries, Continue(a) PROVE Hooked' /\ OnePerEvent'
  <2>0. \A d \in Deliveries : d # a => pc'[d] = pc[d] /\ event'[d] = event[d]
    BY <1>2, DeliveryStep
  <2>1. pc[a] # "idle" /\ event[a] \in Events /\ hook \in [Events -> {"none", "open", "done"}]
    BY <1>2, DeliveryStep DEF Backed, Typed, TypeOK
  <2>2. CASE UNCHANGED hook /\ pc[a] # "close" /\ pc'[a] # "idle" /\ event'[a] = event[a]
    BY <2>0, <2>1, <2>2
  <2>3. CASE Reopen(a)
    <3>1. hook' = [hook EXCEPT ![event[a]] = "open"] /\ pc'[a] # "idle" /\ event'[a] = event[a]
      BY <2>3 DEF Reopen, Goto, Typed, TypeOK
    <3>. QED  BY <2>0, <2>1, <3>1
  <2>4. CASE CloseEvent(a)
    <3>1. hook' = [hook EXCEPT ![event[a]] = "done"] /\ pc'[a] = "idle"
      BY <2>4 DEF CloseEvent, Finish, Typed, TypeOK
    <3>. QED  BY <2>0, <2>1, <3>1
  <2>. QED  BY <1>2, <2>2, <2>3, <2>4, DeliveryStep
<1>3. ASSUME NEW a \in Actors, NEW e \in Events, Deliver(a, e) PROVE Hooked' /\ OnePerEvent'
  <2>1. /\ pc[a] = "idle" /\ a \in Deliveries /\ Emitted(e)
        /\ pc'[a] # "idle" /\ event'[a] = e
        /\ \A d \in Deliveries : d # a => pc'[d] = pc[d] /\ event'[d] = event[d]
        /\ hook' = [hook EXCEPT ![e] = IF @ = "none" THEN "open" ELSE @]
    BY <1>3 DEF Deliver, Typed, TypeOK
  <2>2. e[2] = "failed" => e[1] \in bounced
    BY <2>1 DEF Emitted
  <2>3. hook \in [Events -> {"none", "open", "done"}]
    BY DEF Typed, TypeOK
  <2>4. Hooked'
    BY <2>1, <2>2, <2>3
  <2>5. OnePerEvent'
    BY <2>1, <2>3
  <2>. QED  BY <2>4, <2>5
<1>4. ASSUME NEW a \in Deliveries, Die(a) PROVE Hooked' /\ OnePerEvent'
  <2>1. scene.deaths > 0
    BY <1>4, RefundsAssumption DEF Die, Typed, TypeOK, Scene
  <2>2. UNCHANGED hook /\ pc'[a] = "idle"
        /\ \A d \in Deliveries : d # a => pc'[d] = pc[d] /\ event'[d] = event[d]
    BY <1>4 DEF Die, Finish, Typed, TypeOK, database
  <2>. QED  BY <2>1, <2>2
<1>5. ASSUME NEW a \in Deliveries, RequestCheck(a) \/ SweepFind(a) \/ InsertThrows(a) PROVE FALSE
  BY <1>5 DEF RequestCheck, SweepFind, InsertThrows, Typed, Roles
<1>. QED  BY <1>1, <1>2, <1>3, <1>4, <1>5, NoDelivery, AroundEvents DEF Next, Begin

-----------------------------------------------------------------------------
(* The failures on record.                                                 *)

\* A step in which no row becomes failed, the gateway gets nothing, no lock is cleared,
\* and no request and no delivery gets to where it could do so.
LEMMA RecordedAside ==
    ASSUME Recorded, OwnRow, overtaken => overtaken', Repeats => Repeats', UNCHANGED gateway,
           DOMAIN rows \subseteq DOMAIN rows',
           \A i \in DOMAIN rows' : rows'[i].state = "failed" =>
              i \in DOMAIN rows /\ rows[i].state = "failed",
           lock # "free" => lock' # "free",
           \A a \in Requests : /\ Charging(a)' => Charging(a)
                               /\ pc'[a] = "inserted" => pc[a] = "inserted" /\ row'[a] = row[a]
                                                        /\ row[a] \in DOMAIN rows,
           \A i \in bounced : Untold(i)' => Untold(i) /\ hook'[<<i, "failed">>] # "done"
    PROVE  Recorded'
<1> SUFFICES ASSUME ~overtaken', ~Repeats' PROVE Recorded'
  BY DEF Recorded
<1> USE DEF Recorded, OwnRow, gateway
<1>1. \A i \in DOMAIN rows' : rows'[i].state = "failed" => i \notin moved' \cup inflight'
  OBVIOUS
<1>2. \A a \in Requests : pc'[a] = "inserted" => rows'[row'[a]].state # "failed"
  OBVIOUS
<1>3. ASSUME NEW i \in bounced', Untold(i)'
      PROVE  /\ lock' # "free" /\ moved' \cup inflight' = {}
             /\ \A a \in Requests : ~Charging(a)'
             /\ rows'[i].state # "failed" /\ hook'[<<i, "failed">>] # "done"
             /\ \A j \in bounced' : Untold(j)' => i = j
  BY <1>3
<1>. QED  BY <1>1, <1>2, <1>3

\* The events of the deliveries stay, and so does what they have not told.
LEMMA UntoldAside ==
    ASSUME Recorded, ~overtaken, ~Repeats, UNCHANGED hook,
           \A d \in Deliveries : pc'[d] \in {"reopen", "opened", "mark"} =>
              pc[d] \in {"reopen", "opened", "mark"} /\ event'[d] = event[d]
    PROVE  \A i \in bounced : Untold(i)' => Untold(i) /\ hook'[<<i, "failed">>] # "done"
  BY DEF Recorded, Untold

LEMMA RequestRecorded ==
    ASSUME TrueRefusals, IInv, NEW a \in Actors, a \notin Deliveries, Continue(a),
           Repeats => Repeats'
    PROVE  Recorded'
<1> USE Kinds3 DEF IInv, Core, Typed, TypeOK, Goto, Finish
<1>1. SUFFICES ASSUME ~overtaken', ~Repeats' PROVE Recorded'
  BY DEF Recorded
<1>2. ~overtaken /\ ~Repeats
  BY <1>1 DEF Continue, TakeLock, InsertAttempt, AskGateway, RecordAnswer, Release, Claw,
     FlipOrder, FlipIntent, CloseRow, Reopen, ReadLatest, MarkFailed, Unlock, CloseEvent,
     InspectLatest, Inspect, ghost
<1>3. \A i \in bounced : Untold(i)' => Untold(i) /\ hook'[<<i, "failed">>] # "done"
  BY <1>2, NoDelivery, UntoldAside
<1>4. \A b \in Requests : pc[b] \in {"inserted", "called"} => row[b] \in DOMAIN rows
  BY DEF RowKnown
<1>5. ASSUME NEW b \in Requests, Charging(b), bounced' = bounced
      PROVE  \A i \in bounced' : ~Untold(i)'
  BY <1>2, <1>3, <1>5 DEF Recorded
<1>6. CASE TakeLock(a)
  <2>1. CASE lock' # lock
    <3>1. lock = "free" /\ UNCHANGED <<rows, gateway>> /\ pc' = [pc EXCEPT ![a] = "locked"]
          /\ UNCHANGED row
      BY <1>6, <2>1 DEF TakeLock
    <3>2. \A i \in bounced' : ~Untold(i)'
      BY <1>2, <1>3, <3>1 DEF Recorded, gateway
    <3>. QED  BY <1>2, <3>1, <3>2 DEF Recorded, gateway
  <2>2. CASE lock' = lock
    <3>1. UNCHANGED <<rows, gateway>> /\ \A b \in Requests : b # a => pc'[b] = pc[b] /\ row'[b] = row[b] /\ reply'[b] = reply[b]
      BY <1>6 DEF TakeLock
    <3>2. pc'[a] = "idle"
      BY <1>6, <2>2 DEF TakeLock
    <3>3. \A b \in Requests : /\ Charging(b)' => Charging(b)
                              /\ pc'[b] = "inserted" => pc[b] = "inserted" /\ row'[b] = row[b]
      BY <3>1, <3>2 DEF Charging
    <3>. QED  BY <1>2, <1>3, <1>4, <2>2, <3>1, <3>3, RecordedAside
  <2>. QED  BY <2>1, <2>2
<1>7. CASE InsertAttempt(a)
  <2>1. a \in Requests /\ Charging(a) /\ UNCHANGED gateway
    BY <1>7 DEF InsertAttempt, Roles, Actors, Charging
  <2>2. \A i \in bounced' : ~Untold(i)'
    BY <2>1, <1>5 DEF gateway
  <2>3. /\ DOMAIN rows' = DOMAIN rows \cup {Len(rows) + 1} /\ Len(rows) + 1 \notin DOMAIN rows
        /\ \A j \in DOMAIN rows : rows'[j] = rows[j]
        /\ rows'[Len(rows) + 1].state = "pending"
    BY <1>7, RowInsert DEF InsertAttempt, Entry, Kinds, States
  <2>4. pc' = [pc EXCEPT ![a] = "inserted"] /\ row' = [row EXCEPT ![a] = Len(rows) + 1]
    BY <1>7 DEF InsertAttempt
  <2>5. \A i \in DOMAIN rows' : rows'[i].state = "failed" => i \notin moved' \cup inflight'
    BY <1>2, <2>1, <2>3 DEF Recorded, gateway
  <2>6. \A b \in Requests : pc'[b] = "inserted" => rows'[row'[b]].state # "failed"
    BY <1>2, <1>4, <2>1, <2>3, <2>4 DEF Recorded
  <2>. QED  BY <2>2, <2>5, <2>6 DEF Recorded
<1>8. ASSUME NEW out \in scene.replies, AskGateway(a, out) PROVE Recorded'
  <2>1. a \in Requests /\ Charging(a) /\ UNCHANGED <<rows, row, bounced>> /\ pc[a] = "inserted"
    BY <1>8 DEF AskGateway, Roles, Actors, Charging, database
  <2>2. \A i \in bounced' : ~Untold(i)'
    BY <2>1, <1>5
  <2>3. moved' \cup inflight' \subseteq moved \cup inflight \cup {row[a]}
    BY <1>8 DEF AskGateway
  <2>4. rows[row[a]].state # "failed"
    BY <1>2, <2>1 DEF Recorded
  <2>5. \A b \in Requests : pc'[b] = "inserted" => pc[b] = "inserted"
    BY <1>8 DEF AskGateway
  <2>. QED  BY <1>2, <2>1, <2>2, <2>3, <2>4, <2>5 DEF Recorded
<1>9. CASE RecordAnswer(a)
  <2>1. a \in Requests /\ UNCHANGED <<gateway, lock>> /\ pc[a] = "called"
    BY <1>9 DEF RecordAnswer, Roles, Actors
  <2>2. DOMAIN rows' = DOMAIN rows /\ \A j \in DOMAIN rows : j # row[a] => rows'[j] = rows[j]
    BY <1>9, RowUpdate DEF RecordAnswer, States
  <2>3. \A b \in Requests : /\ Charging(b)' => Charging(b)
                            /\ pc'[b] = "inserted" => pc[b] = "inserted" /\ row'[b] = row[b] /\ b # a
    BY <1>9, <2>1 DEF RecordAnswer, NextAfterReply, Charging
  <2>4. CASE reply[a] = "failed"
    <3>1. Charging(a) /\ row[a] \notin moved \cup inflight
      BY <2>1, <2>4 DEF Charging, OwnRow, Asked
    <3>2. \A i \in bounced' : ~Untold(i)'
      BY <2>1, <3>1, <1>5 DEF gateway
    <3>3. \A b \in Requests : pc'[b] = "inserted" => row[b] # row[a] /\ row[b] \in DOMAIN rows
      BY <1>4, <2>1, <2>3 DEF OwnRow
    <3>4. \A i \in DOMAIN rows' : rows'[i].state = "failed" => i \notin moved' \cup inflight'
      BY <1>2, <2>1, <2>2, <3>1 DEF Recorded, gateway
    <3>5. \A b \in Requests : pc'[b] = "inserted" => rows'[row'[b]].state # "failed"
      BY <1>2, <2>2, <2>3, <3>3 DEF Recorded
    <3>. QED  BY <3>2, <3>4, <3>5 DEF Recorded
  <2>5. CASE reply[a] # "failed"
    <3>1. row[a] \in DOMAIN rows => rows'[row[a]].state = "pending"
      BY <1>9, <2>5, RowUpdate DEF RecordAnswer, States
    <3>. QED  BY <1>2, <1>3, <1>4, <2>1, <2>2, <2>3, <3>1, RecordedAside
  <2>. QED  BY <2>4, <2>5
<1>10. CASE Release(a)
  <2>1. a \in Requests /\ Charging(a) /\ UNCHANGED <<gateway, rows>>
    BY <1>10 DEF Release, Roles, Actors, Charging
  <2>2. \A i \in bounced' : ~Untold(i)'
    BY <2>1, <1>5 DEF gateway
  <2>3. \A b \in Requests : pc'[b] = "inserted" => pc[b] = "inserted" /\ row'[b] = row[b]
    BY <1>10 DEF Release
  <2>. QED  BY <1>2, <2>1, <2>2, <2>3 DEF Recorded, gateway
<1>11. CASE Claw(a)
  <2>1. DOMAIN rows \subseteq DOMAIN rows'
        /\ \A i \in DOMAIN rows' : rows'[i].state = "failed" =>
              i \in DOMAIN rows /\ rows[i].state = "failed"
    BY <1>11, RowInsert DEF Claw, Entry, Kinds, States
  <2>2. \A b \in Requests : /\ Charging(b)' => Charging(b)
                            /\ pc'[b] = "inserted" => pc[b] = "inserted" /\ row'[b] = row[b]
    BY <1>11 DEF Claw, Charging
  <2>. QED  BY <1>2, <1>3, <1>4, <1>11, <2>1, <2>2, RecordedAside DEF Claw
<1>12. CASE CloseRow(a)
  <2>1. DOMAIN rows \subseteq DOMAIN rows'
        /\ \A i \in DOMAIN rows' : rows'[i].state = "failed" =>
              i \in DOMAIN rows /\ rows[i].state = "failed"
    BY <1>12, RowUpdate DEF CloseRow, States
  <2>2. \A b \in Requests : /\ Charging(b)' => Charging(b)
                            /\ pc'[b] = "inserted" => pc[b] = "inserted" /\ row'[b] = row[b]
    BY <1>12 DEF CloseRow, Charging
  <2>. QED  BY <1>2, <1>3, <1>4, <1>12, <2>1, <2>2, RecordedAside DEF CloseRow
<1>13. CASE FlipOrder(a) \/ FlipIntent(a) \/ InspectLatest(a)
  <2>1. UNCHANGED <<gateway, rows, lock>>
    BY <1>13 DEF FlipOrder, FlipIntent, InspectLatest, Inspect, database
  <2>2. \A b \in Requests : /\ Charging(b)' => Charging(b)
                            /\ pc'[b] = "inserted" => pc[b] = "inserted" /\ row'[b] = row[b]
    BY <1>13 DEF FlipOrder, FlipIntent, InspectLatest, Inspect, Charging, Roles
  <2>. QED  BY <1>2, <1>3, <1>4, <2>1, <2>2, RecordedAside
<1>14. CASE Unlock(a)
  <2>1. UNCHANGED <<gateway, rows>> /\ ~AtStake
    BY <1>1, <1>14 DEF Unlock
  <2>2. \A i \in bounced' : ~Untold(i)'
    BY <1>2, <1>3, <2>1 DEF AtStake, Recorded, gateway
  <2>3. \A b \in Requests : pc'[b] = "inserted" => pc[b] = "inserted" /\ row'[b] = row[b]
    BY <1>14 DEF Unlock
  <2>. QED  BY <1>2, <2>1, <2>2, <2>3 DEF Recorded, gateway
<1>15. ~Reopen(a) /\ ~ReadLatest(a) /\ ~MarkFailed(a) /\ ~CloseEvent(a)
  BY DEF Reopen, ReadLatest, MarkFailed, CloseEvent, Roles, Actors
<1>. QED
  BY <1>6, <1>7, <1>8, <1>9, <1>10, <1>11, <1>12, <1>13, <1>14, <1>15 DEF Continue

LEMMA DeliveryRecorded ==
    ASSUME OneDelivery, IInv, NEW a \in Deliveries, Continue(a), Repeats => Repeats'
    PROVE  Recorded'
<1> USE Kinds3 DEF IInv, Core, Typed, TypeOK, Goto, Finish
<1>1. SUFFICES ASSUME ~overtaken', ~Repeats' PROVE Recorded'
  BY DEF Recorded
<1>2. \/ Claw(a) \/ FlipOrder(a) \/ FlipIntent(a) \/ CloseRow(a) \/ ReadLatest(a)
      \/ MarkFailed(a) \/ Unlock(a) \/ Reopen(a) \/ CloseEvent(a)
  BY DEF Continue, TakeLock, InsertAttempt, AskGateway, RecordAnswer, Release,
     InspectLatest, Inspect, Roles
<1>3. ~overtaken /\ ~Repeats /\ UNCHANGED gateway
  BY <1>1, <1>2 DEF Claw, FlipOrder, FlipIntent, CloseRow, ReadLatest, MarkFailed, Unlock,
     Reopen, CloseEvent, ghost
<1>4. \A b \in Actors : b # a => /\ pc'[b] = pc[b] /\ row'[b] = row[b]
                                 /\ reply'[b] = reply[b] /\ event'[b] = event[b]
  BY <1>2 DEF Claw, FlipOrder, FlipIntent, CloseRow, ReadLatest, MarkFailed, Unlock,
     Reopen, CloseEvent
<1>5. \A b \in Requests : /\ Charging(b)' <=> Charging(b)
                          /\ pc'[b] = pc[b] /\ row'[b] = row[b]
                          /\ pc[b] = "inserted" => row[b] \in DOMAIN rows /\ Charging(b)
  BY <1>4 DEF Charging, RowKnown
<1>6. pc[a] # "idle" => /\ event[a] \in Events /\ hook[event[a]] # "none"
                        /\ event[a][2] = "failed" => event[a][1] \in bounced
  BY DEF Backed, Emitted, Hooked
<1>7. CASE Claw(a) \/ FlipOrder(a) \/ FlipIntent(a) \/ CloseRow(a) \/ ReadLatest(a)
  <2>1. UNCHANGED <<hook, lock>>
    BY <1>7 DEF Claw, FlipOrder, FlipIntent, CloseRow, ReadLatest, database
  <2>2. DOMAIN rows \subseteq DOMAIN rows'
        /\ \A i \in DOMAIN rows' : rows'[i].state = "failed" =>
              i \in DOMAIN rows /\ rows[i].state = "failed"
    BY <1>7, RowUpdate, RowInsert DEF Claw, FlipOrder, FlipIntent, CloseRow, ReadLatest, database,
       Entry, Kinds, States
  <2>3. pc'[a] \in {"reopen", "opened", "mark"} =>
           pc[a] \in {"reopen", "opened", "mark"} /\ event'[a] = event[a]
    BY <1>7 DEF Claw, FlipOrder, FlipIntent, CloseRow, ReadLatest
  <2>4. \A i \in bounced : Untold(i)' => Untold(i) /\ hook'[<<i, "failed">>] # "done"
    BY <1>3, <1>4, <2>1, <2>3, UntoldAside
  <2>. QED  BY <1>3, <1>5, <2>1, <2>2, <2>4, RecordedAside
<1>8. CASE Unlock(a)
  <2>1. UNCHANGED <<rows, hook>> /\ ~AtStake /\ pc'[a] \in {"idle", "close"}
    BY <1>1, <1>8 DEF Unlock
  <2>2. \A i \in bounced : Untold(i)' => Untold(i)
    BY <1>4, <2>1 DEF Untold
  <2>3. \A i \in bounced' : ~Untold(i)'
    BY <1>3, <2>1, <2>2 DEF AtStake, Recorded, gateway
  <2>. QED  BY <1>3, <1>5, <2>1, <2>3 DEF Recorded, gateway
<1>9. CASE MarkFailed(a)
  <2>1. /\ pc[a] = "mark" /\ pc'[a] = "unlock" /\ UNCHANGED hook
    BY <1>9 DEF MarkFailed
  <2>2. /\ event[a] = <<event[a][1], "failed">> /\ event[a][1] \in bounced
        /\ Untold(event[a][1])
    BY <1>6, <2>1 DEF Backed, Untold, Events
  <2>3. /\ moved \cup inflight = {} /\ \A b \in Requests : ~Charging(b)
        /\ \A j \in bounced : Untold(j) => event[a][1] = j
    BY <1>3, <2>2 DEF Recorded
  <2>4. ASSUME NEW i \in bounced', Untold(i)' PROVE FALSE
    <3>1. \/ hook[<<i, "failed">>] = "none"
          \/ \E d \in Deliveries \ {a} : pc[d] # "idle" /\ event[d] = <<i, "failed">>
      BY <1>4, <2>1, <2>4 DEF Untold
    <3>2. Untold(i) /\ i \in bounced
      BY <1>3, <1>4, <2>1, <2>4 DEF Untold, gateway
    <3>3. event[a] = <<i, "failed">>
      BY <2>2, <2>3, <3>2
    <3>. QED  BY <1>6, <2>1, <3>1, <3>3 DEF OneDelivery
  <2>. QED  BY <1>3, <1>5, <2>3, <2>4 DEF Recorded, gateway
<1>10. CASE Reopen(a)
  <2>1. /\ pc[a] = "reopen" /\ event'[a] = event[a] /\ UNCHANGED <<rows, lock>>
        /\ hook' = [hook EXCEPT ![event[a]] = "open"]
    BY <1>10 DEF Reopen
  <2>2. ASSUME NEW i \in bounced, Untold(i)' PROVE Untold(i) /\ hook'[<<i, "failed">>] # "done"
    <3>1. Untold(i)
      BY <1>4, <1>6, <2>1, <2>2 DEF Untold
    <3>2. hook[<<i, "failed">>] # "done"
      BY <1>3, <3>1 DEF Recorded
    <3>. QED  BY <2>1, <3>1, <3>2
  <2>. QED  BY <1>3, <1>5, <2>1, <2>2, RecordedAside
<1>11. CASE CloseEvent(a)
  <2>1. /\ pc[a] = "close" /\ pc'[a] = "idle" /\ UNCHANGED <<rows, lock>>
        /\ hook' = [hook EXCEPT ![event[a]] = "done"]
    BY <1>11 DEF CloseEvent
  <2>2. ASSUME NEW i \in bounced, Untold(i)' PROVE Untold(i) /\ hook'[<<i, "failed">>] # "done"
    <3>1. ASSUME event[a] = <<i, "failed">> PROVE FALSE
      <4>1. hook'[<<i, "failed">>] = "done"
        BY <1>6, <2>1, <3>1
      <4>2. PICK d \in Deliveries : pc'[d] \in {"reopen", "opened", "mark"} /\ event'[d] = <<i, "failed">>
        BY <2>2, <4>1 DEF Untold
      <4>3. d # a /\ pc[d] # "idle" /\ event[d] = event[a]
        BY <1>4, <2>1, <3>1, <4>2
      <4>. QED  BY <2>1, <4>3 DEF OneDelivery
    <3>2. Untold(i) /\ hook'[<<i, "failed">>] = hook[<<i, "failed">>]
      BY <1>4, <1>6, <2>1, <2>2, <3>1 DEF Untold
    <3>. QED  BY <1>3, <3>2 DEF Recorded
  <2>. QED  BY <1>3, <1>5, <2>1, <2>2, RecordedAside
<1>. QED  BY <1>2, <1>7, <1>8, <1>9, <1>10, <1>11

LEMMA StepRecorded ==
    TrueRefusals /\ OneDelivery /\ OneDelivery' /\ IInv /\ [Next]_vars => Recorded'
<1> SUFFICES ASSUME TrueRefusals, OneDelivery, OneDelivery', IInv, [Next]_vars PROVE Recorded'
  OBVIOUS
<1>0. Repeats <=> Repeats'
  BY Grows DEF IInv, Core, Repeats
<1> USE Kinds3 DEF IInv, Core, Typed, TypeOK, Goto, Finish, database, gateway, ghost, actor
<1>1. SUFFICES ASSUME ~overtaken', ~Repeats' PROVE Recorded'
  BY DEF Recorded
<1>2. \A b \in Requests : pc[b] = "inserted" => row[b] \in DOMAIN rows /\ Charging(b)
  BY DEF RowKnown, Charging
<1>3. scene.deaths > 0 => bounced = {}
  BY <1>0, <1>1 DEF Repeats, Late
<1>4. ASSUME NEW a \in Actors, Continue(a) PROVE Recorded'
  BY <1>0, <1>4, RequestRecorded, DeliveryRecorded
<1>5. ASSUME NEW i \in RowIds, Settle(i) PROVE Recorded'
  <2>1. i \in inflight /\ inflight' = inflight \ {i} /\ ~overtaken /\ ~Repeats
        /\ UNCHANGED <<lock, rows, hook, pc, event, row, reply>>
    BY <1>0, <1>1, <1>5 DEF Settle
  <2>2. \A j \in bounced : ~Untold(j)
    BY <2>1 DEF Recorded
  <2>3. \A j : Untold(j)' <=> Untold(j)
    BY <2>1 DEF Untold
  <2>4. \A b \in Requests : Charging(b)' <=> Charging(b)
    BY <2>1 DEF Charging
  <2>5. moved' \cup inflight' \subseteq moved \cup inflight
    BY <1>5, <2>1 DEF Settle
  <2>6. /\ \A j \in DOMAIN rows' : rows'[j].state = "failed" => j \notin moved' \cup inflight'
        /\ \A b \in Requests : pc'[b] = "inserted" => rows'[row'[b]].state # "failed"
    BY <2>1, <2>5 DEF Recorded
  <2>7. CASE bounced' = bounced
    BY <2>2, <2>3, <2>6, <2>7 DEF Recorded
  <2>8. CASE bounced' = bounced \cup {i} /\ moved' = moved
    <3>1. /\ \A j, k \in moved \cup inflight : j = k
          /\ lock # "free" /\ \A b \in Requests : ~Charging(b)
      BY <2>1 DEF Lock
    <3>2. i \notin moved /\ i \notin bounced /\ i \in DOMAIN rows
      BY <2>1 DEF OwnRow
    <3>3. moved' \cup inflight' = {}
      BY <2>1, <2>8, <3>1, <3>2
    <3>4. rows[i].state # "failed"
      BY <2>1, <3>2 DEF Recorded
    <3>5. hook[<<i, "failed">>] = "none"
      BY <3>2 DEF Hooked, Events
    <3>6. \A j \in bounced' : Untold(j)' => j = i
      BY <2>2, <2>3, <2>8
    <3>. QED  BY <2>1, <2>4, <2>6, <3>1, <3>3, <3>4, <3>5, <3>6 DEF Recorded
  <2>. QED  BY <1>5, <2>7, <2>8 DEF Settle
<1>6. ASSUME ~overtaken, UNCHANGED <<rows, gateway>>, lock # "free" => lock' # "free",
             \A b \in Requests : /\ Charging(b)' => Charging(b)
                                 /\ pc'[b] = "inserted" => pc[b] = "inserted" /\ row'[b] = row[b],
             \A i \in bounced : Untold(i)' => Untold(i) /\ hook'[<<i, "failed">>] # "done"
      PROVE  Recorded'
  <2>1. \A b \in Requests : pc'[b] = "inserted" => pc[b] = "inserted" /\ row'[b] = row[b]
                                                  /\ row[b] \in DOMAIN rows
    BY <1>2, <1>6
  <2>2. DOMAIN rows \subseteq DOMAIN rows'
        /\ \A i \in DOMAIN rows' : rows'[i].state = "failed" =>
              i \in DOMAIN rows /\ rows[i].state = "failed"
    BY <1>6
  <2>. QED  BY <1>0, <1>6, <2>1, <2>2, RecordedAside
<1>7. ASSUME LockAges \/ CancelCheck \/ CancelWrite \/ OrderDelivered \/ UNCHANGED vars
      PROVE  Recorded'
  <2>1. /\ ~overtaken /\ UNCHANGED <<rows, gateway, hook, pc, event, row, reply>>
        /\ lock # "free" => lock' # "free"
    BY <1>1, <1>7 DEF LockAges, CancelCheck, CancelWrite, OrderDelivered, vars
  <2>2. \A i \in bounced : Untold(i)' => Untold(i) /\ hook'[<<i, "failed">>] # "done"
    BY <1>0, <1>1, <2>1, UntoldAside
  <2>. QED  BY <1>6, <2>1, <2>2 DEF Charging
<1>8. ASSUME NEW a \in Actors, RequestCheck(a) \/ SweepFind(a) \/ Die(a) \/ InsertThrows(a)
      PROVE  Recorded'
  <2>1. /\ ~overtaken /\ UNCHANGED <<rows, gateway, lock, hook>>
        /\ \A b \in Requests : /\ Charging(b)' => Charging(b)
                               /\ pc'[b] = "inserted" => pc[b] = "inserted" /\ row'[b] = row[b]
    BY <1>1, <1>8 DEF RequestCheck, SweepFind, Die, InsertThrows, Charging
  <2>2. CASE a \notin Deliveries
    <3>1. \A i \in bounced : Untold(i)' => Untold(i) /\ hook'[<<i, "failed">>] # "done"
      BY <1>0, <1>1, <1>8, <2>1, <2>2, NoDelivery, UntoldAside
    <3>. QED  BY <1>6, <2>1, <3>1
  <2>3. CASE a \in Deliveries
    <3>1. scene.left > 0
      BY <1>8, <2>3 DEF RequestCheck, SweepFind, Die, InsertThrows
    <3>2. scene.deaths > 0
      BY <3>1, RefundsAssumption DEF Scene
    <3>. QED  BY <1>3, <1>6, <2>1, <3>2
  <2>. QED  BY <2>2, <2>3
<1>9. ASSUME NEW a \in Actors, NEW e \in Events, Deliver(a, e) PROVE Recorded'
  <2>1. /\ a \in Deliveries /\ pc[a] = "idle" /\ hook[e] # "done" /\ ~overtaken
        /\ event' = [event EXCEPT ![a] = e]
        /\ hook' = [hook EXCEPT ![e] = IF @ = "none" THEN "open" ELSE @]
        /\ UNCHANGED <<rows, gateway, lock, row, reply>>
    BY <1>1, <1>9 DEF Deliver
  <2>2. \A b \in Actors : b # a => pc'[b] = pc[b] /\ event'[b] = event[b]
    BY <1>9 DEF Deliver
  <2>3. ASSUME NEW i \in bounced, Untold(i)' PROVE Untold(i) /\ hook'[<<i, "failed">>] # "done"
    <3>1. <<i, "failed">> \in Events
      BY DEF Events
    <3>2. CASE e # <<i, "failed">>
      <4>1. Untold(i) /\ hook'[<<i, "failed">>] = hook[<<i, "failed">>]
        BY <2>1, <2>2, <2>3, <3>1, <3>2 DEF Untold
      <4>. QED  BY <1>0, <1>1, <2>1, <4>1 DEF Recorded
    <3>3. CASE e = <<i, "failed">>
      <4>1. pc'[a] # "idle" /\ event'[a] = e
        BY <1>9, <2>1 DEF Deliver
      <4>2. \A d \in Deliveries : pc[d] # "idle" => event[d] # e
        BY <2>1, <2>2, <4>1 DEF OneDelivery
      <4>3. hook[e] # "open"
        BY <1>3, <2>1, <3>3, <4>2 DEF OnePerEvent
      <4>. QED  BY <2>1, <3>1, <3>3, <4>3 DEF Untold
    <3>. QED  BY <3>2, <3>3
  <2>. QED  BY <1>6, <2>1, <2>2, <2>3 DEF Charging
<1>. QED  BY <1>4, <1>5, <1>7, <1>8, <1>9 DEF Next, Begin

-----------------------------------------------------------------------------
(* A gateway that settles at once, and one sweep.                          *)

\* A step that leaves the table, the money and the lock alone, and no request with a
\* row it had not.
LEMMA AloneAside ==
    ASSUME Alone, Sweeps \subseteq Actors, scene'.replies = scene.replies,
           UNCHANGED <<rows, moved, lock, overtaken>>,
           \A a \in Requests :
              /\ pc'[a] = pc[a] \/ lock # "stale" \/ pc'[a] \in {"idle", "checked"}
              /\ pc'[a] = "inserted" => pc[a] = "inserted" /\ row'[a] = row[a],
           \A s \in Sweeps :
              /\ pc'[s] \in {"found", "unlock"} => pc[s] \in {"found", "unlock"} \/ lock = "stale"
              /\ pc'[s] = "unlock" => pc[s] = "unlock" \/ moved = {}
    PROVE  Alone'
  BY DEF Alone

LEMMA ContinueAlone ==
    ASSUME TrueRefusals, Core, NEW a \in Actors, Continue(a), scene'.replies = scene.replies
    PROVE  Alone'
<1>1. SUFFICES ASSUME "pending" \notin scene.replies, \A s, t \in Sweeps : s = t PROVE Alone'
  BY DEF Alone
<1>2. /\ ~overtaken
      /\ lock = "stale" => \A b \in Requests : pc[b] \in {"idle", "checked"}
      /\ \A s \in Sweeps : /\ pc[s] \in {"found", "unlock"} => lock = "stale"
                           /\ pc[s] = "unlock" => moved = {}
      /\ \A i \in moved, j \in DOMAIN rows : i <= j => rows[j].state # "failed"
      /\ \A b \in Requests :
            pc[b] = "inserted" => row[b] = Len(rows) /\ rows[row[b]].state # "failed"
  BY <1>1 DEF Core, Alone
<1>3. inflight = {} /\ bounced = {}
  BY <1>1 DEF Core, Late
<1>4. \A d \in Deliveries : pc[d] \notin {"mark", "unlock"}
  BY <1>3 DEF Core, Backed, Emitted
<1>5. /\ \A b \in Requests : Charging(b) => lock # "free" /\ moved = {}
      /\ \A b, c \in Requests : Charging(b) /\ Charging(c) => b = c
  BY <1>2, <1>3 DEF Core, Lock
<1>6. \A b \in Requests : pc[b] \in {"locked", "inserted", "release"} => Charging(b)
  BY DEF Charging
<1>7. \A i \in moved : i \in DOMAIN rows
  BY DEF Core, OwnRow
<1>8. Len(rows) \in Nat /\ DOMAIN rows = 1 .. Len(rows)
  BY DEF Core, Typed, TypeOK
<1>9. a \in Requests => lock # "stale" \/ pc[a] \in {"idle", "checked"}
  BY <1>2
<1> USE Kinds3 DEF Core, Typed, TypeOK, Goto, Finish, database, gateway, ghost
<1>10. CASE TakeLock(a)
  <2>1. CASE lock' # lock
    <3>1. lock = "free" /\ lock' = "fresh" /\ UNCHANGED <<rows, moved, overtaken, row>>
          /\ pc' = [pc EXCEPT ![a] = "locked"]
      BY <1>10, <2>1 DEF TakeLock
    <3>. QED  BY <1>2, <3>1 DEF Alone, Roles
  <2>2. CASE lock' = lock
    <3>1. pc' = [pc EXCEPT ![a] = "idle"] /\ row' = [row EXCEPT ![a] = 0]
          /\ UNCHANGED <<rows, moved, overtaken>>
      BY <1>10, <2>2 DEF TakeLock
    <3>. QED  BY <2>2, <3>1, AloneAside
  <2>. QED  BY <2>1, <2>2
<1>11. CASE InsertAttempt(a)
  <2>1. a \in Requests /\ Charging(a) /\ moved = {} /\ lock # "stale"
    BY <1>2, <1>5, <1>6, <1>11 DEF InsertAttempt, Roles, Actors
  <2>2. /\ UNCHANGED <<moved, lock, overtaken>> /\ pc' = [pc EXCEPT ![a] = "inserted"]
        /\ row' = [row EXCEPT ![a] = Len(rows) + 1]
    BY <1>11 DEF InsertAttempt
  <2>3. Len(rows') = Len(rows) + 1 /\ rows'[Len(rows) + 1].state = "pending"
    BY <1>11, RowInsert DEF InsertAttempt, Entry, Kinds, States
  <2>4. \A b \in Requests : pc'[b] = "inserted" => b = a
    BY <1>5, <1>6, <2>1, <2>2
  <2>. QED  BY <1>2, <2>1, <2>2, <2>3, <2>4 DEF Alone
<1>12. ASSUME NEW out \in scene.replies, AskGateway(a, out) PROVE Alone'
  <2>1. /\ a \in Requests /\ pc[a] = "inserted" /\ moved = {} /\ lock # "stale"
    BY <1>2, <1>5, <1>6, <1>12 DEF AskGateway, Roles, Actors
  <2>2. /\ UNCHANGED <<rows, lock, overtaken, row>> /\ pc' = [pc EXCEPT ![a] = "called"]
        /\ moved' \subseteq {row[a]}
    BY <1>12, <2>1 DEF AskGateway
  <2>3. \A b \in Requests : pc'[b] # "inserted"
    BY <1>5, <1>6, <2>1, <2>2
  <2>4. \A i \in moved', j \in DOMAIN rows : i <= j => rows[j].state # "failed"
    BY <1>2, <1>8, <2>1, <2>2
  <2>. QED  BY <1>2, <2>1, <2>2, <2>3, <2>4 DEF Alone
<1>13. CASE RecordAnswer(a)
  <2>1. a \in Requests /\ pc[a] = "called" /\ lock # "stale" /\ row[a] \in DOMAIN rows
    BY <1>2, <1>13 DEF RecordAnswer, Roles, Actors, RowKnown
  <2>2. /\ UNCHANGED <<moved, lock, overtaken>> /\ pc'[a] # "inserted"
        /\ \A b \in Actors : b # a => pc'[b] = pc[b] /\ row'[b] = row[b]
    BY <1>13 DEF RecordAnswer, NextAfterReply
  <2>3. /\ DOMAIN rows' = DOMAIN rows /\ Len(rows') = Len(rows)
        /\ \A j \in DOMAIN rows : j # row[a] => rows'[j] = rows[j]
        /\ reply[a] # "failed" => rows'[row[a]].state = "pending"
    BY <1>13, <2>1, RowUpdate DEF RecordAnswer, States
  <2>4. reply[a] = "failed" => moved = {}
    BY <1>5, <2>1 DEF Charging
  <2>5. \A i \in moved', j \in DOMAIN rows' : i <= j => rows'[j].state # "failed"
    BY <1>2, <2>2, <2>3, <2>4
  <2>6. \A b \in Requests : pc'[b] = "inserted" =>
           pc[b] = "inserted" /\ row'[b] = row[b] /\ row[b] # row[a] /\ row[b] \in DOMAIN rows
    BY <2>1, <2>2 DEF OwnRow, RowKnown
  <2>. QED  BY <1>2, <2>1, <2>2, <2>3, <2>5, <2>6 DEF Alone
<1>14. CASE Release(a)
  <2>1. a \in Requests /\ lock # "stale" /\ lock' = "free" /\ UNCHANGED <<rows, moved, overtaken>>
    BY <1>2, <1>14 DEF Release, Roles, Actors
  <2>2. pc' = [pc EXCEPT ![a] = "idle"] /\ row' = [row EXCEPT ![a] = 0]
    BY <1>14 DEF Release
  <2>. QED  BY <1>2, <2>1, <2>2 DEF Alone
<1>15. CASE Claw(a) \/ CloseRow(a)
  <2>1. \A b \in Requests : pc[b] # "inserted"
    BY <1>5, <1>6, <1>15 DEF Claw, CloseRow, Backed, Finalizing
  <2>2. \A i \in moved, j \in DOMAIN rows' : i <= j => rows'[j].state # "failed"
    BY <1>2, <1>15, RowInsert, RowUpdate DEF Claw, CloseRow, Entry, Kinds, States
  <2>3. /\ UNCHANGED <<moved, lock, overtaken>> /\ pc'[a] \in {"order", "idle", "close"}
        /\ \A b \in Actors : b # a => pc'[b] = pc[b]
        /\ pc[a] \in {"claw", "row"}
    BY <1>15 DEF Claw, CloseRow
  <2>. QED  BY <1>2, <1>9, <2>1, <2>2, <2>3 DEF Alone
<1>16. CASE FlipOrder(a) \/ FlipIntent(a)
  <2>1. /\ UNCHANGED <<rows, moved, lock, overtaken>>
        /\ pc'[a] \in {"idle", "intent", "row"} /\ pc[a] \in {"order", "intent"}
        /\ \A b \in Actors : b # a => pc'[b] = pc[b] /\ row'[b] = row[b]
    BY <1>16 DEF FlipOrder, FlipIntent
  <2>. QED  BY <1>9, <2>1, AloneAside
<1>17. CASE Reopen(a) \/ ReadLatest(a) \/ CloseEvent(a)
  <2>1. a \in Deliveries /\ UNCHANGED <<rows, moved, lock, overtaken>>
        /\ \A b \in Actors : b # a => pc'[b] = pc[b] /\ row'[b] = row[b]
    BY <1>17 DEF Reopen, ReadLatest, CloseEvent, Roles, Actors
  <2>. QED  BY <2>1, AloneAside
<1>18. CASE Unlock(a)
  <2>1. a \in Sweeps /\ lock = "stale" /\ moved = {}
    BY <1>2, <1>4, <1>18 DEF Unlock, Roles, Actors
  <2>2. \A b \in Requests : ~Charging(b) /\ pc[b] # "inserted"
    BY <1>2, <2>1 DEF Charging
  <2>3. ~AtStake
    BY <1>3, <2>1, <2>2 DEF AtStake
  <2>4. /\ ~overtaken' /\ lock' = "free" /\ UNCHANGED <<rows, moved>>
        /\ pc' = [pc EXCEPT ![a] = "idle"]
    BY <1>2, <1>18, <2>1, <2>3 DEF Unlock
  <2>5. \A s \in Sweeps : pc'[s] = "idle"
    BY <1>1, <2>1, <2>4
  <2>6. \A b \in Requests : pc'[b] = pc[b]
    BY <2>1, <2>4
  <2>. QED  BY <2>1, <2>2, <2>4, <2>5, <2>6 DEF Alone
<1>19. CASE InspectLatest(a)
  <2>1. a \in Sweeps /\ lock = "stale" /\ UNCHANGED <<rows, moved, lock, overtaken>>
    BY <1>2, <1>19 DEF InspectLatest, Inspect, Roles, Actors
  <2>2. /\ pc'[a] \in {"claw", "unlock", "idle"}
        /\ pc'[a] = "unlock" => rows # <<>> /\ rows[Len(rows)].state = "failed"
        /\ \A b \in Actors : b # a => pc'[b] = pc[b] /\ row'[b] = row[b]
    BY <1>19 DEF InspectLatest, Inspect, Latest
  <2>3. pc'[a] = "unlock" => moved = {}
    BY <1>2, <1>7, <1>8, <2>2
  <2>. QED  BY <2>1, <2>2, <2>3, AloneAside
<1>20. ~MarkFailed(a)
  BY <1>4 DEF MarkFailed, Roles, Actors
<1>. QED
  BY <1>10, <1>11, <1>12, <1>13, <1>14, <1>15, <1>16, <1>17, <1>18, <1>19, <1>20 DEF Continue

LEMMA StepAlone == TrueRefusals /\ Core /\ [Next]_vars => Alone'
<1> SUFFICES ASSUME TrueRefusals, Core, [Next]_vars PROVE Alone'
  OBVIOUS
<1>0. scene'.replies = scene.replies
  BY Grows DEF Core
<1> USE Kinds3 DEF Core, Typed, TypeOK, Goto, Finish, database, gateway, ghost, actor
<1>1. ASSUME NEW a \in Actors, Continue(a) PROVE Alone'
  BY <1>0, <1>1, ContinueAlone
<1>2. ASSUME NEW i \in RowIds, Settle(i) PROVE Alone'
  BY <1>0, <1>2 DEF Settle, Late, Alone
<1>3. CASE LockAges
  BY <1>0, <1>3 DEF LockAges, Alone
<1>4. ASSUME CancelCheck \/ CancelWrite \/ OrderDelivered \/ UNCHANGED vars PROVE Alone'
  BY <1>0, <1>4, AloneAside DEF CancelCheck, CancelWrite, OrderDelivered, vars
<1>5. ASSUME NEW a \in Actors, Begin(a) \/ Die(a) PROVE Alone'
  <2>1. UNCHANGED <<rows, moved, lock, overtaken>>
    BY <1>5 DEF Begin, RequestCheck, SweepFind, Deliver, Die
  <2>2. /\ \A b \in Requests : pc'[b] \in {pc[b], "idle", "checked"}
        /\ \A b \in Requests : pc'[b] = "inserted" => pc[b] = "inserted" /\ row'[b] = row[b]
        /\ \A s \in Sweeps : pc'[s] \in {pc[s], "idle"} \/ (pc'[s] = "found" /\ lock = "stale")
    BY <1>5 DEF Begin, RequestCheck, SweepFind, Deliver, Die
  <2>. QED  BY <1>0, <2>1, <2>2, AloneAside
<1>6. ASSUME NEW a \in Actors, InsertThrows(a) PROVE Alone'
  <2>1. /\ a \in Requests /\ pc[a] = "locked" /\ UNCHANGED <<rows, moved, lock, overtaken, row>>
        /\ pc' = [pc EXCEPT ![a] = "release"]
    BY <1>6 DEF InsertThrows, Roles, Actors
  <2>. QED  BY <1>0, <2>1 DEF Alone
<1>. QED  BY <1>1, <1>2, <1>3, <1>4, <1>5, <1>6 DEF Next

-----------------------------------------------------------------------------
(* The theorems.                                                           *)

LEMMA InitInv == Init => IInv
<1> SUFFICES ASSUME Init PROVE IInv
  OBVIOUS
<1>1. Typed
  BY InitTyped
<1>2. /\ DOMAIN rows = {} /\ moved = {} /\ inflight = {} /\ bounced = {}
      /\ \A a \in Actors : pc[a] = "idle"
      /\ \A e \in Events : hook[e] = "none"
      /\ ~overtaken /\ lock = "free" /\ status = "paid"
  BY DEF Init
<1>3. \A a \in Actors : ~Finalizing(a) /\ ~Charging(a) /\ ~Asked(a)
  BY <1>2 DEF Finalizing, Charging, Asked
<1> USE <1>2, <1>3, Kinds3
<1>4. Backed /\ Finalized /\ Late
  BY DEF Backed, Finalized, Late
<1>5. Lock /\ OwnRow
  BY DEF Lock, OwnRow
<1>6. OnePerEvent /\ Hooked
  BY DEF OnePerEvent, Hooked
<1>7. Recorded /\ Alone
  BY DEF Recorded, Alone
<1>. QED  BY <1>1, <1>4, <1>5, <1>6, <1>7 DEF IInv, Core

\* What the shop shows of a refund is not ahead of what happened, whatever the gateway
\* answers and whoever dies: the order says refunded only after the money went back,
\* and an attempt says processed only after the clawback and the intent ("mark the
\* audit row processed last").
THEOREM NothingShownEarly ==
    Spec => [](/\ status = "refunded" => moved # {}
               /\ \A i \in DOMAIN rows :
                     rows[i].state = "processed" => clawed /\ intent = "refunded")
<1>1. Init => Typed /\ Backed /\ Finalized
  BY InitInv DEF IInv, Core
<1>2. Typed /\ Backed /\ Finalized /\ [Next]_vars => (Typed /\ Backed /\ Finalized)'
  BY StepTyped, StepBacked, StepFinalized
<1>3. Typed /\ Backed /\ Finalized =>
         /\ status = "refunded" => moved # {}
         /\ \A i \in DOMAIN rows :
               rows[i].state = "processed" => clawed /\ intent = "refunded"
  BY DEF Backed, Finalized
<1>. QED  BY <1>1, <1>2, <1>3, PTL DEF Spec

LEMMA StepCore == TrueRefusals /\ Core /\ [Next]_vars => Core'
<1> SUFFICES ASSUME TrueRefusals, Core, [Next]_vars PROVE Core'
  OBVIOUS
<1>1. Typed' /\ Backed' /\ Finalized'
  BY StepTyped, StepBacked, StepFinalized DEF Core
<1>2. Late' /\ Lock' /\ OwnRow' /\ Alone'
  BY StepLate, StepLock, StepOwnRow, StepAlone
<1>3. OnePerEvent' /\ Hooked'
  BY StepHooked
<1>. QED  BY <1>1, <1>2, <1>3 DEF Core

\* The lock prevents double charges (orders.refund_started_at): where a refusal of the
\* gateway is true, the money goes back once unless a lock was cleared with something at
\* stake under it, and with a gateway that settles at once and one sweep none ever is.
THEOREM MoneyGoesBackOnce == TrueRefusals => (Spec => []MoneyBackOnce)
<1> SUFFICES ASSUME TrueRefusals PROVE Spec => []MoneyBackOnce
  OBVIOUS
<1>1. Init => Core
  BY InitInv DEF IInv
<1>2. Core /\ [Next]_vars => Core'
  BY StepCore
<1>3. Core => MoneyBackOnce
  <2> SUFFICES ASSUME Core PROVE MoneyBackOnce
    OBVIOUS
  <2>1. overtaken => "pending" \in scene.replies \/ \E s, t \in Sweeps : s # t
    BY DEF Core, Alone
  <2>2. CASE overtaken
    BY <2>1, <2>2 DEF MoneyBackOnce
  <2>3. CASE ~overtaken
    <3>1. \A i, j \in moved : i = j
      BY <2>3 DEF Core, Lock
    <3>2. CASE moved = {}
      BY <2>1, <3>2, FS_EmptySet DEF MoneyBackOnce
    <3>3. CASE moved # {}
      <4>1. PICK i \in moved : moved = {i}
        BY <3>1, <3>3
      <4>2. Cardinality(moved) = 1
        BY <4>1, FS_Singleton
      <4>. QED  BY <2>1, <4>2 DEF MoneyBackOnce
    <3>. QED  BY <3>2, <3>3
  <2>. QED  BY <2>2, <2>3
<1>. QED  BY <1>1, <1>2, <1>3, PTL DEF Spec

\* IInv is inductive.
THEOREM Invariance == TrueRefusals => (Spec /\ []OneDelivery => []IInv)
<1> SUFFICES ASSUME TrueRefusals PROVE Spec /\ []OneDelivery => []IInv
  OBVIOUS
<1>1. IInv /\ OneDelivery /\ OneDelivery' /\ [Next]_vars => IInv'
  BY StepCore, StepRecorded DEF IInv
<1>. QED  BY <1>1, InitInv, PTL DEF Spec

\* What the tables say is true, as RecordsAreTrue has it: where the gateway's refusals
\* are true and it does not deliver an event twice at a time, an attempt on record as failed has
\* sent no money unless a lock was cleared over it or a dead delivery was repeated.
THEOREM RecordsTrue == TrueRefusals => (Spec /\ []OneDelivery => []RecordsAreTrue)
<1> SUFFICES ASSUME TrueRefusals PROVE Spec /\ []OneDelivery => []RecordsAreTrue
  OBVIOUS
<1>1. IInv => RecordsAreTrue
  BY DEF IInv, Core, Backed, Finalized, Recorded, Repeats, RecordsAreTrue
<1>2. Spec /\ []OneDelivery => []IInv
  BY Invariance
<1>. QED  BY <1>1, <1>2, PTL
=============================================================================
