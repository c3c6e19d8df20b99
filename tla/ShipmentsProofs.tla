--------------------------- MODULE ShipmentsProofs ---------------------------
(***************************************************************************)
(* The shipment of an order, for any number of workers, recipients, scans, *)
(* dispatches and deaths.                                                  *)
(*                                                                         *)
(* What holds through every race and death is what a worker knows at its   *)
(* label (AtLabel) and what the tables say by themselves (Stored).  As     *)
(* long as no two dispatches crossed and none was lost, one at most is     *)
(* with the carrier, and the parcel has its row or a worker that is about  *)
(* to insert it (Parcel).  The rest is about calls that do not overlap:    *)
(* then one worker at most is busy (Alone), and as long as none has died   *)
(* the row and the events agree between two calls (Settled) and within a   *)
(* call up to where it has got (Mine).                                     *)
(***************************************************************************)
EXTENDS Shipments, SequenceTheorems, TLAPS

\* What a worker may rely on at its label, whoever has stepped in between.
AtLabel(w) ==
    /\ pc[w] \notin {"idle", "book", "insert", "cancel"} => shipment # "none"
    /\ pc[w] = "record" => ev[w].id \in Notices
    /\ pc[w] = "unlocked" => ev[w].id = <<"unlock", 0>> /\ ev[w].status = "delivered"
    /\ pc[w] \in {"return", "returned"} => ev[w].id = <<"return", 0>>
    /\ pc[w] = "newest" => events # {}
    /\ pc[w] \in {"current", "project"} =>
           latest[w] \in Statuses /\ (latest[w] = "delivered" => HasProof)
    /\ pc[w] \in {"emptied", "order", "check", "split"} => HasProof
    /\ pc[w] = "split" => config.gateway = "cod" /\ nth[w] \in 1 .. Recipients

\* The events have a newest; each says what its id is for; and what follows from a
\* proof of delivery comes after it.
Stored ==
    /\ events # {} => \E e \in events : \A f \in events : f.at <= e.at
    /\ \A e \in events : e.id = <<"unlock", 0>> => e.status = "delivered"
    /\ \A k \in DOMAIN trail : trail[k].id \in Notices
    /\ events # {} => shipment # "none"
    /\ box # "none" => shipment # "none"
    /\ order = "delivered" => HasProof
    /\ shares # {} => config.gateway = "cod" /\ HasProof

\* Two calls at a time make lapped true, and the guard of ReadCurrent still holds at
\* the write if they did not.
Alone ==
    ~lapped =>
        /\ \A v, w \in Workers : pc[v] # "idle" /\ pc[w] # "idle" => v = w
        /\ \A w \in Workers : pc[w] = "project" /\ shipment \in Terminal => latest[w] \in Terminal

\* The shipment shows the newest event, or an end.
Settled == events # {} => shipment = Newest.status \/ shipment \in Terminal

\* Within the only call: before the seed no event can be there, and between the insert
\* of an event and the write of the status the shipment may lag behind.
Mine(w) ==
    /\ pc[w] \in {"reserve", "seed"} => events = {} /\ shipment = "label_created"
    /\ pc[w] \in {"current", "project"} => latest[w] = Newest.status
    /\ pc[w] \notin {"newest", "current", "project", "emptied", "back"} => Settled

\* What the calls achieve as long as they do not overlap and do not die.
Undisturbed ==
    ~lapped /\ deaths = 0 =>
        /\ Quiet => Settled
        /\ \A w \in Workers : pc[w] # "idle" => Mine(w)

AtCarrier(w) == pc[w] \in {"book", "insert"}

\* Between the look-up and the row: one dispatch at a time, who finds that nothing has
\* been booked, and a parcel without a row has a worker that is about to insert it.
Parcel ==
    ~crossed /\ ~strayed =>
        /\ \A v, w \in Workers : AtCarrier(v) /\ AtCarrier(w) => v = w
        /\ \A w \in Workers : pc[w] = "book" => booked = 0
        /\ booked <= 1
        /\ booked = 1 => shipment # "none" \/ \E w \in Workers : pc[w] = "insert"

\* What no race and no death can disturb.
Facts == (\A w \in Workers : AtLabel(w)) /\ Stored

\* The inductive invariant.
IInv == TypeOK /\ Facts /\ Parcel /\ Alone /\ Undisturbed

-----------------------------------------------------------------------------
\* The ids of the seed, of the unlock, of the return and of the notices are kept apart.
LEMMA Ids ==
    /\ <<"init", 0>> \in EventIds /\ <<"unlock", 0>> \in EventIds
    /\ <<"return", 0>> \in EventIds /\ <<"collected", 0>> \in Notices
    /\ Notices \subseteq EventIds
    /\ \A k \in 1 .. MaxScans : <<"scan", k>> \in Notices
    /\ <<"unlock", 0>> \notin Notices
    /\ <<"unlock", 0>> # <<"init", 0>> /\ <<"unlock", 0>> # <<"return", 0>>
  <1>1. \A k : <<"unlock", 0>> # <<"scan", k>> /\ <<"unlock", 0>> # <<"collected", 0>>
    OBVIOUS
  <1> QED BY <1>1 DEF EventIds, Notices

LEMMA NoEventType == NoEvent \in Event
  <1>1. <<"init", 0>> \in EventIds
    BY Ids
  <1> QED BY <1>1 DEF NoEvent, Event, Statuses

LEMMA Stamped ==
    ASSUME NEW id \in EventIds, NEW status \in Statuses, NEW at \in Nat
    PROVE  [id |-> id, status |-> status, at |-> at] \in Event
  BY DEF Event

LEMMA Dated ==
    ASSUME NEW e \in Event, NEW at \in Nat
    PROVE  [e EXCEPT !.at = at + 1] \in Event
  BY DEF Event

LEMMA ProperEvents ==
    ASSUME NEW at \in Nat
    PROVE  /\ [id |-> <<"init", 0>>, status |-> "label_created", at |-> at + 1] \in Event
           /\ [id |-> <<"collected", 0>>, status |-> "delivered", at |-> at + 1] \in Event
           /\ [id |-> <<"unlock", 0>>, status |-> "delivered", at |-> at + 1] \in Event
           /\ [id |-> <<"return", 0>>, status |-> "returned", at |-> at + 1] \in Event
  <1>1. {"label_created", "delivered", "returned"} \subseteq Statuses
    BY DEF Statuses, Terminal
  <1>2. at + 1 \in Nat
    OBVIOUS
  <1> QED BY <1>1, <1>2, Ids, Stamped

\* The row of an event is inserted once, and nothing else is touched.
LEMMA Inserted ==
    ASSUME TypeOK, Stored, NEW e \in Event
    PROVE  /\ Insert(e) \subseteq Event /\ events \subseteq Insert(e)
           /\ \A f, g \in Insert(e) : f.id = g.id => f = g
           /\ \A f \in Insert(e) : f \in events \/ f = e
           /\ \E f \in Insert(e) : f.id = e.id
           /\ \E f \in Insert(e) : \A g \in Insert(e) : g.at <= f.at
  <1>1. events \subseteq Event /\ \A f, g \in events : f.id = g.id => f = g
    BY DEF TypeOK
  <1>2. CASE \E f \in events : f.id = e.id
    BY <1>1, <1>2 DEF Insert, Stored
  <1>3. CASE ~ \E f \in events : f.id = e.id
    <2>1. Insert(e) = events \cup {e}
      BY <1>3 DEF Insert
    <2>2. \A f \in Insert(e) : f.at \in Nat
      BY <1>1, <2>1 DEF Event
    <2>3. \E f \in Insert(e) : \A g \in Insert(e) : g.at <= f.at
      <3>1. CASE events = {}
        BY <2>1, <2>2, <3>1
      <3>2. CASE events # {}
        <4>1. PICK m \in events : \A f \in events : f.at <= m.at
          BY <3>2 DEF Stored
        <4>2. CASE e.at <= m.at
          BY <2>1, <4>1, <4>2
        <4>3. CASE m.at <= e.at
          BY <2>1, <2>2, <4>1, <4>3
        <4> QED BY <2>1, <2>2, <4>1, <4>2, <4>3
      <3> QED BY <3>1, <3>2
    <2> QED BY <1>1, <1>3, <2>1, <2>3
  <1> QED BY <1>2, <1>3

\* ORDER BY occurred_at DESC LIMIT 1 finds a row once there is one.
LEMMA NewestStored ==
    ASSUME TypeOK, Stored, events # {}
    PROVE  Newest \in events /\ Newest.status \in Statuses
  <1>1. \E e \in events : \A f \in events : f.at <= e.at
    BY DEF Stored
  <1>2. Newest \in events
    BY <1>1 DEF Newest
  <1> QED BY <1>2 DEF TypeOK, Event

\* A proof of delivery stays: no code deletes an event of a shipment.
LEMMA ProofStays ==
    ASSUME HasProof, events \subseteq events' PROVE HasProof'
  BY DEF HasProof

-----------------------------------------------------------------------------
(* The types.                                                              *)

LEMMA TypeInit == Init => TypeOK
  <1> SUFFICES ASSUME Init PROVE TypeOK
    OBVIOUS
  <1>1. trail \in Seq(Event) /\ Len(trail) <= MaxScans
    BY ShipmentsAssumption DEF Init
  <1>2. nth \in [Workers -> 0 .. Recipients]
    BY ShipmentsAssumption DEF Init
  <1>3. ev \in [Workers -> Event]
    BY NoEventType DEF Init
  <1>4. starts \in 0 .. MaxDispatches /\ deaths \in 0 .. MaxDeaths
    BY ShipmentsAssumption DEF Init
  <1>5. /\ pc \in [Workers -> {"idle"}] /\ latest \in [Workers -> {"none"}]
        /\ config \in Orders /\ order = "open" /\ shipment = "none" /\ events = {}
        /\ box = "none" /\ shares = {} /\ expired = FALSE /\ booked = 0 /\ acked = {}
        /\ now = 0 /\ lapped = FALSE /\ crossed = FALSE /\ strayed = FALSE
    BY DEF Init
  <1> QED BY <1>1, <1>2, <1>3, <1>4, <1>5 DEF TypeOK

LEMMA TypeWorld ==
    ASSUME TypeOK, Expire \/ \E status \in Statuses : Scan(status)
    PROVE  TypeOK'
  <1>1. CASE Expire
    BY <1>1 DEF Expire, TypeOK, tables, history, mishaps, local
  <1>2. ASSUME NEW status \in Statuses, Scan(status) PROVE TypeOK'
    <2> DEFINE e == [id |-> <<"scan", Len(trail) + 1>>, status |-> status, at |-> now + 1]
    <2>1. Len(trail) \in Nat /\ Len(trail) + 1 \in 1 .. MaxScans /\ now + 1 \in Nat
             /\ trail \in Seq(Event)
      BY <1>2, ShipmentsAssumption DEF TypeOK, Scan
    <2>2. e \in Event
      BY <2>1, Ids, Stamped
    <2>3. trail' = Append(trail, e) /\ now' = now + 1
             /\ UNCHANGED <<config, tables, expired, booked, acked, history, local>>
      BY <1>2 DEF Scan
    <2> HIDE DEF e
    <2>4. trail' \in Seq(Event) /\ Len(trail') <= MaxScans
      BY <2>1, <2>2, <2>3, AppendProperties, ShipmentsAssumption
    <2> QED BY <2>1, <2>3, <2>4 DEF TypeOK, tables, history, mishaps, local
  <1> QED BY <1>1, <1>2

LEMMA TypeStart ==
    ASSUME TypeOK, NEW w \in Workers, Start(w) \/ Receive(w)
    PROVE  TypeOK'
  <1> USE DEF TypeOK, tables, world, history, mishaps, local, Begin
  <1>1. CASE Dispatch(w)
    BY <1>1, ShipmentsAssumption DEF Dispatch, MayDispatch, Cross
  <1>2. CASE Collected(w)
    <2>1. ev' \in [Workers -> Event]
      BY <1>2, ProperEvents DEF Collected
    <2> QED BY <1>2, <2>1 DEF Collected
  <1>3. CASE Unlock(w)
    BY <1>3 DEF Unlock
  <1>4. CASE FindExpired(w)
    <2>1. ev' \in [Workers -> Event]
      BY <1>4, ProperEvents DEF FindExpired, Stamp
    <2> QED BY <1>4, <2>1 DEF FindExpired, Stamp
  <1>5. CASE CancelRead(w)
    BY <1>5 DEF CancelRead
  <1>6. ASSUME NEW k \in 1 .. MaxScans, Deliver(w, k) PROVE TypeOK'
    <2>1. <<"scan", k>> \in Notices /\ k \in DOMAIN trail /\ trail[k] \in Event
      BY <1>6, Ids DEF Deliver
    <2>2. CASE shipment = "none"
      BY <1>6, <2>1, <2>2 DEF Deliver
    <2>3. CASE shipment # "none"
      <3>1. [trail[k] EXCEPT !.at = now + 1] \in Event
        BY <2>1, Dated
      <3>2. ev' \in [Workers -> Event] /\ now' \in Nat
        <4>1. CASE config.dated
          BY <1>6, <2>1, <2>3, <4>1 DEF Deliver, Take
        <4>2. CASE ~config.dated
          <5> DEFINE e == [trail[k] EXCEPT !.at = now + 1]
          <5>1. ev' = [ev EXCEPT ![w] = e] /\ now' = now + 1
            BY <1>6, <2>3, <4>2 DEF Deliver, Take
          <5>2. e \in Event
            BY <3>1
          <5> HIDE DEF e
          <5> QED BY <5>1, <5>2
        <4> QED BY <4>1, <4>2
      <3> QED BY <1>6, <2>3, <3>2 DEF Deliver, Take
    <2> QED BY <2>2, <2>3
  <1> QED BY <1>1, <1>2, <1>3, <1>4, <1>5, <1>6 DEF Start, Receive

\* A call that is over leaves nothing behind in its worker.
LEMMA TypeFinish ==
    ASSUME TypeOK, NEW w \in Workers, Finish(w) \/ (Forget(w) /\ UNCHANGED acked)
    PROVE  /\ pc' = [pc EXCEPT ![w] = "idle"] /\ acked' \subseteq Notices
           /\ ev' \in [Workers -> Event]
           /\ latest' \in [Workers -> Statuses \cup {"none"}]
           /\ nth' \in [Workers -> 0 .. Recipients]
  <1>1. ev' \in [Workers -> Event]
    BY NoEventType DEF TypeOK, Finish, Forget
  <1>2. nth' \in [Workers -> 0 .. Recipients]
    <2>1. nth \in [Workers -> 0 .. Recipients]
      BY DEF TypeOK
    <2>2. nth' = [nth EXCEPT ![w] = 0]
      BY DEF Finish, Forget
    <2> QED BY <2>1, <2>2, ShipmentsAssumption
  <1>3. acked' \subseteq Notices
    BY DEF TypeOK, Finish
  <1> QED BY <1>1, <1>2, <1>3 DEF TypeOK, Finish, Forget

\* Whoever goes on with a call has begun it, and begins no other.
LEMMA GoesOn ==
    ASSUME NEW w \in Workers, Continue(w) \/ SplitThrows(w) \/ Die(w)
    PROVE  pc[w] # "idle" /\ UNCHANGED <<lapped, crossed>>
  <1> USE DEF history, mishaps, local
  <1>1. CASE Book(w) \/ BookThrows(w) \/ InsertShipment(w) \/ Reserve(w) \/ SeedEvent(w)
    BY <1>1 DEF Book, BookThrows, InsertShipment, Reserve, SeedEvent
  <1>2. CASE RecordEvent(w) \/ ReadNewest(w) \/ ReadCurrent(w) \/ Project(w) \/ DeliverOrder(w)
    BY <1>2 DEF RecordEvent, ReadNewest, ReadStatus, ReadCurrent, Project, DeliverOrder
  <1>3. CASE CheckShares(w) \/ InsertShare(w)
    BY <1>3 DEF CheckShares, InsertShare
  <1>4. CASE Collect(w) \/ UnlockEvent(w) \/ UnlockShipment(w)
    BY <1>4 DEF Collect, UnlockEvent, UnlockShipment
  <1>5. CASE ReturnBox(w) \/ ReturnEvent(w) \/ ReturnShipment(w) \/ CancelWrite(w)
    BY <1>5 DEF ReturnBox, ReturnEvent, ReturnShipment, CancelWrite
  <1>6. CASE SplitThrows(w) \/ Die(w)
    BY <1>6 DEF SplitThrows, Die
  <1> QED BY <1>1, <1>2, <1>3, <1>4, <1>5, <1>6 DEF Continue

\* TypeOK in two parts: the tables, the world and the workers, and the history kept
\* beside them.
Typed ==
    /\ config \in Orders
    /\ order \in {"open", "cancelled", "delivered"}
    /\ shipment \in Statuses \cup {"none"}
    /\ events \subseteq Event
    /\ \A e, f \in events : e.id = f.id => e = f
    /\ box \in {"none", "reserved", "collected", "returned"}
    /\ expired \in BOOLEAN
    /\ shares \subseteq 1 .. Recipients /\ booked \in Nat
    /\ trail \in Seq(Event) /\ Len(trail) <= MaxScans
    /\ acked \subseteq Notices
    /\ now \in Nat /\ starts \in 0 .. MaxDispatches /\ deaths \in 0 .. MaxDeaths
    /\ pc \in [Workers -> {"idle", "book", "insert", "reserve", "seed", "record", "newest",
                           "current", "project", "order", "check", "split", "collect",
                           "unlocked", "emptied", "return", "returned", "back", "cancel"}]
    /\ ev \in [Workers -> Event]
    /\ latest \in [Workers -> Statuses \cup {"none"}]
    /\ nth \in [Workers -> 0 .. Recipients]

Marked == lapped \in BOOLEAN /\ crossed \in BOOLEAN /\ strayed \in BOOLEAN

LEMMA MarkedContinue ==
    ASSUME TypeOK, NEW w \in Workers, Continue(w) \/ SplitThrows(w) \/ Die(w)
    PROVE  Marked'
  <1>1. UNCHANGED <<lapped, crossed>>
    BY GoesOn
  <1>2. strayed \in BOOLEAN
    BY DEF TypeOK
  <1>3. strayed' \in BOOLEAN
    <2> USE DEF history, mishaps
    <2>1. CASE Book(w) \/ InsertShipment(w) \/ Reserve(w) \/ SeedEvent(w)
      BY <1>2, <2>1 DEF Book, InsertShipment, Reserve, SeedEvent
    <2>2. CASE BookThrows(w)
      BY <1>2, <2>2 DEF BookThrows
    <2>3. CASE RecordEvent(w) \/ ReadNewest(w) \/ ReadCurrent(w) \/ Project(w)
      BY <1>2, <2>3 DEF RecordEvent, ReadNewest, ReadStatus, ReadCurrent, Project
    <2>4. CASE DeliverOrder(w) \/ CheckShares(w) \/ InsertShare(w) \/ SplitThrows(w)
      BY <1>2, <2>4 DEF DeliverOrder, CheckShares, InsertShare, SplitThrows
    <2>5. CASE Collect(w) \/ UnlockEvent(w) \/ UnlockShipment(w)
      BY <1>2, <2>5 DEF Collect, UnlockEvent, UnlockShipment
    <2>6. CASE ReturnBox(w) \/ ReturnEvent(w) \/ ReturnShipment(w) \/ CancelWrite(w)
      BY <1>2, <2>6 DEF ReturnBox, ReturnEvent, ReturnShipment, CancelWrite
    <2>7. CASE Die(w)
      BY <1>2, <2>7 DEF Die
    <2> QED BY <2>1, <2>2, <2>3, <2>4, <2>5, <2>6, <2>7 DEF Continue
  <1> QED BY <1>1, <1>3 DEF TypeOK, Marked

LEMMA TypeContinue ==
    ASSUME TypeOK, Stored, NEW w \in Workers, AtLabel(w),
           Continue(w) \/ SplitThrows(w) \/ Die(w)
    PROVE  TypeOK'
  <1> SUFFICES Typed'
    BY MarkedContinue DEF TypeOK, Typed, Marked
  <1>0. Typed
    BY DEF TypeOK, Typed
  <1> USE <1>0 DEF Typed, tables, world, history, Goto
  <1>1. CASE Book(w)
    BY <1>1 DEF Book
  <1>2. CASE BookThrows(w)
    <2>1. booked' \in Nat
      BY <1>2 DEF BookThrows
    <2>2. /\ Finish(w)
          /\ UNCHANGED <<config, order, shipment, events, box, shares, expired, trail, now,
                         starts, deaths>>
      BY <1>2 DEF BookThrows
    <2> QED BY <2>1, <2>2, TypeFinish
  <1>3. CASE InsertShipment(w)
    <2>1. shipment' \in Statuses \cup {"none"}
      BY <1>3 DEF InsertShipment, Statuses
    <2>2. CASE shipment = "none"
      BY <1>3, <2>1, <2>2 DEF InsertShipment
    <2>3. CASE shipment # "none"
      BY <1>3, <2>1, <2>3, TypeFinish DEF InsertShipment
    <2> QED BY <2>2, <2>3
  <1>4. CASE Reserve(w)
    BY <1>4 DEF Reserve
  <1>5. CASE SeedEvent(w)
    <2> DEFINE e == [id |-> <<"init", 0>>, status |-> "label_created", at |-> now + 1]
    <2>1. e \in Event
      BY ProperEvents
    <2> HIDE DEF e
    <2>2. events' = Insert(e)
      BY <1>5 DEF SeedEvent, e
    <2>3. events' \subseteq Event /\ \A f, g \in events' : f.id = g.id => f = g
      BY <2>1, <2>2, Inserted
    <2>4. Finish(w) /\ now' \in Nat
             /\ UNCHANGED <<config, order, shipment, box, shares, expired, booked, trail, history>>
      BY <1>5 DEF SeedEvent
    <2> QED BY <2>3, <2>4, TypeFinish
  <1>6. CASE RecordEvent(w) \/ UnlockEvent(w) \/ ReturnEvent(w)
    <2>1. events' = Insert(ev[w]) /\ ev[w] \in Event
      BY <1>6 DEF RecordEvent, UnlockEvent, ReturnEvent
    <2>2. events' \subseteq Event /\ \A f, g \in events' : f.id = g.id => f = g
      BY <2>1, Inserted
    <2>3. CASE RecordEvent(w)
      BY <2>2, <2>3 DEF RecordEvent
    <2>4. CASE UnlockEvent(w)
      BY <2>2, <2>4 DEF UnlockEvent
    <2>5. CASE ReturnEvent(w)
      BY <2>2, <2>5 DEF ReturnEvent
    <2> QED BY <1>6, <2>3, <2>4, <2>5
  <1>7. CASE ReadNewest(w)
    <2>1. Newest.status \in Statuses
      BY <1>7, NewestStored DEF ReadNewest, ReadStatus, AtLabel
    <2> QED BY <1>7, <2>1 DEF ReadNewest, ReadStatus, local
  <1>8. CASE ReadCurrent(w)
    BY <1>8, TypeFinish DEF ReadCurrent
  <1>9. CASE Project(w)
    <2>1. shipment' \in Statuses
      BY <1>9 DEF Project, AtLabel
    <2> QED BY <1>9, <2>1, TypeFinish DEF Project
  <1>10. CASE DeliverOrder(w)
    BY <1>10 DEF DeliverOrder
  <1>11. CASE CheckShares(w)
    <2>1. CASE config.gateway = "cod" /\ shares = {}
      <3>1. 1 \in 0 .. Recipients
        BY ShipmentsAssumption
      <3> QED BY <1>11, <2>1, <3>1 DEF CheckShares, EnterSplit
    <2>2. CASE ~(config.gateway = "cod" /\ shares = {})
      BY <1>11, <2>2, TypeFinish DEF CheckShares
    <2> QED BY <2>1, <2>2
  <1>12. CASE InsertShare(w)
    <2>1. nth[w] \in 1 .. Recipients
      BY <1>12 DEF InsertShare, AtLabel
    <2>2. shares' \subseteq 1 .. Recipients
      BY <1>12, <2>1 DEF InsertShare
    <2>3. CASE nth[w] >= Recipients
      BY <1>12, <2>2, <2>3, TypeFinish DEF InsertShare
    <2>4. CASE ~(nth[w] >= Recipients)
      <3>1. /\ nth' = [nth EXCEPT ![w] = @ + 1]
            /\ UNCHANGED <<acked, pc, ev, latest, config, order, shipment, events, box, expired,
                           booked, trail, now, history>>
        BY <1>12, <2>4 DEF InsertShare
      <3>2. nth[w] + 1 \in 0 .. Recipients
        BY <2>1, <2>4, ShipmentsAssumption
      <3>3. nth' \in [Workers -> 0 .. Recipients]
        BY <3>1, <3>2
      <3> QED BY <2>2, <3>1, <3>3
    <2> QED BY <2>3, <2>4
  <1>13. CASE Collect(w)
    <2>1. ev' \in [Workers -> Event]
      BY <1>13, ProperEvents DEF Collect, Stamp
    <2> QED BY <1>13, <2>1 DEF Collect, Stamp
  <1>14. CASE UnlockShipment(w)
    BY <1>14 DEF UnlockShipment, Statuses, Terminal
  <1>15. CASE ReturnBox(w)
    BY <1>15, TypeFinish DEF ReturnBox
  <1>16. CASE ReturnShipment(w)
    BY <1>16, TypeFinish DEF ReturnShipment, Statuses, Terminal
  <1>17. CASE CancelWrite(w)
    BY <1>17, TypeFinish DEF CancelWrite
  <1>18. CASE SplitThrows(w)
    <2>1. deaths' \in 0 .. MaxDeaths
      BY <1>18, ShipmentsAssumption DEF SplitThrows, mishaps
    <2>2. /\ Finish(w) /\ UNCHANGED <<crossed, strayed>>
          /\ UNCHANGED <<config, tables, expired, booked, trail, now, starts, lapped>>
      BY <1>18 DEF SplitThrows, mishaps
    <2> QED BY <2>1, <2>2, TypeFinish
  <1>19. CASE Die(w)
    <2>1. deaths' \in 0 .. MaxDeaths
      BY <1>19, ShipmentsAssumption DEF Die
    <2> QED BY <1>19, <2>1, TypeFinish DEF Die
  <1> QED BY <1>1, <1>2, <1>3, <1>4, <1>5, <1>6, <1>7, <1>8, <1>9, <1>10, <1>11, <1>12,
            <1>13, <1>14, <1>15, <1>16, <1>17, <1>18, <1>19 DEF Continue

-----------------------------------------------------------------------------
(* What a worker leaves alone.                                             *)

Moves(w) == Start(w) \/ Receive(w) \/ Continue(w) \/ SplitThrows(w) \/ Die(w)

LEMMA OnlyHis ==
    ASSUME TypeOK, NEW w \in Workers, Moves(w)
    PROVE  /\ config' = config
           /\ \A v \in Workers : v # w => /\ pc'[v] = pc[v] /\ ev'[v] = ev[v]
                                        /\ latest'[v] = latest[v] /\ nth'[v] = nth[v]
  <1> USE DEF TypeOK, local, Goto, Forget, Finish, Begin
  <1>1. CASE Start(w)
    BY <1>1 DEF Start, Dispatch, Collected, Unlock, FindExpired, Stamp, CancelRead
  <1>2. CASE Receive(w)
    BY <1>2 DEF Receive, Deliver, Take
  <1>3. CASE SplitThrows(w) \/ Die(w)
    BY <1>3 DEF SplitThrows, Die
  <1>4. CASE Book(w) \/ BookThrows(w) \/ InsertShipment(w) \/ Reserve(w) \/ SeedEvent(w)
    BY <1>4 DEF Book, BookThrows, InsertShipment, Reserve, SeedEvent
  <1>5. CASE RecordEvent(w) \/ ReadNewest(w) \/ ReadCurrent(w) \/ Project(w) \/ DeliverOrder(w)
    BY <1>5 DEF RecordEvent, ReadNewest, ReadStatus, ReadCurrent, Project, DeliverOrder
  <1>6. CASE CheckShares(w) \/ InsertShare(w)
    BY <1>6 DEF CheckShares, EnterSplit, InsertShare
  <1>7. CASE Collect(w) \/ UnlockEvent(w) \/ UnlockShipment(w)
    BY <1>7 DEF Collect, Stamp, UnlockEvent, UnlockShipment
  <1>8. CASE ReturnBox(w) \/ ReturnEvent(w) \/ ReturnShipment(w) \/ CancelWrite(w)
    BY <1>8 DEF ReturnBox, ReturnEvent, ReturnShipment, CancelWrite
  <1> QED BY <1>1, <1>2, <1>3, <1>4, <1>5, <1>6, <1>7, <1>8 DEF Moves, Continue

\* What is known of the call of a worker that does not move.
LEMMA LabelKept ==
    ASSUME NEW v \in Workers, AtLabel(v), pc'[v] = pc[v], ev'[v] = ev[v],
           latest'[v] = latest[v], nth'[v] = nth[v], config' = config,
           shipment # "none" => shipment' # "none", events \subseteq events'
    PROVE  AtLabel(v)'
  <1>1. HasProof => HasProof'
    BY ProofStays
  <1>2. events # {} => events' # {}
    OBVIOUS
  <1> QED BY <1>1, <1>2 DEF AtLabel

LEMMA Finished ==
    ASSUME TypeOK, NEW w \in Workers, Finish(w) \/ Forget(w)
    PROVE  pc'[w] = "idle"
  BY DEF TypeOK, Finish, Forget

LEMMA LabelIdle ==
    ASSUME NEW w \in Workers, pc'[w] = "idle" PROVE AtLabel(w)'
  BY DEF AtLabel

\* The tables when no event is stored, no order delivered and no share inserted.
LEMMA StoredKept ==
    ASSUME Stored, UNCHANGED <<config, events, trail, shares>>,
           order' \in {order, "cancelled"},
           shipment # "none" => shipment' # "none",
           box' \in {box, "none"} \/ shipment' # "none"
    PROVE  Stored'
  <1>1. HasProof' <=> HasProof
    BY DEF HasProof
  <1> QED BY <1>1 DEF Stored

LEMMA StoredInsert ==
    ASSUME TypeOK, Stored, NEW e \in Event, events' = Insert(e), shipment # "none",
           e.id = <<"unlock", 0>> => e.status = "delivered",
           UNCHANGED <<config, order, shipment, box, shares, trail>>
    PROVE  /\ Stored' /\ events \subseteq events' /\ events' # {}
           /\ e.id = <<"unlock", 0>> => HasProof'
  <1>1. /\ events \subseteq events' /\ \A f \in events' : f \in events \/ f = e
        /\ \E f \in events' : f.id = e.id
        /\ \E f \in events' : \A g \in events' : g.at <= f.at
    BY Inserted
  <1>2. HasProof => HasProof'
    BY <1>1, ProofStays
  <1>3. \A f \in events' : f.id = <<"unlock", 0>> => f.status = "delivered"
    BY <1>1 DEF Stored
  <1>4. Stored'
    BY <1>1, <1>2, <1>3 DEF Stored
  <1>5. e.id = <<"unlock", 0>> => HasProof'
    BY <1>1, <1>3 DEF HasProof
  <1> QED BY <1>1, <1>4, <1>5

-----------------------------------------------------------------------------
(* The labels and the tables.                                              *)

LEMMA FactsInit == Init => Facts
  BY DEF Init, Facts, AtLabel, Stored

LEMMA FactsWorld ==
    ASSUME TypeOK, Facts, Expire \/ \E status \in Statuses : Scan(status)
    PROVE  Facts'
  <1>1. UNCHANGED <<config, tables, local>>
    BY DEF Expire, Scan
  <1>2. \A k \in DOMAIN trail' : trail'[k].id \in Notices
    <2>1. CASE Expire
      BY <2>1 DEF Expire, Facts, Stored
    <2>2. ASSUME NEW status \in Statuses, Scan(status)
          PROVE  \A k \in DOMAIN trail' : trail'[k].id \in Notices
      <3> DEFINE e == [id |-> <<"scan", Len(trail) + 1>>, status |-> status, at |-> now + 1]
      <3>1. trail \in Seq(Event) /\ Len(trail) + 1 \in 1 .. MaxScans
        BY <2>2, ShipmentsAssumption DEF TypeOK, Scan
      <3>2. trail' = Append(trail, e)
        BY <2>2 DEF Scan
      <3>3. e.id \in Notices
        BY <3>1, Ids
      <3> HIDE DEF e
      <3>4. e \in Event \cup {e} /\ trail \in Seq(Event \cup {e})
        BY <3>1
      <3>5. \A k \in DOMAIN trail' : trail'[k] = e \/ (k \in DOMAIN trail /\ trail'[k] = trail[k])
        <4>1. /\ DOMAIN trail = 1 .. Len(trail) /\ DOMAIN trail' = 1 .. Len(trail')
              /\ Len(trail') = Len(trail) + 1 /\ Len(trail) \in Nat
          BY <3>1, <3>2, <3>4, AppendProperties
        <4>2. /\ \A k \in 1 .. Len(trail) : trail'[k] = trail[k]
              /\ trail'[Len(trail) + 1] = e
          BY <3>2, <3>4, AppendProperties
        <4>3. ASSUME NEW k \in DOMAIN trail'
              PROVE  trail'[k] = e \/ (k \in DOMAIN trail /\ trail'[k] = trail[k])
          <5>1. k \in 1 .. Len(trail) \/ k = Len(trail) + 1
            BY <4>1
          <5> QED BY <4>1, <4>2, <5>1
        <4> QED BY <4>3
      <3> QED BY <3>3, <3>5 DEF Facts, Stored
    <2> QED BY <2>1, <2>2
  <1>3. Stored'
    BY <1>1, <1>2 DEF Facts, Stored, HasProof, tables
  <1>4. \A w \in Workers : AtLabel(w)'
    BY <1>1, LabelKept DEF Facts, tables, local
  <1> QED BY <1>3, <1>4 DEF Facts

\* The facts after a step of w: about w and the tables; the others follow.
LEMMA FactsMove ==
    ASSUME TypeOK, Facts, NEW w \in Workers, Moves(w), AtLabel(w)', Stored',
           shipment # "none" => shipment' # "none", events \subseteq events'
    PROVE  Facts'
  <1>1. ASSUME NEW v \in Workers, v # w PROVE AtLabel(v)'
    BY <1>1, OnlyHis, LabelKept DEF Facts
  <1> QED BY <1>1 DEF Facts

LEMMA FactsStart ==
    ASSUME TypeOK, Facts, NEW w \in Workers, Start(w) \/ Receive(w)
    PROVE  Facts'
  <1>1. UNCHANGED <<config, tables, trail>>
    BY DEF Start, Receive, Dispatch, Collected, Unlock, FindExpired, CancelRead, Deliver, world
  <1>2. Stored'
    BY <1>1, StoredKept DEF Facts, tables
  <1>3. AtLabel(w)'
    <2> USE DEF Begin, TypeOK
    <2>1. CASE Dispatch(w)
      BY <2>1 DEF Dispatch, AtLabel
    <2>2. CASE Collected(w)
      BY <2>2, <1>1, Ids DEF Collected, AtLabel, tables
    <2>3. CASE Unlock(w)
      BY <2>3, <1>1 DEF Unlock, AtLabel, Facts, Stored, tables
    <2>4. CASE FindExpired(w)
      BY <2>4, <1>1 DEF FindExpired, Stamp, AtLabel, Facts, Stored, tables
    <2>5. CASE CancelRead(w)
      BY <2>5 DEF CancelRead, AtLabel
    <2>6. ASSUME NEW k \in 1 .. MaxScans, Deliver(w, k) PROVE AtLabel(w)'
      <3>1. trail[k] \in Event /\ trail[k].id \in Notices
        BY <2>6 DEF Deliver, Facts, Stored
      <3>2. CASE shipment = "none"
        BY <2>6, <3>2 DEF Deliver, AtLabel
      <3>3. CASE shipment # "none"
        <4>1. pc'[w] = "record" /\ shipment' # "none"
          BY <2>6, <3>3, <1>1 DEF Deliver, Take, tables
        <4>2. [trail[k] EXCEPT !.at = now + 1].id = trail[k].id
          BY <3>1 DEF Event
        <4>3. ev'[w].id = trail[k].id
          BY <2>6, <3>3, <4>2 DEF Deliver, Take
        <4> QED BY <3>1, <4>1, <4>3 DEF AtLabel
      <3> QED BY <3>2, <3>3
    <2> QED BY <2>1, <2>2, <2>3, <2>4, <2>5, <2>6 DEF Start, Receive
  <1> QED BY <1>1, <1>2, <1>3, FactsMove DEF Moves, tables

LEMMA FactsContinue ==
    ASSUME TypeOK, Facts, NEW w \in Workers, Continue(w) \/ SplitThrows(w) \/ Die(w)
    PROVE  Facts'
  <1> SUFFICES AtLabel(w)' /\ Stored' /\ (shipment # "none" => shipment' # "none")
                  /\ events \subseteq events'
    BY FactsMove DEF Moves
  <1>f. Finish(w) => pc'[w] = "idle"
    BY Finished
  <1>t. DOMAIN pc = Workers /\ DOMAIN ev = Workers /\ DOMAIN latest = Workers
           /\ DOMAIN nth = Workers
    BY DEF TypeOK
  <1>0. AtLabel(w) /\ Stored
    BY DEF Facts
  <1> USE <1>t DEF tables, world, history, local, Goto
  <1>1. CASE Book(w) \/ BookThrows(w)
    <2>1. UNCHANGED <<config, tables, trail>> /\ pc'[w] \in {"idle", "insert"}
      BY <1>1 DEF Book, BookThrows, Finish, Forget
    <2> QED BY <2>1, <1>0, StoredKept DEF AtLabel
  <1>2. CASE InsertShipment(w)
    <2>1. UNCHANGED <<config, order, events, box, shares, trail>>
             /\ (shipment # "none" => shipment' = shipment)
             /\ (pc'[w] = "idle" \/ (pc'[w] = "reserve" /\ shipment' = "label_created"))
      <3>1. CASE shipment = "none"
        BY <1>2, <3>1 DEF InsertShipment
      <3>2. CASE ~(shipment = "none")
        BY <1>2, <3>2, <1>f DEF InsertShipment
      <3> QED BY <3>1, <3>2
    <2> QED BY <2>1, <1>0, StoredKept DEF AtLabel
  <1>3. CASE Reserve(w)
    <2>1. shipment # "none" /\ UNCHANGED <<config, order, events, shipment, shares, trail>>
             /\ pc'[w] = "seed"
      BY <1>3, <1>0 DEF Reserve, AtLabel
    <2> QED BY <2>1, <1>0, StoredKept DEF AtLabel
  <1>4. CASE SeedEvent(w)
    <2> DEFINE e == [id |-> <<"init", 0>>, status |-> "label_created", at |-> now + 1]
    <2>1. e \in Event /\ e.id # <<"unlock", 0>>
      BY ProperEvents, Ids DEF TypeOK
    <2> HIDE DEF e
    <2>2. events' = Insert(e) /\ UNCHANGED <<config, order, shipment, box, shares, trail>>
             /\ shipment # "none" /\ pc'[w] = "idle"
      BY <1>4, <1>0 DEF SeedEvent, e, Finish, Forget, AtLabel
    <2>3. Stored' /\ events \subseteq events'
      BY <2>1, <2>2, <1>0, StoredInsert
    <2> QED BY <2>2, <2>3, LabelIdle
  <1>5. CASE RecordEvent(w) \/ UnlockEvent(w) \/ ReturnEvent(w)
    <2>1. events' = Insert(ev[w]) /\ ev[w] \in Event /\ shipment # "none"
             /\ UNCHANGED <<config, order, shipment, box, shares, trail>>
      BY <1>5, <1>0 DEF TypeOK, RecordEvent, UnlockEvent, ReturnEvent, AtLabel
    <2>2. ev[w].id = <<"unlock", 0>> => ev[w].status = "delivered" /\ pc[w] = "unlocked"
      BY <1>5, <1>0, Ids DEF RecordEvent, UnlockEvent, ReturnEvent, AtLabel
    <2>3. Stored' /\ events \subseteq events' /\ events' # {}
             /\ (ev[w].id = <<"unlock", 0>> => HasProof')
      BY <2>1, <2>2, <1>0, StoredInsert
    <2>4. \/ pc'[w] \in {"newest", "back"}
          \/ pc'[w] = "emptied" /\ ev[w].id = <<"unlock", 0>>
      BY <1>5, <1>0 DEF RecordEvent, UnlockEvent, ReturnEvent, AtLabel
    <2> QED BY <2>1, <2>3, <2>4 DEF AtLabel
  <1>6. CASE ReadNewest(w)
    <2>1. UNCHANGED <<config, tables, trail>> /\ pc'[w] = "current"
             /\ latest'[w] = Newest.status /\ shipment # "none" /\ events # {}
      BY <1>6, <1>0 DEF ReadNewest, ReadStatus, AtLabel
    <2>2. Newest \in events /\ Newest.status \in Statuses
      BY <2>1, <1>0, NewestStored
    <2>3. latest'[w] = "delivered" => HasProof'
      BY <2>1, <2>2 DEF HasProof
    <2> QED BY <2>1, <2>2, <2>3, <1>0, StoredKept DEF AtLabel
  <1>7. CASE ReadCurrent(w)
    <2>1. UNCHANGED <<config, tables, trail>>
             /\ (pc'[w] = "idle" \/ (pc'[w] = "project" /\ latest'[w] = latest[w]))
             /\ pc[w] = "current"
      <3>1. CASE shipment \in Terminal /\ latest[w] \notin Terminal
        BY <1>7, <3>1, <1>f DEF ReadCurrent
      <3>2. CASE ~(shipment \in Terminal /\ latest[w] \notin Terminal)
        BY <1>7, <3>2, <1>f DEF ReadCurrent
      <3> QED BY <3>1, <3>2
    <2>2. HasProof' <=> HasProof
      BY <2>1 DEF HasProof
    <2> QED BY <2>1, <2>2, <1>0, StoredKept DEF AtLabel
  <1>8. CASE Project(w)
    <2>1. UNCHANGED <<config, order, events, box, shares, trail>> /\ shipment' = latest[w]
             /\ (pc'[w] = "idle" \/ (pc'[w] = "order" /\ latest[w] = "delivered"))
             /\ pc[w] = "project"
      <3>1. CASE latest[w] = "delivered"
        BY <1>8, <3>1 DEF Project
      <3>2. CASE ~(latest[w] = "delivered")
        BY <1>8, <3>2, <1>f DEF Project
      <3> QED BY <3>1, <3>2
    <2>2. latest[w] # "none" /\ (latest[w] = "delivered" => HasProof)
      BY <2>1, <1>0 DEF AtLabel, Statuses, Terminal
    <2>3. HasProof' <=> HasProof
      BY <2>1 DEF HasProof
    <2> QED BY <2>1, <2>2, <2>3, <1>0, StoredKept DEF AtLabel
  <1>9. CASE DeliverOrder(w)
    <2>1. UNCHANGED <<config, shipment, events, box, shares, trail>> /\ pc'[w] = "check"
             /\ HasProof /\ shipment # "none"
      BY <1>9, <1>0 DEF DeliverOrder, AtLabel
    <2>2. HasProof'
      BY <2>1 DEF HasProof
    <2> QED BY <2>1, <2>2, <1>0 DEF AtLabel, Stored
  <1>10. CASE CheckShares(w)
    <2>1. UNCHANGED <<config, tables, trail>> /\ HasProof /\ shipment # "none"
             /\ (pc'[w] = "idle"
                    \/ (pc'[w] = "split" /\ config.gateway = "cod" /\ nth'[w] = 1))
      <3>1. CASE config.gateway = "cod" /\ shares = {}
        BY <1>10, <1>0, <3>1 DEF CheckShares, EnterSplit, AtLabel
      <3>2. CASE ~(config.gateway = "cod" /\ shares = {})
        BY <1>10, <1>0, <3>2, <1>f DEF CheckShares, EnterSplit, AtLabel
      <3> QED BY <3>1, <3>2
    <2>2. HasProof'
      BY <2>1 DEF HasProof
    <2> QED BY <2>1, <2>2, <1>0, StoredKept, ShipmentsAssumption DEF AtLabel
  <1>11. CASE InsertShare(w)
    <2>1. UNCHANGED <<config, order, shipment, events, box, trail>> /\ HasProof
             /\ shipment # "none" /\ config.gateway = "cod" /\ nth[w] \in 1 .. Recipients
      BY <1>11, <1>0 DEF InsertShare, AtLabel
    <2>2. pc'[w] = "idle" \/ (pc'[w] = "split" /\ nth'[w] \in 1 .. Recipients)
      <3>1. CASE nth[w] >= Recipients
        BY <1>11, <3>1 DEF InsertShare, Finish, Forget
      <3>2. CASE ~(nth[w] >= Recipients)
        BY <1>11, <2>1, <3>2, ShipmentsAssumption DEF InsertShare
      <3> QED BY <3>1, <3>2
    <2>3. HasProof'
      BY <2>1 DEF HasProof
    <2> QED BY <2>1, <2>2, <2>3, <1>0 DEF AtLabel, Stored
  <1>12. CASE Collect(w)
    <2>1. UNCHANGED <<config, order, shipment, events, shares, trail>> /\ shipment # "none"
             /\ pc'[w] = "unlocked" /\ ev'[w].id = <<"unlock", 0>>
             /\ ev'[w].status = "delivered"
      BY <1>12, <1>0 DEF Collect, Stamp, AtLabel
    <2> QED BY <2>1, <1>0, StoredKept DEF AtLabel
  <1>13. CASE UnlockShipment(w)
    <2>1. UNCHANGED <<config, order, events, box, shares, trail>> /\ shipment' = "delivered"
             /\ pc'[w] = "order" /\ HasProof
      BY <1>13, <1>0 DEF UnlockShipment, AtLabel
    <2>2. HasProof'
      BY <2>1 DEF HasProof
    <2> QED BY <2>1, <2>2, <1>0, StoredKept DEF AtLabel
  <1>14. CASE ReturnBox(w)
    <2>1. UNCHANGED <<config, order, shipment, events, shares, trail>> /\ shipment # "none"
             /\ (pc'[w] = "idle" \/ (pc'[w] = "returned" /\ ev'[w] = ev[w]))
             /\ ev[w].id = <<"return", 0>>
      <3>1. CASE box = "reserved"
        BY <1>14, <1>0, <3>1 DEF ReturnBox, AtLabel
      <3>2. CASE ~(box = "reserved")
        BY <1>14, <1>0, <3>2, <1>f DEF ReturnBox, AtLabel
      <3> QED BY <3>1, <3>2
    <2> QED BY <2>1, <1>0, StoredKept DEF AtLabel
  <1>15. CASE ReturnShipment(w)
    <2>1. UNCHANGED <<config, order, events, box, shares, trail>> /\ shipment' = "returned"
             /\ pc'[w] = "idle"
      BY <1>15 DEF ReturnShipment, Finish, Forget
    <2> QED BY <2>1, <1>0, StoredKept, LabelIdle
  <1>16. CASE CancelWrite(w)
    <2>1. UNCHANGED <<config, shipment, events, box, shares, trail>> /\ order' = "cancelled"
             /\ pc'[w] = "idle"
      BY <1>16 DEF CancelWrite, Finish, Forget
    <2> QED BY <2>1, <1>0, StoredKept, LabelIdle
  <1>17. CASE SplitThrows(w) \/ Die(w)
    <2>1. UNCHANGED <<config, tables, trail>> /\ pc'[w] = "idle"
      BY <1>17 DEF SplitThrows, Die, Finish, Forget
    <2> QED BY <2>1, <1>0, StoredKept, LabelIdle
  <1> QED BY <1>1, <1>2, <1>3, <1>4, <1>5, <1>6, <1>7, <1>8, <1>9, <1>10, <1>11, <1>12,
            <1>13, <1>14, <1>15, <1>16, <1>17 DEF Continue

-----------------------------------------------------------------------------
(* One call at a time, and nothing fails.                                  *)

\* A call that begins, or a notice that is answered at once.
LEMMA Begins ==
    ASSUME TypeOK, Facts, NEW w \in Workers, Start(w) \/ Receive(w)
    PROVE  /\ UNCHANGED <<config, tables, booked, deaths>>
           /\ \/ UNCHANGED <<pc, lapped, latest>>
              \/ \E label \in {"book", "record", "collect", "return", "cancel"} :
                     /\ Begin(w, label) /\ pc'[w] = label
                     /\ label = "book" => shipment = "none"
  <1> USE DEF world, TypeOK
  <1>1. CASE Dispatch(w)
    BY <1>1 DEF Dispatch, Begin
  <1>2. CASE Collected(w)
    BY <1>2 DEF Collected, Begin
  <1>3. CASE Unlock(w)
    BY <1>3 DEF Unlock, Begin
  <1>4. CASE FindExpired(w)
    BY <1>4 DEF FindExpired, Begin, Stamp
  <1>5. CASE CancelRead(w)
    BY <1>5 DEF CancelRead, Begin
  <1>6. ASSUME NEW k \in 1 .. MaxScans, Deliver(w, k)
        PROVE  /\ UNCHANGED <<config, tables, booked, deaths>>
               /\ \/ UNCHANGED <<pc, lapped, latest>>
                  \/ Begin(w, "record") /\ pc'[w] = "record"
    BY <1>6 DEF Deliver, Take, Begin
  <1> QED BY <1>1, <1>2, <1>3, <1>4, <1>5, <1>6 DEF Start, Receive

LEMMA SettledKept ==
    ASSUME Settled, events' = events, shipment' = shipment \/ shipment' \in Terminal
    PROVE  Settled'
  <1>1. Newest' = Newest
    BY DEF Newest
  <1> QED BY <1>1 DEF Settled

LEMMA SoloInit == Init => Alone /\ Undisturbed
  BY DEF Init, Alone, Undisturbed, Quiet, Settled

LEMMA SoloWorld ==
    ASSUME Alone, Undisturbed, Expire \/ \E status \in Statuses : Scan(status)
    PROVE  Alone' /\ Undisturbed'
  <1>1. UNCHANGED <<config, tables, booked, history, local>>
    BY DEF Expire, Scan
  <1>2. Newest' = Newest
    BY <1>1 DEF tables, Newest
  <1> QED BY <1>1, <1>2 DEF tables, history, local, Alone, Undisturbed, Quiet, Mine, Settled

LEMMA SoloStart ==
    ASSUME TypeOK, Facts, Alone, Undisturbed, NEW w \in Workers, Start(w) \/ Receive(w)
    PROVE  Alone' /\ Undisturbed'
  <1>1. UNCHANGED <<config, tables, booked, deaths>>
    BY Begins
  <1>2. Newest' = Newest
    BY <1>1 DEF tables, Newest
  <1>3. CASE UNCHANGED <<pc, lapped, latest>>
    BY <1>1, <1>2, <1>3 DEF tables, Alone, Undisturbed, Quiet, Mine, Settled
  <1>4. ASSUME NEW label \in {"book", "record", "collect", "return", "cancel"},
               Begin(w, label), pc'[w] = label, label = "book" => shipment = "none"
        PROVE  Alone' /\ Undisturbed'
    <2>1. \A v \in Workers : v # w => pc'[v] = pc[v]
      BY OnlyHis DEF Moves
    <2>2. ~lapped' => ~lapped /\ \A v \in Workers : pc[v] = "idle"
      BY <1>4 DEF Begin
    <2>3. Alone'
      BY <1>4, <2>1, <2>2 DEF Alone
    <2>4. ASSUME ~lapped', deaths' = 0
          PROVE  /\ ~Quiet'
                 /\ \A v \in Workers : pc'[v] # "idle" => Mine(v)'
      <3>1. Settled
        BY <1>1, <2>2, <2>4 DEF Undisturbed, Quiet
      <3>2. Settled'
        BY <1>1, <3>1, SettledKept DEF tables
      <3>3. Mine(w)'
        BY <1>4, <3>2 DEF Mine
      <3> QED BY <1>4, <2>1, <2>2, <2>4, <3>3 DEF Quiet
    <2> QED BY <2>3, <2>4 DEF Undisturbed
  <1> QED BY <1>3, <1>4, Begins

\* A call that has the shipment to itself.
LEMMA SoloSufficient ==
    ASSUME TypeOK, Alone, Undisturbed, NEW w \in Workers,
           Continue(w) \/ SplitThrows(w) \/ Die(w),
           (pc'[w] = "project" /\ shipment' \in Terminal) => latest'[w] \in Terminal,
           (~lapped /\ deaths = 0 /\ deaths' = 0 /\ Mine(w)) =>
               /\ pc'[w] = "idle" => Settled'
               /\ pc'[w] # "idle" => Mine(w)'
    PROVE  Alone' /\ Undisturbed'
  <1>1. pc[w] # "idle" /\ lapped' = lapped
    BY GoesOn
  <1>2. ~lapped => \A v \in Workers : v # w => pc[v] = "idle"
    BY <1>1 DEF Alone
  <1>3. \A v \in Workers : v # w => pc'[v] = pc[v]
    BY OnlyHis DEF Moves
  <1>4. Alone'
    BY <1>1, <1>2, <1>3 DEF Alone
  <1>5. deaths' = 0 => deaths = 0
    <2>1. CASE Continue(w)
      <3>1. deaths' = deaths
        <4> USE DEF history, local
        <4>1. CASE Book(w) \/ BookThrows(w) \/ InsertShipment(w) \/ Reserve(w) \/ SeedEvent(w)
          BY <4>1 DEF Book, BookThrows, InsertShipment, Reserve, SeedEvent
        <4>2. CASE \/ RecordEvent(w) \/ ReadNewest(w) \/ ReadCurrent(w) \/ Project(w)
                   \/ DeliverOrder(w)
          BY <4>2 DEF RecordEvent, ReadNewest, ReadStatus, ReadCurrent, Project, DeliverOrder
        <4>3. CASE CheckShares(w) \/ InsertShare(w)
          BY <4>3 DEF CheckShares, InsertShare
        <4>4. CASE Collect(w) \/ UnlockEvent(w) \/ UnlockShipment(w)
          BY <4>4 DEF Collect, UnlockEvent, UnlockShipment
        <4>5. CASE ReturnBox(w) \/ ReturnEvent(w) \/ ReturnShipment(w) \/ CancelWrite(w)
          BY <4>5 DEF ReturnBox, ReturnEvent, ReturnShipment, CancelWrite
        <4> QED BY <2>1, <4>1, <4>2, <4>3, <4>4, <4>5 DEF Continue
      <3> QED BY <3>1
    <2>2. CASE SplitThrows(w) \/ Die(w)
      BY <2>2 DEF SplitThrows, Die, TypeOK
    <2> QED BY <2>1, <2>2
  <1>6. ASSUME ~lapped', deaths' = 0
        PROVE  /\ Quiet' => Settled'
               /\ \A v \in Workers : pc'[v] # "idle" => Mine(v)'
    <2>1. Mine(w)
      BY <1>1, <1>5, <1>6 DEF Undisturbed
    <2>2. (pc'[w] = "idle" => Settled') /\ (pc'[w] # "idle" => Mine(w)')
      BY <1>1, <1>5, <1>6, <2>1
    <2> QED BY <1>1, <1>2, <1>3, <1>6, <2>2 DEF Quiet
  <1> QED BY <1>4, <1>6 DEF Undisturbed

LEMMA SoloContinue ==
    ASSUME TypeOK, Facts, Alone, Undisturbed, NEW w \in Workers,
           Continue(w) \/ SplitThrows(w) \/ Die(w)
    PROVE  Alone' /\ Undisturbed'
  <1> SUFFICES
          /\ (pc'[w] = "project" /\ shipment' \in Terminal) => latest'[w] \in Terminal
          /\ (~lapped /\ deaths = 0 /\ deaths' = 0 /\ Mine(w)) =>
                 /\ pc'[w] = "idle" => Settled'
                 /\ pc'[w] # "idle" => Mine(w)'
    BY SoloSufficient
  <1>f. Finish(w) => pc'[w] = "idle"
    BY Finished
  <1>t. DOMAIN pc = Workers /\ DOMAIN ev = Workers /\ DOMAIN latest = Workers
           /\ DOMAIN nth = Workers /\ booked \in Nat
    BY DEF TypeOK
  <1>0. AtLabel(w) /\ Stored
    BY DEF Facts
  <1>n. events' = events => Newest' = Newest
    BY DEF Newest
  <1>s. (Settled /\ events' = events /\ (shipment' = shipment \/ shipment' \in Terminal))
           => Settled'
    BY SettledKept
  <1> USE <1>t DEF tables, world, history, local, Goto
  <1>1. CASE Book(w)
    <2>1. UNCHANGED <<events, shipment>> /\ pc'[w] = "insert" /\ pc[w] = "book"
      BY <1>1 DEF Book
    <2> QED BY <2>1, <1>s DEF Mine
  <1>2. CASE BookThrows(w)
    <2>1. UNCHANGED <<events, shipment>> /\ pc'[w] = "idle" /\ pc[w] = "book"
      BY <1>2, <1>f DEF BookThrows
    <2> QED BY <2>1, <1>s DEF Mine
  <1>3. CASE InsertShipment(w)
    <2>1. events' = events /\ pc[w] = "insert"
      BY <1>3 DEF InsertShipment
    <2>2. CASE shipment = "none"
      <3>1. shipment' = "label_created" /\ pc'[w] = "reserve"
        BY <1>3, <2>2 DEF InsertShipment
      <3>2. events = {} /\ Settled'
        BY <1>0, <2>1, <2>2 DEF Stored, Settled
      <3> QED BY <2>1, <3>1, <3>2 DEF Mine
    <2>3. CASE shipment # "none"
      <3>1. shipment' = shipment /\ pc'[w] = "idle"
        BY <1>3, <2>3, <1>f DEF InsertShipment
      <3> QED BY <2>1, <2>3, <3>1, <1>s DEF Mine
    <2> QED BY <2>2, <2>3
  <1>4. CASE Reserve(w)
    <2>1. UNCHANGED <<events, shipment>> /\ pc'[w] = "seed" /\ pc[w] = "reserve"
      BY <1>4 DEF Reserve
    <2> QED BY <2>1, <1>s DEF Mine
  <1>5. CASE SeedEvent(w)
    <2> DEFINE e == [id |-> <<"init", 0>>, status |-> "label_created", at |-> now + 1]
    <2>1. shipment' = shipment /\ pc'[w] = "idle" /\ pc[w] = "seed"
             /\ events' = Insert(e)
      BY <1>5, <1>f DEF SeedEvent
    <2>2. shipment # "none"
      BY <2>1, <1>0 DEF AtLabel
    <2>3. (events = {} /\ shipment = "label_created") => Settled'
      <3>1. e.status = "label_created" /\ e.at \in Nat
        BY DEF TypeOK
      <3> HIDE DEF e
      <3>2. events = {} => events' = {e}
        BY <2>1 DEF Insert
      <3>3. events' = {e} => Newest' = e
        BY <3>1 DEF Newest
      <3> QED BY <2>1, <3>1, <3>2, <3>3 DEF Settled
    <2> QED BY <2>1, <2>2, <2>3 DEF Mine
  <1>6. CASE RecordEvent(w)
    <2>1. shipment' = shipment /\ pc'[w] = "newest" /\ pc[w] = "record"
      BY <1>6 DEF RecordEvent
    <2>2. shipment # "none"
      BY <2>1, <1>0 DEF AtLabel
    <2> QED BY <2>1, <2>2 DEF Mine
  <1>7. CASE ReadNewest(w)
    <2>1. UNCHANGED <<events, shipment>> /\ pc'[w] = "current" /\ pc[w] = "newest"
             /\ latest'[w] = Newest.status
      BY <1>7 DEF ReadNewest, ReadStatus
    <2>2. shipment # "none"
      BY <2>1, <1>0 DEF AtLabel
    <2> QED BY <2>1, <2>2, <1>n DEF Mine
  <1>8. CASE ReadCurrent(w)
    <2>1. UNCHANGED <<events, shipment>> /\ pc[w] = "current"
      BY <1>8 DEF ReadCurrent
    <2>2. shipment # "none"
      BY <2>1, <1>0 DEF AtLabel
    <2>3. CASE shipment \in Terminal /\ latest[w] \notin Terminal
      <3>1. pc'[w] = "idle"
        BY <1>8, <2>3, <1>f DEF ReadCurrent
      <3>2. Settled'
        BY <2>1, <2>3 DEF Settled
      <3> QED BY <2>1, <2>2, <3>1, <3>2 DEF Mine
    <2>4. CASE ~(shipment \in Terminal /\ latest[w] \notin Terminal)
      <3>1. pc'[w] = "project" /\ latest' = latest
        BY <1>8, <2>4 DEF ReadCurrent
      <3> QED BY <2>1, <2>2, <2>4, <3>1, <1>n DEF Mine
    <2> QED BY <2>3, <2>4
  <1>9. CASE Project(w)
    <2>1. events' = events /\ pc[w] = "project" /\ shipment' = latest[w]
             /\ pc'[w] \in {"idle", "order"}
      <3>1. CASE latest[w] = "delivered"
        BY <1>9, <3>1 DEF Project
      <3>2. CASE latest[w] # "delivered"
        BY <1>9, <3>2, <1>f DEF Project
      <3> QED BY <3>1, <3>2
    <2>2. shipment' # "none"
      BY <2>1, <1>0 DEF AtLabel, Statuses, Terminal
    <2>3. latest[w] = Newest.status => Settled'
      BY <2>1, <1>n DEF Settled
    <2> QED BY <2>1, <2>2, <2>3 DEF Mine
  <1>10. CASE DeliverOrder(w)
    <2>1. UNCHANGED <<events, shipment>> /\ pc[w] = "order" /\ pc'[w] = "check"
      BY <1>10 DEF DeliverOrder
    <2> QED BY <2>1, <1>s DEF Mine
  <1>11. CASE CheckShares(w) \/ InsertShare(w)
    <2>1. UNCHANGED <<events, shipment>> /\ pc[w] \in {"check", "split"}
      BY <1>11 DEF CheckShares, InsertShare
    <2>2. pc'[w] \in {"idle", "split"}
      <3>1. CASE CheckShares(w)
        BY <3>1, <1>f DEF CheckShares, EnterSplit
      <3>2. CASE InsertShare(w)
        BY <3>2, <1>f DEF InsertShare
      <3> QED BY <1>11, <3>1, <3>2
    <2>3. shipment # "none"
      BY <2>1, <1>0 DEF AtLabel
    <2> QED BY <2>1, <2>2, <2>3, <1>s DEF Mine
  <1>12. CASE Collect(w)
    <2>1. UNCHANGED <<events, shipment>> /\ pc[w] = "collect" /\ pc'[w] = "unlocked"
      BY <1>12 DEF Collect
    <2> QED BY <2>1, <1>s DEF Mine
  <1>13. CASE UnlockEvent(w) \/ ReturnEvent(w)
    <2>1. shipment' = shipment /\ pc[w] \in {"unlocked", "returned"}
             /\ pc'[w] \in {"emptied", "back"}
      BY <1>13 DEF UnlockEvent, ReturnEvent
    <2>2. shipment # "none"
      BY <2>1, <1>0 DEF AtLabel
    <2> QED BY <2>1, <2>2 DEF Mine
  <1>14. CASE UnlockShipment(w) \/ ReturnShipment(w)
    <2>1. events' = events /\ pc'[w] \in {"order", "idle"}
             /\ shipment' \in Terminal /\ shipment' # "none"
      BY <1>14, <1>f DEF UnlockShipment, ReturnShipment, Terminal
    <2> QED BY <2>1 DEF Mine, Settled
  <1>15. CASE ReturnBox(w)
    <2>1. UNCHANGED <<events, shipment>> /\ pc[w] = "return"
      BY <1>15 DEF ReturnBox
    <2>2. pc'[w] \in {"idle", "returned"}
      BY <1>15, <1>f DEF ReturnBox
    <2>3. shipment # "none"
      BY <2>1, <1>0 DEF AtLabel
    <2> QED BY <2>1, <2>2, <2>3, <1>s DEF Mine
  <1>16. CASE CancelWrite(w)
    <2>1. UNCHANGED <<events, shipment>> /\ pc[w] = "cancel" /\ pc'[w] = "idle"
      BY <1>16, <1>f DEF CancelWrite
    <2> QED BY <2>1, <1>s DEF Mine
  <1>17. CASE SplitThrows(w) \/ Die(w)
    <2>1. ~(deaths = 0 /\ deaths' = 0) /\ pc'[w] = "idle"
      <3>1. Forget(w) => pc'[w] = "idle"
        BY Finished
      <3> QED BY <1>17, <1>f, <3>1 DEF SplitThrows, Die
    <2> QED BY <2>1
  <1> QED BY <1>1, <1>2, <1>3, <1>4, <1>5, <1>6, <1>7, <1>8, <1>9, <1>10, <1>11, <1>12,
            <1>13, <1>14, <1>15, <1>16, <1>17 DEF Continue

-----------------------------------------------------------------------------
(* The carrier is charged once.                                            *)

\* A step that stays away from the carrier and keeps the row of the shipment.
LEMMA ParcelApart ==
    ASSUME Parcel, NEW w \in Workers, ~AtCarrier(w), ~AtCarrier(w)',
           \A v \in Workers : v # w => pc'[v] = pc[v],
           booked' = booked, shipment # "none" => shipment' # "none",
           ~crossed' => ~crossed, ~strayed' => ~strayed
    PROVE  Parcel'
  <1>1. \A v \in Workers : (AtCarrier(v)' <=> AtCarrier(v)) /\ (AtCarrier(v) => pc'[v] = pc[v])
    BY DEF AtCarrier
  <1>2. \A v \in Workers : (pc'[v] = "book" <=> pc[v] = "book")
                             /\ (pc'[v] = "insert" <=> pc[v] = "insert")
    BY <1>1 DEF AtCarrier
  <1> QED BY <1>1, <1>2 DEF Parcel

LEMMA ParcelStart ==
    ASSUME TypeOK, Parcel, NEW w \in Workers, Start(w) \/ Receive(w)
    PROVE  Parcel'
  <1>1. \A v \in Workers : v # w => pc'[v] = pc[v]
    BY OnlyHis DEF Moves
  <1> USE DEF TypeOK, tables, world, mishaps, Begin
  <1>2. CASE Dispatch(w)
    <2>1. /\ pc[w] = "idle" /\ pc'[w] = "book" /\ shipment = "none"
          /\ booked' = booked /\ shipment' = shipment /\ strayed' = strayed
          /\ crossed' = (crossed \/ \E v \in Workers : AtCarrier(v))
      BY <1>2 DEF Dispatch, Cross, AtCarrier
    <2> SUFFICES ASSUME ~crossed', ~strayed'
                 PROVE  /\ \A v, u \in Workers : AtCarrier(v)' /\ AtCarrier(u)' => v = u
                        /\ \A v \in Workers : pc'[v] = "book" => booked' = 0
                        /\ booked' <= 1
                        /\ booked' = 1 =>
                               shipment' # "none" \/ \E v \in Workers : pc'[v] = "insert"
      BY DEF Parcel
    <2>2. ~crossed /\ ~strayed /\ \A v \in Workers : ~AtCarrier(v)
      BY <2>1
    <2>3. booked = 0
      <3>1. booked <= 1 /\ booked # 1
        BY <2>1, <2>2 DEF Parcel, AtCarrier
      <3> QED BY <3>1
    <2>4. \A v \in Workers : AtCarrier(v)' => v = w
      BY <1>1, <2>2 DEF AtCarrier
    <2> QED BY <2>1, <2>3, <2>4
  <1>3. CASE Collected(w) \/ Unlock(w) \/ FindExpired(w) \/ CancelRead(w)
    <2>1. /\ ~AtCarrier(w) /\ ~AtCarrier(w)'
          /\ UNCHANGED <<booked, shipment, crossed, strayed>>
      BY <1>3 DEF Collected, Unlock, FindExpired, Stamp, CancelRead, AtCarrier
    <2> QED BY <1>1, <2>1, ParcelApart
  <1>4. ASSUME NEW k \in 1 .. MaxScans, Deliver(w, k) PROVE Parcel'
    <2>1. /\ ~AtCarrier(w) /\ ~AtCarrier(w)'
          /\ UNCHANGED <<booked, shipment, crossed, strayed>>
      BY <1>4 DEF Deliver, Take, AtCarrier
    <2> QED BY <1>1, <2>1, ParcelApart
  <1> QED BY <1>2, <1>3, <1>4 DEF Start, Receive

LEMMA ParcelContinue ==
    ASSUME TypeOK, Facts, Parcel, NEW w \in Workers, Continue(w) \/ SplitThrows(w) \/ Die(w)
    PROVE  Parcel'
  <1>1. \A v \in Workers : v # w => pc'[v] = pc[v]
    BY OnlyHis DEF Moves
  <1>a. AtLabel(w)
    BY DEF Facts
  <1>f. Finish(w) \/ Forget(w) => pc'[w] = "idle"
    BY Finished
  <1>t. DOMAIN pc = Workers /\ booked \in Nat
    BY DEF TypeOK
  <1>p. ~crossed /\ ~strayed /\ AtCarrier(w) => \A v \in Workers : v # w => ~AtCarrier(v)
    BY DEF Parcel
  <1>o. ASSUME ~AtCarrier(w), ~AtCarrier(w)', UNCHANGED <<booked, crossed, strayed>>,
               shipment # "none" => shipment' # "none"
        PROVE  Parcel'
    BY <1>1, <1>o, ParcelApart
  <1> USE DEF tables, world, history, mishaps, Goto
  <1>2. CASE Book(w)
    <2>1. /\ pc[w] = "book" /\ pc'[w] = "insert" /\ booked' = booked + 1
          /\ UNCHANGED <<shipment, crossed, strayed>>
      BY <1>2, <1>t DEF Book
    <2>2. ~crossed /\ ~strayed => booked' = 1
      BY <2>1 DEF Parcel
    <2>3. ~crossed /\ ~strayed =>
              \A v \in Workers : AtCarrier(v)' => v = w
      BY <1>1, <1>p, <2>1 DEF AtCarrier
    <2>4. ~crossed /\ ~strayed => \A v \in Workers : pc'[v] # "book"
      BY <2>1, <2>3 DEF AtCarrier
    <2> QED BY <2>1, <2>2, <2>3, <2>4 DEF Parcel
  <1>3. CASE BookThrows(w)
    <2>1. pc[w] = "book" /\ pc'[w] = "idle" /\ UNCHANGED <<shipment, crossed>>
             /\ (strayed' \/ UNCHANGED <<booked, strayed>>)
      BY <1>3, <1>f DEF BookThrows
    <2>2. ~crossed /\ ~strayed => booked = 0 /\ \A v \in Workers : ~AtCarrier(v)'
      BY <1>1, <1>p, <2>1 DEF Parcel, AtCarrier
    <2> QED BY <2>1, <2>2 DEF Parcel, AtCarrier
  <1>4. CASE InsertShipment(w)
    <2>1. /\ pc[w] = "insert" /\ pc'[w] \in {"reserve", "idle"} /\ shipment' # "none"
          /\ UNCHANGED <<booked, crossed, strayed>>
      BY <1>4, <1>f, <1>t DEF InsertShipment
    <2>2. ~crossed /\ ~strayed => \A v \in Workers : ~AtCarrier(v)'
      BY <1>1, <1>p, <2>1 DEF AtCarrier
    <2> QED BY <2>1, <2>2 DEF Parcel, AtCarrier
  <1>5. CASE Reserve(w) \/ SeedEvent(w)
    <2>1. /\ pc[w] \in {"reserve", "seed"} /\ pc'[w] \in {"seed", "idle"}
          /\ UNCHANGED <<booked, crossed, strayed, shipment>>
      BY <1>5, <1>f, <1>t DEF Reserve, SeedEvent
    <2> QED BY <1>o, <2>1 DEF AtCarrier
  <1>6. CASE RecordEvent(w) \/ ReadNewest(w) \/ ReadCurrent(w) \/ DeliverOrder(w)
    <2>1. /\ pc[w] \in {"record", "newest", "current", "order"}
          /\ pc'[w] \in {"newest", "current", "project", "check", "idle"}
          /\ UNCHANGED <<booked, crossed, strayed, shipment>>
      BY <1>6, <1>f, <1>t DEF RecordEvent, ReadNewest, ReadStatus, ReadCurrent, DeliverOrder
    <2> QED BY <1>o, <2>1 DEF AtCarrier
  <1>7. CASE Project(w)
    <2>1. /\ pc[w] = "project" /\ pc'[w] \in {"order", "idle"}
          /\ UNCHANGED <<booked, crossed, strayed>> /\ shipment' = latest[w]
      BY <1>7, <1>f, <1>t DEF Project
    <2>2. shipment' # "none"
      BY <1>a, <2>1 DEF AtLabel, Statuses, Terminal
    <2> QED BY <1>o, <2>1, <2>2 DEF AtCarrier
  <1>8. CASE CheckShares(w) \/ InsertShare(w)
    <2>1. /\ pc[w] \in {"check", "split"} /\ pc'[w] \in {"split", "idle"}
          /\ UNCHANGED <<booked, crossed, strayed, shipment>>
      BY <1>8, <1>f, <1>t DEF CheckShares, EnterSplit, InsertShare
    <2> QED BY <1>o, <2>1 DEF AtCarrier
  <1>9. CASE Collect(w) \/ UnlockEvent(w) \/ UnlockShipment(w)
    <2>1. /\ pc[w] \in {"collect", "unlocked", "emptied"}
          /\ pc'[w] \in {"unlocked", "emptied", "order"}
          /\ UNCHANGED <<booked, crossed, strayed>> /\ shipment' \in {shipment, "delivered"}
      BY <1>9, <1>t DEF Collect, Stamp, UnlockEvent, UnlockShipment
    <2> QED BY <1>o, <2>1 DEF AtCarrier
  <1>10. CASE ReturnBox(w) \/ ReturnEvent(w) \/ ReturnShipment(w) \/ CancelWrite(w)
    <2>1. /\ pc[w] \in {"return", "returned", "back", "cancel"}
          /\ pc'[w] \in {"returned", "back", "idle"}
          /\ UNCHANGED <<booked, crossed, strayed>> /\ shipment' \in {shipment, "returned"}
      BY <1>10, <1>f, <1>t DEF ReturnBox, ReturnEvent, ReturnShipment, CancelWrite
    <2> QED BY <1>o, <2>1 DEF AtCarrier
  <1>11. CASE SplitThrows(w)
    <2>1. /\ pc[w] \in {"check", "split"} /\ pc'[w] = "idle"
          /\ UNCHANGED <<booked, crossed, strayed, shipment>>
      BY <1>11, <1>f DEF SplitThrows
    <2> QED BY <1>o, <2>1 DEF AtCarrier
  <1>12. CASE Die(w)
    <2>1. /\ pc'[w] = "idle" /\ UNCHANGED <<booked, crossed, shipment>>
          /\ strayed' = (strayed \/ pc[w] = "insert")
      BY <1>12, <1>f DEF Die
    <2>2. CASE pc[w] = "insert"
      BY <2>1, <2>2 DEF Parcel
    <2>3. CASE pc[w] = "book"
      <3>1. ~crossed /\ ~strayed => booked = 0 /\ \A v \in Workers : ~AtCarrier(v)'
        BY <1>1, <1>p, <2>1, <2>3 DEF Parcel, AtCarrier
      <3> QED BY <2>1, <2>3, <3>1 DEF Parcel, AtCarrier
    <2>4. CASE ~AtCarrier(w)
      <3>1. ~AtCarrier(w)' /\ (~strayed' => ~strayed)
        BY <2>1 DEF AtCarrier
      <3> QED BY <1>1, <2>1, <2>4, <3>1, ParcelApart
    <2> QED BY <2>2, <2>3, <2>4 DEF AtCarrier
  <1> QED BY <1>2, <1>3, <1>4, <1>5, <1>6, <1>7, <1>8, <1>9, <1>10, <1>11, <1>12 DEF Continue

-----------------------------------------------------------------------------
(* The theorems.                                                           *)

LEMMA Inductive == IInv /\ [Next]_vars => IInv'
  <1> SUFFICES ASSUME IInv, [Next]_vars PROVE IInv'
    OBVIOUS
  <1> USE DEF IInv
  <1>1. CASE Expire \/ \E status \in Statuses : Scan(status)
    <2>1. UNCHANGED <<pc, booked, shipment, crossed, strayed>>
      BY <1>1 DEF Expire, Scan, tables, history, mishaps, local
    <2>2. Parcel'
      BY <2>1 DEF Parcel, AtCarrier
    <2> QED BY <1>1, <2>2, TypeWorld, FactsWorld, SoloWorld
  <1>2. ASSUME NEW w \in Workers, Start(w) \/ Receive(w) PROVE IInv'
    BY <1>2, TypeStart, FactsStart, ParcelStart, SoloStart
  <1>3. ASSUME NEW w \in Workers, Continue(w) \/ SplitThrows(w) \/ Die(w) PROVE IInv'
    <2>1. AtLabel(w) /\ Stored
      BY DEF Facts
    <2> QED BY <1>3, <2>1, TypeContinue, FactsContinue, ParcelContinue, SoloContinue
  <1>4. CASE UNCHANGED vars
    <2>1. Newest' = Newest
      BY <1>4 DEF vars, tables, Newest
    <2>2. TypeOK'
      BY <1>4 DEF TypeOK, vars, tables, world, history, mishaps, local
    <2>3. Facts'
      BY <1>4 DEF Facts, AtLabel, Stored, HasProof, vars, tables, world, history, local
    <2>4. Alone' /\ Undisturbed'
      BY <1>4, <2>1 DEF Alone, Undisturbed, Quiet, Mine, Settled, vars, tables, world,
                        history, local
    <2>5. Parcel'
      BY <1>4 DEF Parcel, AtCarrier, vars, tables, world, history, mishaps, local
    <2> QED BY <2>2, <2>3, <2>4, <2>5
  <1> QED BY <1>1, <1>2, <1>3, <1>4 DEF Next

\* IInv is inductive.
THEOREM Invariance == Spec => []IInv
  <1>1. Init => IInv
    <2>1. Init => Parcel
      BY DEF Init, Parcel, AtCarrier
    <2> QED BY <2>1, TypeInit, FactsInit, SoloInit DEF IInv
  <1> QED BY <1>1, Inductive, PTL DEF Spec

\* TypeOK holds in every reachable state: in particular an event is stored once per
\* provider's id (the unique index of shipment_events), and the loop of
\* splitOrderPayouts stays within the recipients.
THEOREM TypeCorrect == Spec => []TypeOK
  <1>1. IInv => TypeOK
    BY DEF IInv
  <1> QED BY <1>1, Invariance, PTL

\* "If a shipment already exists we return it without re-charging the carrier"
\* (dispatchShipmentForOrder): however many dispatches, notices, timers and requests
\* there are, and whatever else overlaps or dies, a second parcel is booked only if two
\* dispatches were between the look-up of the shipment and its row at the same time, or
\* a dispatch was lost between the carrier's acceptance and the row.
THEOREM ParcelBookedOnce == Spec => []BookedOnce
  <1>1. IInv => BookedOnce
    <2> SUFFICES ASSUME IInv, ~crossed, ~strayed PROVE ~(booked > 1)
      BY DEF BookedOnce
    <2>1. booked <= 1 /\ booked \in Nat
      BY DEF IInv, TypeOK, Parcel
    <2> QED BY <2>1
  <1> QED BY <1>1, Invariance, PTL

\* "Out-of-order webhook deliveries can't regress state" (ingestTrackingEvents): calls
\* that follow each other leave the shipment at the newest event or at an end.  And
\* through every race and death the order is delivered, and shares of a cash order are
\* scheduled, only with an event that says so.
THEOREM StatusEarned == Spec => []StatusIsEarned
  <1>1. IInv => StatusIsEarned
    BY DEF IInv, Facts, Stored, Undisturbed, Settled, StatusIsEarned
  <1> QED BY <1>1, Invariance, PTL

\* "Once delivered/returned/cancelled we never overwrite" holds of calls that do not
\* overlap; and however the unlock and the timer of autoReturnExpiredBoxReservations
\* interleave, what the buyer took out of the box is not returned.
THEOREM EndsStay == Spec => EndStays
  <1> DEFINE Kept == /\ (shipment \in Terminal /\ ~lapped) => shipment' \in Terminal
                     /\ box = "collected" => box' = "collected"
  <1>1. IInv /\ [Next]_vars => [Kept]_vars
    <2> SUFFICES ASSUME IInv, Next PROVE Kept
      OBVIOUS
    <2>1. CASE Expire \/ \E status \in Statuses : Scan(status)
      BY <2>1 DEF Expire, Scan, tables
    <2>2. ASSUME NEW w \in Workers, Start(w) \/ Receive(w) PROVE Kept
      BY <2>2, Begins DEF IInv, tables
    <2>3. ASSUME NEW w \in Workers, Continue(w) \/ SplitThrows(w) \/ Die(w) PROVE Kept
      <3> USE <2>3 DEF tables
      <3>1. CASE Book(w) \/ BookThrows(w) \/ Reserve(w) \/ SeedEvent(w)
        BY <3>1 DEF Book, BookThrows, Reserve, SeedEvent
      <3>2. CASE InsertShipment(w)
        BY <3>2 DEF InsertShipment, Terminal
      <3>3. CASE RecordEvent(w) \/ ReadNewest(w) \/ ReadCurrent(w) \/ DeliverOrder(w)
        BY <3>3 DEF RecordEvent, ReadNewest, ReadStatus, ReadCurrent, DeliverOrder
      <3>4. CASE Project(w)
        BY <3>4 DEF Project, IInv, Alone
      <3>5. CASE CheckShares(w) \/ InsertShare(w) \/ SplitThrows(w) \/ Die(w)
        BY <3>5 DEF CheckShares, InsertShare, SplitThrows, Die
      <3>6. CASE Collect(w) \/ UnlockEvent(w) \/ UnlockShipment(w)
        BY <3>6 DEF Collect, UnlockEvent, UnlockShipment, Terminal
      <3>7. CASE ReturnBox(w) \/ ReturnEvent(w) \/ ReturnShipment(w) \/ CancelWrite(w)
        BY <3>7 DEF ReturnBox, ReturnEvent, ReturnShipment, CancelWrite, Terminal
      <3> QED BY <3>1, <3>2, <3>3, <3>4, <3>5, <3>6, <3>7 DEF Continue
    <2> QED BY <2>1, <2>2, <2>3 DEF Next
  <1>2. [][Kept]_vars => EndStays
    BY DEF EndStays
  <1> HIDE DEF Kept
  <1> QED BY <1>1, <1>2, Invariance, PTL DEF Spec
=============================================================================
