------------------------------ MODULE Shipments ------------------------------
(***************************************************************************)
(* The shipment of one order: dispatch to the carrier, tracking events of  *)
(* the carrier, collection from a locker or at a partner's counter, the    *)
(* automatic return of a locker whose hold window is over, cancellation,   *)
(* and the payout shares of an order that is paid in cash on delivery.     *)
(*                                                                         *)
(* Every SQL statement and every call of the carrier is one step of a      *)
(* worker, which serves one request, webhook or timer run at a time.       *)
(***************************************************************************)
EXTENDS Naturals, Sequences

CONSTANTS
    Workers,
    Orders,        \* the orders considered
    Recipients,    \* sellers and manufacturers of the order, in the map's order
    MaxDispatches, \* bound on the winners of a card order that dispatch it
    MaxScans,      \* bound on the carrier's tracking events
    MaxDeaths      \* bound on the workers that die or meet a database error

\* How it is paid, where it is delivered to, whether the carrier dates its notices.
Configurations ==
    [gateway : {"cod", "card"}, place : {"courier", "locker", "counter"}, dated : BOOLEAN]

ASSUME ShipmentsAssumption ==
    /\ Orders \subseteq Configurations
    /\ Recipients \in Nat \ {0} /\ MaxDispatches \in Nat \ {0}
    /\ MaxScans \in Nat /\ MaxDeaths \in Nat

VARIABLES
    config,    \* which of Orders this is: orders.gateway, orders.fulfillment
    order,     \* orders.status; "open" is any status before delivery
    shipment,  \* shipments.status, or none: the row is unique by order
    events,    \* shipment_events, unique by id
    box,       \* box_reservations.status, or none: unique by order
    expired,   \* box_reservations.expires_at has passed
    shares,    \* recipients that have a row in payouts
    booked,    \* parcels the carrier accepted
    trail,     \* what happened to the parcel, by occurrence
    acked,     \* notices answered with 200
    now,       \* clock
    starts,    \* dispatches begun
    lapped,    \* two workers have been at it at the same time
    crossed,   \* history: two dispatches were between look-up and row at a time
    strayed,   \* history: a dispatch lost the carrier's answer before its row
    deaths,
    pc, ev, latest, \* of each worker: label, event at hand, status read,
    nth             \* place in the loop over the recipients

tables   == <<order, shipment, events, box, shares>>
world    == <<expired, booked, trail, acked, now>>
mishaps  == <<crossed, strayed>>
history  == <<starts, lapped, deaths, crossed, strayed>>
local    == <<pc, ev, latest, nth>>
vars     == <<config, tables, world, history, local>>

Terminal == {"delivered", "returned", "cancelled"}
Statuses == {"label_created", "in_transit", "failed"} \cup Terminal
Notices  == ({"scan"} \X (1 .. MaxScans)) \cup {<<"collected", 0>>}
EventIds == Notices \cup {<<"init", 0>>, <<"unlock", 0>>, <<"return", 0>>}
Event    == [id : EventIds, status : Statuses, at : Nat]
NoEvent  == [id |-> <<"init", 0>>, status |-> "label_created", at |-> 0]

TypeOK ==
    /\ config \in Orders
    /\ order \in {"open", "cancelled", "delivered"}
    /\ shipment \in Statuses \cup {"none"}
    /\ events \subseteq Event
    /\ \A e, f \in events : e.id = f.id => e = f
    /\ box \in {"none", "reserved", "collected", "returned"}
    /\ expired \in BOOLEAN /\ lapped \in BOOLEAN
    /\ crossed \in BOOLEAN /\ strayed \in BOOLEAN
    /\ shares \subseteq 1 .. Recipients /\ booked \in Nat
    /\ trail \in Seq(Event) /\ Len(trail) <= MaxScans
    /\ acked \subseteq Notices
    /\ now \in Nat /\ starts \in 0 .. MaxDispatches /\ deaths \in 0 .. MaxDeaths
    /\ pc \in [Workers -> {"idle", "book", "insert", "reserve", "seed", "record", "newest",
                           "current", "project", "order", "check", "split", "collect",
                           "unlocked", "emptied", "return", "returned", "back", "cancel"}]
    /\ ev \in [Workers -> Event]
    /\ latest \in [Workers -> Statuses \cup {"none"}]
    /\ nth \in [Workers -> 0 .. Recipients]

Init ==
    /\ config \in Orders
    /\ order = "open" /\ shipment = "none" /\ events = {} /\ box = "none"
    /\ shares = {}
    /\ expired = FALSE /\ booked = 0 /\ trail = <<>> /\ acked = {} /\ now = 0
    /\ starts = 0 /\ lapped = FALSE /\ crossed = FALSE /\ strayed = FALSE /\ deaths = 0
    /\ pc = [w \in Workers |-> "idle"]
    /\ ev = [w \in Workers |-> NoEvent]
    /\ latest = [w \in Workers |-> "none"]
    /\ nth = [w \in Workers |-> 0]

Goto(w, label) == pc' = [pc EXCEPT ![w] = label] /\ UNCHANGED <<ev, latest, nth>>

Forget(w) ==
    /\ pc' = [pc EXCEPT ![w] = "idle"]
    /\ ev' = [ev EXCEPT ![w] = NoEvent]
    /\ latest' = [latest EXCEPT ![w] = "none"]
    /\ nth' = [nth EXCEPT ![w] = 0]

\* The call is over: a notice has been answered with 200.
Finish(w) ==
    /\ Forget(w)
    /\ acked' = acked \cup ({ev[w].id} \cap Notices)

\* A worker takes up a call at this label.
Begin(w, label) ==
    /\ pc[w] = "idle"
    /\ pc' = [pc EXCEPT ![w] = label]
    /\ lapped' = (lapped \/ \E v \in Workers : pc[v] # "idle")

\* Mutant: an event that is notified again is stored again.
InsertDuplicate(e) == events \cup {e}

\* onConflictDoNothing by (shipment, provider's id).
Insert(e) == IF \E f \in events : f.id = e.id THEN events ELSE events \cup {e}

Dispatching == \E w \in Workers : pc[w] \in {"book", "insert", "reserve", "seed"}

-----------------------------------------------------------------------------
(* The world.                                                              *)

\* A courier's parcel is scanned: it travels, and after failed attempts or none
\* it is delivered or sent back.  Only the parcel that is on record is followed
\* further than its first scan, and not while it is being dispatched.
Scan(status) ==
    /\ config.place = "courier" /\ booked > 0 /\ Len(trail) < MaxScans
    /\ IF trail = <<>> THEN status = "in_transit"
       ELSE /\ trail[Len(trail)].status \notin Terminal
            /\ status \in {"failed", "delivered", "returned"}
            /\ shipment # "none" /\ ~Dispatching
    /\ now' = now + 1
    /\ trail' = Append(trail, [id |-> <<"scan", Len(trail) + 1>>, status |-> status,
                               at |-> now + 1])
    /\ UNCHANGED <<config, tables, expired, booked, acked, history, local>>

\* The hold window of 72 hours passes.
Expire ==
    /\ box = "reserved" /\ ~expired /\ ~Dispatching
    /\ expired' = TRUE
    /\ UNCHANGED <<config, tables, booked, trail, acked, now, history, local>>

\* The process dies, or the database does not answer and the request ends with
\* status 500: what was notified is sent again.
Die(w) ==
    /\ pc[w] # "idle" /\ deaths < MaxDeaths
    /\ deaths' = deaths + 1
    /\ strayed' = (strayed \/ pc[w] = "insert")
    /\ Forget(w)
    /\ UNCHANGED <<config, tables, world, starts, lapped, crossed>>

-----------------------------------------------------------------------------
(* dispatchShipmentForOrder.                                               *)

\* Called once by POST /orders for cash on delivery, and by whoever takes
\* himself for the one to finalize a paid order.
MayDispatch == starts < IF config.gateway = "cod" THEN 1 ELSE MaxDispatches

\* Another dispatch has looked for the shipment and not yet inserted it.
Cross == crossed' = (crossed \/ \E w \in Workers : pc[w] \in {"book", "insert"})

DispatchAgain(w) ==
    /\ MayDispatch /\ Begin(w, "book")
    /\ Cross
    /\ starts' = starts + 1
    /\ UNCHANGED <<config, tables, world, deaths, strayed, ev, latest, nth>>

\* The existing shipment ends the call.
Dispatch(w) ==
    /\ MayDispatch /\ shipment = "none" /\ Begin(w, "book")
    /\ Cross
    /\ starts' = starts + 1
    /\ UNCHANGED <<config, tables, world, deaths, strayed, ev, latest, nth>>

Book(w) ==
    /\ pc[w] = "book"
    /\ booked' = booked + 1
    /\ Goto(w, "insert")
    /\ UNCHANGED <<config, tables, expired, trail, acked, now, history>>

\* The carrier's adapter throws: the carrier refused, or it took the parcel and its
\* answer was lost.  The error is logged and the order has no shipment.
BookThrows(w) ==
    /\ pc[w] = "book" /\ config.place = "courier"
    /\ \/ UNCHANGED <<booked, strayed>>
       \/ booked' = booked + 1 /\ strayed' = TRUE
    /\ Finish(w)
    /\ UNCHANGED <<config, tables, expired, trail, now, starts, lapped, deaths, crossed>>

\* The unique index makes the second insert throw.
InsertShipment(w) ==
    /\ pc[w] = "insert"
    /\ IF shipment = "none"
       THEN shipment' = "label_created" /\ Goto(w, "reserve") /\ UNCHANGED acked
       ELSE Finish(w) /\ UNCHANGED shipment
    /\ UNCHANGED <<config, order, events, box, shares, expired, booked, trail, now, history>>

\* With the UPDATE of orders.shipment_id before it.  A counter is served by the
\* locker's carrier and gets a reservation like a locker.
Reserve(w) ==
    /\ pc[w] = "reserve"
    /\ box' = IF config.place # "courier" /\ box = "none" THEN "reserved" ELSE box
    /\ Goto(w, "seed")
    /\ UNCHANGED <<config, order, shipment, events, shares, world, history>>

SeedEvent(w) ==
    /\ pc[w] = "seed"
    /\ now' = now + 1
    /\ events' = Insert([id |-> <<"init", 0>>, status |-> "label_created", at |-> now + 1])
    /\ Finish(w)
    /\ UNCHANGED <<config, order, shipment, box, shares, expired, booked, trail, history>>

-----------------------------------------------------------------------------
(* The carriers' webhooks and the partners' POST /pudo/:code/collected, both *)
(* of which end in ingestTrackingEvents.                                   *)

\* An event without a date is dated by the clock of its arrival.
Take(w, k) ==
    /\ Begin(w, "record")
    /\ now' = IF config.dated THEN now ELSE now + 1
    /\ ev' = [ev EXCEPT ![w] = IF config.dated THEN trail[k] ELSE [trail[k] EXCEPT !.at = now + 1]]

\* Mutant: a notice is acknowledged before it is worked on.
DeliverAckFirst(w, k) ==
    /\ k \in DOMAIN trail /\ <<"scan", k>> \notin acked
    /\ acked' = acked \cup {<<"scan", k>>}
    /\ IF shipment = "none" THEN pc[w] = "idle" /\ UNCHANGED <<lapped, pc, ev, now>>
       ELSE Take(w, k)
    /\ UNCHANGED <<config, tables, expired, booked, trail, starts, deaths, mishaps,
                   latest, nth>>

\* A notice of a shipment nobody knows is answered with 200 and is lost.
Deliver(w, k) ==
    /\ k \in DOMAIN trail /\ <<"scan", k>> \notin acked
    /\ IF shipment = "none"
       THEN /\ pc[w] = "idle" /\ acked' = acked \cup {<<"scan", k>>}
            /\ UNCHANGED <<lapped, pc, ev, now>>
       ELSE Take(w, k) /\ UNCHANGED acked
    /\ UNCHANGED <<config, tables, expired, booked, trail, starts, deaths, mishaps,
                   latest, nth>>

\* The partner hands the parcel over and says so.
Collected(w) ==
    /\ config.place = "counter" /\ shipment # "none" /\ <<"collected", 0>> \notin acked
    /\ Begin(w, "record")
    /\ now' = now + 1
    /\ ev' = [ev EXCEPT ![w] = [id |-> <<"collected", 0>>, status |-> "delivered",
                                at |-> now + 1]]
    /\ UNCHANGED <<config, tables, expired, booked, trail, acked, starts, deaths, mishaps,
                   latest, nth>>

RecordEvent(w) ==
    /\ pc[w] = "record"
    /\ events' = Insert(ev[w])
    /\ Goto(w, "newest")
    /\ UNCHANGED <<config, order, shipment, box, shares, world, history>>

Newest == CHOOSE e \in events : \A f \in events : f.at <= e.at

ReadStatus(w, status) ==
    /\ pc[w] = "newest"
    /\ latest' = [latest EXCEPT ![w] = status]
    /\ pc' = [pc EXCEPT ![w] = "current"]
    /\ UNCHANGED <<config, tables, world, history, ev, nth>>

\* Mutant: the event at hand is taken for the newest.
ReadOwn(w) == ReadStatus(w, ev[w].status)

\* The newest event in the table, not just of this batch.
ReadNewest(w) == ReadStatus(w, Newest.status)

\* A shipment at its end is not set back to an intermediate status.
ReadCurrent(w) ==
    /\ pc[w] = "current"
    /\ IF shipment \in Terminal /\ latest[w] \notin Terminal
       THEN Finish(w)
       ELSE Goto(w, "project") /\ UNCHANGED acked
    /\ UNCHANGED <<config, tables, expired, booked, trail, now, history>>

Project(w) ==
    /\ pc[w] = "project"
    /\ shipment' = latest[w]
    /\ IF latest[w] = "delivered" THEN Goto(w, "order") /\ UNCHANGED acked ELSE Finish(w)
    /\ UNCHANGED <<config, order, events, box, shares, expired, booked, trail, now, history>>

\* Also the step of the unlock; a cancelled order is delivered like any other.
DeliverOrder(w) ==
    /\ pc[w] = "order"
    /\ order' = "delivered"
    /\ Goto(w, "check")
    /\ UNCHANGED <<config, shipment, events, box, shares, world, history>>

-----------------------------------------------------------------------------
(* scheduleCodPayoutsOnDelivery and splitOrderPayouts.                     *)

EnterSplit(w) ==
    /\ pc' = [pc EXCEPT ![w] = "split"]
    /\ nth' = [nth EXCEPT ![w] = 1]
    /\ UNCHANGED <<acked, ev, latest>>

\* One share in the table is taken for all of them.
CheckShares(w) ==
    /\ pc[w] = "check"
    /\ IF config.gateway = "cod" /\ shares = {} THEN EnterSplit(w) ELSE Finish(w)
    /\ UNCHANGED <<config, tables, expired, booked, trail, now, history>>

\* One insert per recipient, in order; a row that is there already stays.
InsertShare(w) ==
    /\ pc[w] = "split"
    /\ shares' = shares \cup {nth[w]}
    /\ IF nth[w] >= Recipients THEN Finish(w)
       ELSE nth' = [nth EXCEPT ![w] = @ + 1] /\ UNCHANGED <<acked, pc, ev, latest>>
    /\ UNCHANGED <<config, order, shipment, events, box, expired, booked, trail, now, history>>

\* An error while scheduling is swallowed: the call goes on as if nothing was.
SplitThrows(w) ==
    /\ pc[w] \in {"check", "split"} /\ config.gateway = "cod" /\ deaths < MaxDeaths
    /\ deaths' = deaths + 1
    /\ Finish(w)
    /\ UNCHANGED <<config, tables, expired, booked, trail, now, starts, lapped, mishaps>>

-----------------------------------------------------------------------------
(* The locker: POST /box/unlock and autoReturnExpiredBoxReservations.      *)

\* The time of the event is the time of the request.
Stamp(w, id, status) ==
    /\ now' = now + 1
    /\ ev' = [ev EXCEPT ![w] = [id |-> <<id, 0>>, status |-> status, at |-> now + 1]]

Unlock(w) ==
    /\ config.place = "locker" /\ box = "reserved"
    /\ Begin(w, "collect")
    /\ UNCHANGED <<config, tables, world, starts, deaths, mishaps, ev, latest, nth>>

\* Keyed by id only: whatever has become of the reservation, it is collected.
Collect(w) ==
    /\ pc[w] = "collect"
    /\ box' = "collected"
    /\ Stamp(w, "unlock", "delivered")
    /\ pc' = [pc EXCEPT ![w] = "unlocked"]
    /\ UNCHANGED <<config, order, shipment, events, shares, expired, booked, trail, acked,
                   history, latest, nth>>

UnlockEvent(w) ==
    /\ pc[w] = "unlocked"
    /\ events' = Insert(ev[w])
    /\ Goto(w, "emptied")
    /\ UNCHANGED <<config, order, shipment, box, shares, world, history>>

UnlockShipment(w) ==
    /\ pc[w] = "emptied"
    /\ shipment' = "delivered"
    /\ Goto(w, "order")
    /\ UNCHANGED <<config, order, events, box, shares, world, history>>

\* The timer's SELECT; a box is never stocked, for no code writes that status.
FindExpired(w) ==
    /\ box = "reserved" /\ expired
    /\ Begin(w, "return")
    /\ Stamp(w, "return", "returned")
    /\ UNCHANGED <<config, tables, expired, booked, trail, acked, starts, deaths, mishaps,
                   latest, nth>>

\* Mutant: the UPDATE goes by the id alone.
ReturnBlindly(w) ==
    /\ pc[w] = "return"
    /\ box' = "returned"
    /\ Goto(w, "returned")
    /\ UNCHANGED <<config, order, shipment, events, shares, world, history>>

ReturnBox(w) ==
    /\ pc[w] = "return"
    /\ IF box = "reserved"
       THEN box' = "returned" /\ Goto(w, "returned") /\ UNCHANGED acked
       ELSE Finish(w) /\ UNCHANGED box
    /\ UNCHANGED <<config, order, shipment, events, shares, expired, booked, trail, now, history>>

ReturnEvent(w) ==
    /\ pc[w] = "returned"
    /\ events' = Insert(ev[w])
    /\ Goto(w, "back")
    /\ UNCHANGED <<config, order, shipment, box, shares, world, history>>

ReturnShipment(w) ==
    /\ pc[w] = "back"
    /\ shipment' = "returned"
    /\ Finish(w)
    /\ UNCHANGED <<config, order, events, box, shares, expired, booked, trail, now, history>>

-----------------------------------------------------------------------------
(* POST /orders/:orderId/cancel.  The shipment is left alone.              *)

CancelRead(w) ==
    /\ order \notin {"delivered", "cancelled"}
    /\ Begin(w, "cancel")
    /\ UNCHANGED <<config, tables, world, starts, deaths, mishaps, ev, latest, nth>>

CancelWrite(w) ==
    /\ pc[w] = "cancel"
    /\ order' = "cancelled"
    /\ Finish(w)
    /\ UNCHANGED <<config, shipment, events, box, shares, expired, booked, trail, now, history>>

-----------------------------------------------------------------------------
Continue(w) ==
    \/ Book(w) \/ BookThrows(w) \/ InsertShipment(w) \/ Reserve(w) \/ SeedEvent(w)
    \/ RecordEvent(w) \/ ReadNewest(w) \/ ReadCurrent(w) \/ Project(w) \/ DeliverOrder(w)
    \/ CheckShares(w) \/ InsertShare(w)
    \/ Collect(w) \/ UnlockEvent(w) \/ UnlockShipment(w)
    \/ ReturnBox(w) \/ ReturnEvent(w) \/ ReturnShipment(w) \/ CancelWrite(w)

Receive(w) == \E k \in 1 .. MaxScans : Deliver(w, k)

Start(w) ==
    Dispatch(w) \/ Collected(w) \/ Unlock(w) \/ FindExpired(w) \/ CancelRead(w)

Next ==
    \/ Expire \/ \E status \in Statuses : Scan(status)
    \/ \E w \in Workers : Start(w) \/ Receive(w) \/ Continue(w) \/ SplitThrows(w) \/ Die(w)

Spec == Init /\ [][Next]_vars

\* Workers that do not die go on, and carriers repeat a notice until it has
\* been answered with 200.
Fairness ==
    /\ \A w \in Workers : WF_vars(Continue(w))
    /\ \A k \in 1 .. MaxScans : SF_vars(\E w \in Workers : Deliver(w, k))

FairSpec == Spec /\ Fairness

-----------------------------------------------------------------------------
(* Properties.                                                             *)

Quiet == \A w \in Workers : pc[w] = "idle"
HasProof == \E e \in events : e.status = "delivered"

\* "If a shipment already exists we return it without re-charging the carrier", next
\* to whatever notices, timers and cancellations: two parcels are booked only if two
\* dispatches were between the look-up of the shipment and its insertion at the same
\* time, or one of them had its parcel booked and died, failed or lost the carrier's
\* answer before the row was there.
BookedOnce == booked > 1 => crossed \/ strayed

\* What is shown has been earned.  "Out-of-order webhook deliveries can't regress
\* state": when everything has been recorded, by one call after the other, the
\* shipment shows the newest event or an end.  Through every race and death the
\* order is delivered, and shares of a cash order are scheduled, only with an event
\* that says so.
StatusIsEarned ==
    /\ Quiet /\ ~lapped /\ deaths = 0 /\ events # {}
           => shipment = Newest.status \/ shipment \in Terminal
    /\ order = "delivered" => HasProof
    /\ shares # {} => config.gateway = "cod" /\ HasProof

\* What has ended stays ended.  "Once delivered/returned/cancelled we never
\* overwrite", by a call that has the shipment to itself; what the buyer has taken
\* out of the box is not returned to the seller, however the unlock and the timer
\* interleave.
EndStays ==
    [][/\ (shipment \in Terminal /\ ~lapped) => shipment' \in Terminal
       /\ box = "collected" => box' = "collected"]_vars

\* A parcel the courier has delivered is shown delivered, whatever the order of the
\* notices and in spite of deaths, once the shipment is on record: the event is
\* stored, the order leaves "open" (a cancellation may come on top), and the shipment
\* says so unless two calls overlapped.  Without dates, an overlap or a death may hide
\* the delivery behind an older event.  And when a cash order is delivered every
\* recipient gets a row, if nothing dies or fails on the way.
DeliveryCounts ==
    /\ (shipment # "none" /\ \E k \in DOMAIN trail : trail[k].status = "delivered")
           ~> \/ HasProof /\ order # "open" /\ (shipment = "delivered" \/ lapped)
              \/ ~config.dated /\ (lapped \/ deaths > 0)
    /\ (config.gateway = "cod" /\ order = "delivered")
           ~> (shares = 1 .. Recipients \/ deaths > 0)
=============================================================================
