------------------------------- MODULE Streams -------------------------------
(***************************************************************************)
(* One live stream of a seller: start, stop and key rotation, the webhook  *)
(* of the streaming provider that announces recordings, the replay that is *)
(* made of a recording, and the viewer counts that the sockets write to    *)
(* the same row.                                                           *)
(*                                                                         *)
(* Every SQL statement and every call of the provider is one step of a     *)
(* worker, which serves one request or webhook at a time.  The handlers of *)
(* the sockets are calls: a viewer's may overlap with another viewer's and *)
(* with each other.                                                        *)
(***************************************************************************)
EXTENDS Naturals, Sequences, FiniteSets

CONSTANTS
    Workers,
    Viewers,
    Plans          \* what the seller does, see Budgets

\* Bounds: requests to start, to stop and to rotate the key, workers that die,
\* meet a database error or get a delivery they reject; and whether viewers come and go, or recordings are made:
\* what a replay takes over of the counts, its number of views, is left out.
Budgets == [starts : Nat, stops : Nat, rotations : Nat, deaths : Nat, seen : BOOLEAN]

ASSUME StreamsAssumption ==
    /\ Plans \subseteq Budgets
    /\ IsFiniteSet(Viewers)

VARIABLES
    plan,      \* which of Plans this is
    left,      \* what is left of it
    status, input, hls, video, current, peak, \* the row of streams
    replay,    \* the row of replays: unique by stream
    inputs,    \* live inputs that exist at the provider
    made,      \* live inputs made so far
    videos,    \* recordings at the provider, one of a session
    events,   \* events of the provider it has no 200 for
    room, calls, \* sockets in the stream's room, handlers of sockets at work
    sessions,  \* transitions of status into live
    announced, \* times the followers were notified
    raced, crossed, \* two starts, two rotations overlapped
    leaky,     \* an old live input could not be deleted, a new one not be made
    bare, shown,  \* history: recordings that came without a playback URL; that the
                  \* row has named
    forgotten,    \* history: ready recordings answered with 200 and dropped
    miscounted,   \* history: handlers overlapped, a write failed, or the counts were
                  \* reset, with viewers about, since a handler last ran alone
    doubled,      \* history: that handler left out a viewer who had gone already
    unpeaked,     \* history: somebody left while a join was handled, the write of a
                  \* join failed or a start reset the counts with viewers about,
                  \* since a join last began alone
    at, job    \* of each worker: label, what it has read

row     == <<status, input, hls, video, current, peak>>
remote  == <<inputs, made, videos, events>>
sockets == <<room, calls>>
recorded == <<bare, shown, forgotten>>
counts  == <<miscounted, doubled, unpeaked>>
past    == <<sessions, announced, raced, crossed, leaky, bare, shown, forgotten,
             miscounted, doubled, unpeaked>>
local   == <<at, job>>
streamVars    == <<plan, left, row, replay, remote, sockets, past, local>>

Stub      == 0  \* the live input that is made up when the provider does not answer
LiveOf(i) == <<"live", i>>
Playing(n) == <<"video", n>>
Blank     == <<"none", 0>>

NoReplay == [of |-> 0, playable |-> FALSE]
NoJob    == [was |-> "idle", input |-> Stub, hls |-> Blank, video |-> 0,
             of |-> 0, url |-> Blank, notified |-> FALSE]

Playbacks == {"live", "video", "none"} \X Nat
Uncounted == Cardinality(Viewers) + 1
\* "gone": the handler of a disconnect that comes to this room after another one.
Calls == [by : Viewers, kind : {"join", "leave", "gone"}, count : 0 .. Uncounted]

StreamTypeOK ==
    /\ plan \in Plans /\ left \in Budgets
    /\ status \in {"idle", "live", "ended"}
    /\ input \in inputs \cup {Stub} \cup 1 .. made
    /\ hls \in Playbacks /\ video \in 0 .. Len(videos)
    /\ current \in 0 .. Cardinality(Viewers) /\ peak \in 0 .. Cardinality(Viewers)
    /\ replay.of \in 0 .. Len(videos) /\ replay.playable \in BOOLEAN
    /\ inputs \subseteq 1 .. made /\ made <= plan.rotations + 1
    /\ Len(videos) <= sessions
    /\ \A n \in DOMAIN videos : videos[n] \in [input : inputs \cup 1 .. made, ready : BOOLEAN]
    /\ events \subseteq ((DOMAIN videos) \X {"inprogress", "ready"})
    /\ room \subseteq Viewers /\ calls \subseteq Calls
    /\ sessions <= plan.starts /\ announced <= plan.starts
    /\ at \in [Workers -> {"idle", "start", "announce", "stop", "list", "delete", "create",
                           "assign", "look", "replay", "insert", "sync", "final"}]

StreamInit ==
    /\ plan \in Plans /\ left = plan
    /\ status = "idle" /\ input = 1 /\ hls = LiveOf(1) /\ video = 0
    /\ current = 0 /\ peak = 0 /\ replay = NoReplay
    /\ inputs = {1} /\ made = 1 /\ videos = <<>> /\ events = {}
    /\ room = {} /\ calls = {}
    /\ sessions = 0 /\ announced = 0
    /\ raced = FALSE /\ crossed = FALSE /\ leaky = FALSE
    /\ bare = {} /\ shown = {} /\ forgotten = {}
    /\ miscounted = FALSE /\ doubled = FALSE /\ unpeaked = FALSE
    /\ at = [w \in Workers |-> "idle"]
    /\ job = [w \in Workers |-> NoJob]

MoveTo(w, label) == at' = [at EXCEPT ![w] = label] /\ UNCHANGED job
Rest(w) ==
    /\ at' = [at EXCEPT ![w] = "idle"]
    /\ job' = [job EXCEPT ![w] = NoJob]

Spend(what) == left[what] > 0 /\ left' = [left EXCEPT ![what] = @ - 1]

\* The event at hand is answered with 200.
Ack(w) == IF job[w].notified THEN events \ {<<job[w].of, "ready">>} ELSE events

-----------------------------------------------------------------------------
(* The world.                                                              *)

\* The seller's encoder sends to the live input; the provider records.
Record ==
    /\ ~plan.seen /\ status = "live" /\ input \in inputs /\ Len(videos) < sessions
    /\ videos' = Append(videos, [input |-> input, ready |-> FALSE])
    /\ events' = events \cup {<<Len(videos) + 1, "inprogress">>}
    /\ UNCHANGED <<plan, left, row, replay, inputs, made, sockets, past, local>>

\* A recording is complete once its session is over.
Ready(n) ==
    /\ ~videos[n].ready /\ (status # "live" \/ n < sessions)
    /\ videos' = [videos EXCEPT ![n].ready = TRUE]
    /\ events' = events \cup {<<n, "ready">>}
    /\ UNCHANGED <<plan, left, row, replay, inputs, made, sockets, past, local>>

\* Mutant: an event that met an error counts as answered.
LostOnError(w) == Ack(w)

Unanswered(w) == events

\* The process dies or the database does not answer: an event is answered with
\* 500 or not at all and is delivered again; a request is not repeated.
Die(w) ==
    /\ at[w] # "idle" /\ Spend("deaths")
    /\ events' = Unanswered(w)
    /\ Rest(w)
    /\ UNCHANGED <<plan, row, replay, inputs, made, videos, sockets, past>>

-----------------------------------------------------------------------------
(* Start, stop and key rotation.                                           *)

Start(w) ==
    /\ at[w] = "idle" /\ Spend("starts")
    /\ at' = [at EXCEPT ![w] = "start"]
    /\ job' = [job EXCEPT ![w].was = status]
    /\ raced' = (raced \/ \E v \in Workers : at[v] = "start")
    /\ UNCHANGED <<plan, row, replay, remote, sockets, sessions, announced, crossed, leaky,
                   recorded, counts>>

\* What follows the update of start: a resume notifies nobody.
AfterStart(was) == IF was = "live" THEN "idle" ELSE "announce"

\* Somebody is in the room or on the way into it or out of it.
Peopled == room # {} \/ calls # {}

\* A start that saw the stream live leaves the counts alone, another resets them.
GoLive(w) ==
    /\ at[w] = "start"
    /\ status' = "live"
    /\ sessions' = IF status = "live" THEN sessions ELSE sessions + 1
    /\ IF job[w].was = "live"
       THEN UNCHANGED <<current, peak, counts>>
       ELSE /\ current' = 0 /\ peak' = 0
            /\ miscounted' = Peopled /\ doubled' = FALSE /\ unpeaked' = Peopled
    /\ MoveTo(w, AfterStart(job[w].was))
    /\ UNCHANGED <<plan, left, input, hls, video, replay, remote, sockets, announced, raced,
                   crossed, leaky, recorded>>

Announce(w) ==
    /\ at[w] = "announce"
    /\ announced' = announced + 1
    /\ Rest(w)
    /\ UNCHANGED <<plan, left, row, replay, remote, sockets, sessions, raced, crossed, leaky,
                   recorded, counts>>

\* The seller ends a stream that has been live.
Stop(w) ==
    /\ at[w] = "idle" /\ sessions > 0 /\ Spend("stops")
    /\ MoveTo(w, "stop")
    /\ UNCHANGED <<plan, row, replay, remote, sockets, past>>

EndStream(w) ==
    /\ at[w] = "stop"
    /\ status' = "ended" /\ current' = 0
    /\ miscounted' = Peopled /\ doubled' = FALSE
    /\ MoveTo(w, "list")
    /\ UNCHANGED <<plan, left, input, hls, video, peak, replay, remote, sockets, sessions,
                   announced, raced, crossed, leaky, recorded, unpeaked>>

\* The first recording that the provider lists for the row's live input; the
\* list is empty when the input is unknown to it or it does not answer.
ListRecordings(w) ==
    /\ at[w] = "list"
    /\ \/ /\ Rest(w)
          /\ UNCHANGED bare
       \/ \E n \in DOMAIN videos, known \in BOOLEAN :
              /\ videos[n].input = input /\ input \in inputs
              /\ at' = [at EXCEPT ![w] = "look"]
              /\ job' = [job EXCEPT ![w].of = n, ![w].url = IF known THEN Playing(n) ELSE Blank]
              /\ bare' = IF known THEN bare ELSE bare \cup {n}
    /\ UNCHANGED <<plan, left, row, replay, remote, sockets, sessions, announced, raced,
                   crossed, leaky, shown, forgotten, counts>>

Rotating(w) == at[w] \in {"delete", "create", "assign"}

Rotate(w) ==
    /\ at[w] = "idle" /\ Spend("rotations")
    /\ at' = [at EXCEPT ![w] = "delete"]
    /\ job' = [job EXCEPT ![w].input = input]
    /\ crossed' = (crossed \/ \E v \in Workers : Rotating(v))
    /\ UNCHANGED <<plan, row, replay, remote, sockets, sessions, announced, raced, leaky,
                   recorded, counts>>

\* Mutant: the old input is left at the provider.
KeepOld(w) == inputs

Remaining(w) == inputs \ {job[w].input}

\* A failure to delete the old input is logged and ignored.
DeleteInput(w) ==
    /\ at[w] = "delete"
    /\ \/ inputs' = Remaining(w) /\ UNCHANGED leaky
       \/ UNCHANGED inputs /\ leaky' = TRUE
    /\ MoveTo(w, "create")
    /\ UNCHANGED <<plan, left, row, replay, made, videos, events, sockets, sessions,
                   announced, raced, crossed, recorded, counts>>

CreateInput(w) ==
    /\ at[w] = "create"
    /\ \/ /\ made' = made + 1 /\ inputs' = inputs \cup {made + 1}
          /\ job' = [job EXCEPT ![w].input = made + 1]
          /\ UNCHANGED leaky
       \/ /\ job' = [job EXCEPT ![w].input = Stub] /\ leaky' = TRUE
          /\ UNCHANGED <<made, inputs>>
    /\ at' = [at EXCEPT ![w] = "assign"]
    /\ UNCHANGED <<plan, left, row, replay, videos, events, sockets, sessions, announced,
                   raced, crossed, recorded, counts>>

\* The identity of the input that the row gets, beside its keys and URLs.
NewInput(w) == job[w].input

AssignInput(w) ==
    /\ at[w] = "assign"
    /\ input' = NewInput(w) /\ hls' = LiveOf(job[w].input)
    /\ Rest(w)
    /\ UNCHANGED <<plan, left, status, video, current, peak, replay, remote, sockets, past>>

-----------------------------------------------------------------------------
(* Recordings become replays.                                              *)

\* The states of a recording whose event is worked on.
Handled == {"ready"}

\* The playback URL for a recording whose event has or lacks one, when the
\* provider, asked again, has it or not.
Hydrated(n, has, found) == IF has \/ found THEN Playing(n) ELSE Blank

\* The stream of a delivery: the one it names, or the one whose live input it was
\* recorded from, which it is no longer once the key has been rotated.
Matched(n, named) == named \/ videos[n].input = input

\* Answered with 200: nobody will hear of the recording again.
Forget(e) ==
    /\ events' = events \ {e}
    /\ forgotten' = IF e[2] \in Handled THEN forgotten \cup {e[1]} ELSE forgotten

\* A delivery with a signature that is not or no longer valid, or without JSON or the
\* recording's uid.
Reject(w) == \E e \in events :
    /\ at[w] = "idle" /\ Spend("deaths")
    /\ Forget(e)
    /\ UNCHANGED <<plan, row, replay, inputs, made, videos, sockets, sessions, announced,
                   raced, crossed, leaky, bare, shown, counts, local>>

Receive(w) == \E e \in events, has, found, named \in BOOLEAN :
    /\ at[w] = "idle"
    /\ IF e[2] \in Handled /\ Matched(e[1], named)
       THEN /\ at' = [at EXCEPT ![w] = "look"]
            /\ job' = [job EXCEPT ![w].of = e[1], ![w].url = Hydrated(e[1], has, found),
                                  ![w].notified = TRUE]
            /\ bare' = IF has \/ found THEN bare ELSE bare \cup {e[1]}
            /\ UNCHANGED <<events, forgotten>>
       ELSE Forget(e) /\ UNCHANGED <<bare, local>>
    /\ UNCHANGED <<plan, left, row, replay, inputs, made, videos, sockets, sessions, announced,
                   raced, crossed, leaky, shown, counts>>

ReadStream(w) ==
    /\ at[w] = "look"
    /\ at' = [at EXCEPT ![w] = "replay"]
    /\ job' = [job EXCEPT ![w].hls = hls, ![w].video = video]
    /\ UNCHANGED <<plan, left, row, replay, remote, sockets, past>>

ReadReplay(w) ==
    /\ at[w] = "replay"
    /\ MoveTo(w, IF replay = NoReplay THEN "insert" ELSE "sync")
    /\ UNCHANGED <<plan, left, row, replay, remote, sockets, past>>

\* The insert; the one that comes second meets the unique index and goes on as
\* if it had found the replay.
InsertReplay(w) ==
    /\ at[w] = "insert"
    /\ IF replay = NoReplay
       THEN /\ replay' = [of |-> job[w].of, playable |-> job[w].url # Blank]
            /\ MoveTo(w, "final")
       ELSE UNCHANGED replay /\ MoveTo(w, "sync")
    /\ UNCHANGED <<plan, left, row, remote, sockets, past>>

ShowRecording(w) ==
    /\ video' = job[w].of /\ hls' = job[w].url
    /\ shown' = shown \cup {job[w].of}

\* A replay that exists stays as it is; the stream follows the recording.
SyncStream(w) ==
    /\ at[w] = "sync"
    /\ IF job[w].url # Blank /\ <<job[w].video, job[w].hls>> # <<job[w].of, job[w].url>>
       THEN ShowRecording(w)
       ELSE UNCHANGED <<video, hls, shown>>
    /\ events' = Ack(w)
    /\ Rest(w)
    /\ UNCHANGED <<plan, left, status, input, current, peak, replay, inputs, made, videos,
                   sockets, sessions, announced, raced, crossed, leaky, bare, forgotten,
                   counts>>

FinalUpdate(w) ==
    /\ at[w] = "final"
    /\ ShowRecording(w)
    /\ events' = Ack(w)
    /\ Rest(w)
    /\ UNCHANGED <<plan, left, status, input, current, peak, replay, inputs, made, videos,
                   sockets, sessions, announced, raced, crossed, leaky, bare, forgotten,
                   counts>>

-----------------------------------------------------------------------------
(* Viewers.                                                                *)

\* A handler begins: the row will show its count unless another is at work.
Enter(v, kind, count) ==
    /\ calls' = calls \cup {[by |-> v, kind |-> kind, count |-> count]}
    /\ miscounted' = (calls # {})
    /\ doubled' = (kind = "gone")
    /\ unpeaked' = IF kind = "join" THEN unpeaked /\ calls # {}
                   ELSE unpeaked \/ \E c \in calls : c.kind = "join"
    /\ UNCHANGED <<plan, left, row, replay, remote, sessions, announced, raced, crossed, leaky,
                   recorded, local>>

\* A viewer that has not been in the room yet joins it.
Join(v) ==
    /\ plan.seen /\ v \notin room /\ \A c \in calls : c.by # v
    /\ room' = room \cup {v}
    /\ Enter(v, "join", Uncounted)

\* A viewer leaves the room by a message.
Leave(v) ==
    /\ v \in room
    /\ room' = room \ {v}
    /\ Enter(v, "leave", Uncounted)

\* Mutant: the count may fall below zero.
LessSelf(size) == size - 1

\* The count of a viewer who disconnects and who is in the room until it is taken.
WithoutSelf(size) == IF size > 0 THEN size - 1 ELSE 0

\* The rooms of a viewer who disconnects are counted one after the other: the first
\* before the viewer is evicted from all of them, the others afterwards.
Disconnect(v, first) ==
    /\ v \in room
    /\ room' = room \ {v}
    /\ IF first THEN Enter(v, "leave", WithoutSelf(Cardinality(room)))
       ELSE Enter(v, "gone", Uncounted)

Size(c) == IF c.kind = "gone" THEN WithoutSelf(Cardinality(room)) ELSE Cardinality(room)

Count(c) ==
    /\ c.count = Uncounted
    /\ calls' = (calls \ {c}) \cup {[c EXCEPT !.count = Size(c)]}
    /\ UNCHANGED <<plan, left, row, replay, remote, room, past, local>>

\* Mutant: the peak follows the count that is about to be overwritten.
PeakLagging(c) == IF c.kind = "join" /\ current > peak THEN current ELSE peak

\* The peak after a count was written; a leave never changes it.
PeakAfter(c) == IF c.kind = "join" /\ c.count > peak THEN c.count ELSE peak

\* The write of the count that was taken.
WriteCount(c) ==
    /\ c.count # Uncounted
    /\ calls' = calls \ {c}
    /\ current' = c.count /\ peak' = PeakAfter(c)
    /\ UNCHANGED <<plan, left, status, input, hls, video, replay, remote, room, past, local>>

\* The database does not take the count: that is logged.
LoseCount(c) ==
    /\ c.count # Uncounted /\ Spend("deaths")
    /\ calls' = calls \ {c}
    /\ miscounted' = TRUE /\ unpeaked' = (unpeaked \/ c.kind = "join")
    /\ UNCHANGED <<plan, row, replay, remote, room, sessions, announced, raced, crossed,
                   leaky, recorded, doubled, local>>

-----------------------------------------------------------------------------
Seller(w) == Start(w) \/ Stop(w) \/ Rotate(w)

Work(w) ==
    \/ GoLive(w) \/ Announce(w) \/ EndStream(w) \/ ListRecordings(w)
    \/ DeleteInput(w) \/ CreateInput(w) \/ AssignInput(w)
    \/ Receive(w) \/ ReadStream(w) \/ ReadReplay(w) \/ InsertReplay(w)
    \/ SyncStream(w) \/ FinalUpdate(w)

Sockets ==
    \/ \E v \in Viewers : Join(v) \/ Leave(v) \/ \E first \in BOOLEAN : Disconnect(v, first)
    \/ \E c \in calls : Count(c) \/ WriteCount(c) \/ LoseCount(c)

StreamNext ==
    \/ \E w \in Workers : Seller(w) \/ Work(w) \/ Reject(w) \/ Die(w)
    \/ Record \/ \E n \in DOMAIN videos : Ready(n)
    \/ Sockets

StreamSpec == StreamInit /\ [][StreamNext]_streamVars

\* A worker that is at something goes on, and the provider delivers again what
\* was not answered with 200.
StreamFairSpec == StreamSpec /\ \A w \in Workers : WF_streamVars(Work(w))

-----------------------------------------------------------------------------
(* Properties.                                                             *)

\* What followers and viewers are told of a live stream is true.  Followers hear of it
\* once for every time it goes live, unless two starts overlap (routes/
\* streamLifecycle.ts:109).  While its first session lasts the player gets what is
\* live, no recording (routes/streamingWebhooks.ts:71-78).  Between rotations the
\* input on record exists at the provider, also when rotations overlapped
\* (routes/streamLifecycle.ts:224-240); after rotations one by one it is the only
\* one, "the old keys are gone" (lib/streaming.ts:141-142).
LiveIsTrue ==
    /\ ~raced => announced <= sessions
    /\ (status = "live" /\ sessions = 1) => hls[1] = "live"
    /\ (left.deaths = plan.deaths /\ \A w \in Workers : ~Rotating(w)) =>
           /\ input # Stub => input \in inputs
           /\ ~crossed /\ ~leaky => inputs = {input}

\* When no handler of a socket is at work the row counts who is in the room, once a
\* handler has run alone, whatever happened before (lib/socket.ts:44-59); and when no
\* join is at work the peak covers the current count, once a join has begun alone, in
\* whatever order the handlers count and write from then on.  The counts are wrong in
\* between: after handlers that overlapped, the write that failed, and a start or stop
\* with viewers about, which set them to zero (routes/streamLifecycle.ts:142-151,
\* 192-193); and after a disconnect that is counted in a second room.  The peak may be
\* below the count after a viewer left while a join was handled, after the failed write
\* of a join, and after a start with viewers about.
CountsAreTrue ==
    /\ (calls = {} /\ ~miscounted /\ ~doubled) => current = Cardinality(room)
    /\ (~unpeaked /\ \A c \in calls : c.kind # "join") => current <= peak

\* A recording of which the provider tells that it is ready becomes the stream's replay,
\* or there is one and the row has named the recording instead, although workers die,
\* unless it came without a playback URL (bare) or its delivery was answered with 200
\* and dropped (routes/streamingWebhooks.ts:53-64, 85-105, 115-119); and a replay of a
\* recording that never came without a URL can be played (120-175).
RecordingIsReplayed ==
    \A n \in 1 .. 2 :
        (<<n, "ready">> \in events) ~>
            \/ n \in forgotten
            \/ /\ replay # NoReplay
               /\ replay.of = n \/ n \in shown \/ n \in bare
               /\ replay.of = n => replay.playable \/ n \in bare
=============================================================================
