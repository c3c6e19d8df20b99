------------------------------ MODULE Approvals ------------------------------
(***************************************************************************)
(* The agent service: AgentRuntime.handle works through the tool calls of  *)
(* a model's answer, and asks a human over the approval bus before a tool  *)
(* that moves money is dispatched.  The bus is a pair of Kafka topics and  *)
(* an in-memory map, in each replica, of those who wait for a decision.    *)
(*                                                                         *)
(* A turn is one execution of handle; every await of it ends a step.       *)
(***************************************************************************)
EXTENDS Naturals, FiniteSets

CONSTANTS
    Turns,         \* executions of handle
    Configs,       \* deployments: see Config
    MaxCalls,      \* bound on the tool calls of a turn
    MaxExits,      \* bound on the processes that end
    MaxMuted       \* bound on the calls of which audit events are lost

Tools == {"read", "refund"}
Gated == {"refund"}    \* approvalThreshold "single-human"

\* The replicas; whether KAFKA_BROKERS is set; the tools with a handler.
Config(c) ==
    /\ c.wired \in BOOLEAN
    /\ c.registered \subseteq Tools
    /\ c.replicas # {} /\ IsFiniteSet(c.replicas)

ASSUME ApprovalsAssumption ==
    /\ \A c \in Configs : Config(c)
    /\ MaxCalls \in Nat /\ MaxExits \in Nat /\ MaxMuted \in Nat

VARIABLES
    config,    \* which of Configs this is
    up,        \* replicas whose bus is started
    exits,     \* processes that ended
    proposed,  \* topic agent.proposed_action
    decided,   \* what operators have decided, ever
    answers,   \* topics agent.action_approved and _rejected, up to the group's offset
    trail,     \* audit events
    muted,     \* proposals of which an audit event was lost
    ran,       \* calls whose tool did what it is for
    memory,    \* turns in the session's memory
    unheard,   \* proposals whose decision was read while they waited, to no avail
    gated,     \* calls of tools that need a human
    pc, home, nth, tool \* of each turn: label, replica, number and tool of its call

topics  == <<proposed, decided, answers>>
records == <<trail, muted, ran, memory, unheard>>
turn    == <<pc, home, nth, tool, gated>>
vars    == <<config, up, exits, topics, records, turn>>

Replicas  == UNION {c.replicas : c \in Configs}
Calls     == Turns \X (1 .. MaxCalls)
Call(t)   == <<t, nth[t]>>
Decisions == {"approved", "rejected"}
AuditKinds == {"tool_proposed", "tool_approved", "tool_rejected", "tool_dispatched"}
Labels == {"idle", "next", "propose", "produce", "register", "await", "approved", "refused",
           "dispatch", "dispatched", "ended", "lost"}

TypeOK ==
    /\ config \in Configs
    /\ up \subseteq config.replicas /\ exits \in 0 .. MaxExits
    /\ proposed \subseteq Calls
    /\ decided \subseteq (proposed \X Decisions) /\ answers \subseteq decided
    /\ trail \subseteq (Calls \X AuditKinds)
    /\ muted \subseteq Calls /\ ran \subseteq Calls
    /\ memory \subseteq Turns /\ unheard \subseteq proposed /\ gated \subseteq Calls
    /\ pc \in [Turns -> Labels]
    /\ home \in [Turns -> Replicas]
    /\ nth \in [Turns -> 0 .. MaxCalls]
    /\ tool \in [Turns -> Tools]
    /\ \A t \in Turns :
           /\ home[t] \in config.replicas
           /\ pc[t] \notin {"idle", "next", "ended", "lost"} => nth[t] >= 1

Init ==
    /\ config \in Configs
    /\ up = config.replicas /\ exits = 0
    /\ proposed = {} /\ decided = {} /\ answers = {}
    /\ trail = {} /\ muted = {} /\ ran = {} /\ memory = {} /\ unheard = {} /\ gated = {}
    /\ pc = [t \in Turns |-> "idle"]
    /\ home \in [Turns -> config.replicas]
    /\ nth = [t \in Turns |-> 0]
    /\ tool = [t \in Turns |-> "read"]

Goto(t, label) == pc' = [pc EXCEPT ![t] = label] /\ UNCHANGED <<home, nth, tool, gated>>

\* An audit event; an outage of its sink is swallowed.
Audit(t, kind) ==
    \/ trail' = trail \cup {<<Call(t), kind>>} /\ UNCHANGED muted
    \/ /\ Cardinality(muted \cup {Call(t)}) <= MaxMuted
       /\ muted' = muted \cup {Call(t)} /\ UNCHANGED trail

-----------------------------------------------------------------------------
(* AgentRuntime.handle.                                                    *)

\* A message comes in; history, prompt and the model's answer are fetched.
Message(t) ==
    /\ pc[t] = "idle" /\ home[t] \in up
    /\ Goto(t, "next")
    /\ UNCHANGED <<config, up, exits, topics, records>>

\* Mutant: no call waits for a human.
Ungated(c) == "dispatch"

\* Where a call of a tool goes: those that need a human wait for one, if there is
\* a bus to ask over.
FirstStep(c) ==
    CASE c \notin Gated -> "dispatch"
      [] c \in Gated /\ config.wired -> "propose"
      [] OTHER -> "next"

NextCall(t, c) ==
    /\ pc[t] = "next" /\ nth[t] < MaxCalls
    /\ nth' = [nth EXCEPT ![t] = @ + 1]
    /\ tool' = [tool EXCEPT ![t] = c]
    /\ gated' = IF c \in Gated THEN gated \cup {<<t, nth[t] + 1>>} ELSE gated
    /\ pc' = [pc EXCEPT ![t] = FirstStep(c)]
    /\ UNCHANGED <<config, up, exits, topics, records, home>>

\* No more calls: the messages go to the memory and the answer to the user.
Answer(t) ==
    /\ pc[t] = "next"
    /\ memory' = memory \cup {t}
    /\ Goto(t, "ended")
    /\ UNCHANGED <<config, up, exits, topics, trail, muted, ran, unheard>>

Propose(t) ==
    /\ pc[t] = "propose"
    /\ Audit(t, "tool_proposed")
    /\ Goto(t, "produce")
    /\ UNCHANGED <<config, up, exits, topics, ran, memory, unheard>>

\* The broker takes the event or not; a failure, or an acknowledgement that is
\* lost, counts as a refusal.
Produce(t) ==
    /\ pc[t] = "produce"
    /\ \/ home[t] \in up /\ proposed' = proposed \cup {Call(t)} /\ Goto(t, "register")
       \/ home[t] \in up /\ proposed' = proposed \cup {Call(t)} /\ Goto(t, "refused")
       \/ UNCHANGED proposed /\ Goto(t, "refused")
    /\ UNCHANGED <<config, up, exits, decided, answers, records>>

Register(t) ==
    /\ pc[t] = "register"
    /\ Goto(t, IF home[t] \in up THEN "await" ELSE "refused")
    /\ UNCHANGED <<config, up, exits, topics, records>>

\* Mutant: the wait has no end of its own.
NoTimer(t) == FALSE

\* The window of 15 minutes passes.
Timer(t) == pc[t] = "await"

Expire(t) ==
    /\ Timer(t)
    /\ Goto(t, "refused")
    /\ UNCHANGED <<config, up, exits, topics, records>>

\* Mutant: a refused call runs all the same.
FallThrough == "dispatch"

\* After a refusal the next call follows.
AfterRefusal == "next"

Refuse(t) ==
    /\ pc[t] = "refused"
    /\ Audit(t, "tool_rejected")
    /\ Goto(t, AfterRefusal)
    /\ UNCHANGED <<config, up, exits, topics, ran, memory, unheard>>

Approve(t) ==
    /\ pc[t] = "approved"
    /\ Audit(t, "tool_approved")
    /\ Goto(t, "dispatch")
    /\ UNCHANGED <<config, up, exits, topics, ran, memory, unheard>>

\* The handler does its work or not; in either case, and when there is none, the
\* dispatcher returns: it never throws.
Dispatch(t) ==
    /\ pc[t] = "dispatch"
    /\ \/ tool[t] \in config.registered /\ ran' = ran \cup {Call(t)}
       \/ UNCHANGED ran
    /\ Goto(t, IF tool[t] \in Gated THEN "dispatched" ELSE "next")
    /\ UNCHANGED <<config, up, exits, topics, trail, muted, memory, unheard>>

Dispatched(t) ==
    /\ pc[t] = "dispatched"
    /\ Audit(t, "tool_dispatched")
    /\ Goto(t, "next")
    /\ UNCHANGED <<config, up, exits, topics, ran, memory, unheard>>

-----------------------------------------------------------------------------
(* The bus, the operators and the processes.                               *)

\* An operator, or another one, decides on a proposal; nobody tells them that it
\* has expired.
Decide(c, d) ==
    /\ c \in proposed /\ <<c, d>> \notin decided
    /\ decided' = decided \cup {<<c, d>>}
    /\ answers' = answers \cup {<<c, d>>}
    /\ UNCHANGED <<config, up, exits, proposed, records, turn>>

\* Mutant: the decision is taken for the step.
RawVerdict(d) == d

\* The topic decides what a decision says.
Verdict(d) == IF d = "approved" THEN "approved" ELSE "refused"

\* Who waits for the decision in this replica.
WaitsHere(t, r, c) == pc[t] = "await" /\ home[t] = r /\ Call(t) = c

\* One replica of the consumer group reads a decision; it may be read again when
\* the offset is not committed.  It is for the one that waits for it there.
Consume(r, a) ==
    /\ r \in up /\ a \in answers
    /\ answers' = answers \ {a} \/ UNCHANGED answers
    /\ IF \E t \in Turns : WaitsHere(t, r, a[1])
       THEN /\ Goto(a[1][1], Verdict(a[2]))
            /\ UNCHANGED unheard
       ELSE /\ unheard' = IF pc[a[1][1]] = "await" /\ Call(a[1][1]) = a[1]
                          THEN unheard \cup {a[1]} ELSE unheard
            /\ UNCHANGED turn
    /\ UNCHANGED <<config, up, exits, proposed, decided, trail, muted, ran, memory>>

\* SIGTERM: the bus stops and rejects those that wait.
Stop(r) ==
    /\ r \in up /\ exits < MaxExits
    /\ up' = up \ {r}
    /\ pc' = [t \in Turns |-> IF pc[t] = "await" /\ home[t] = r THEN "refused" ELSE pc[t]]
    /\ UNCHANGED <<config, exits, topics, records, home, nth, tool, gated>>

\* The process ends, after the bus has stopped or without warning; another one
\* takes its place and knows nothing of the turns.
Exit(r) ==
    /\ r \in config.replicas /\ exits < MaxExits
    /\ exits' = exits + 1
    /\ up' = up \cup {r}
    /\ pc' = [t \in Turns |->
                 IF pc[t] \notin {"idle", "ended"} /\ home[t] = r THEN "lost" ELSE pc[t]]
    /\ UNCHANGED <<config, topics, records, home, nth, tool, gated>>

-----------------------------------------------------------------------------
Continue(t) ==
    \/ \E c \in Tools : NextCall(t, c)
    \/ Answer(t) \/ Propose(t) \/ Produce(t) \/ Register(t) \/ Expire(t) \/ Refuse(t)
    \/ Approve(t) \/ Dispatch(t) \/ Dispatched(t)

Next ==
    \/ \E t \in Turns : Message(t) \/ Continue(t)
    \/ \E c \in proposed, d \in Decisions : Decide(c, d)
    \/ \E r \in up, a \in answers : Consume(r, a)
    \/ \E r \in config.replicas : Stop(r) \/ Exit(r)

Spec == Init /\ [][Next]_vars

\* A turn that is not lost goes on, its timer included; nobody has to decide and
\* no decision has to be read.
FairSpec == Spec /\ \A t \in Turns : WF_vars(Continue(t))

-----------------------------------------------------------------------------
(* Properties.                                                             *)

\* A tool that needs a human runs only after one has approved this very call, in
\* spite of timeouts, failures of the bus, opposite decisions of two operators and
\* decisions that are read twice (docs/adr/ADR-014, AgentRuntime.ts:172-201).
RunsOnlyApproved == \A c \in ran \cap gated : <<c, "approved">> \in decided

\* What is recorded as rejected has not run and does not run later, whichever of
\* refusal, timeout and late approval came first (AgentRuntime.ts:176-201).
RejectedNeverRuns == \A c \in ran : <<c, "tool_rejected">> \notin trail

\* A call that needs a human has been recorded as proposed and as approved before it
\* runs, also when the process dies right after, unless the sink lost an event
\* (AgentRuntime.ts:163-171 and 202-211).
RunsAreOnRecord ==
    \A c \in (ran \cap gated) \ muted :
        {<<c, "tool_proposed">>, <<c, "tool_approved">>} \subseteq trail

\* The record of the runs is true: nothing runs unrecorded or against a refusal.
TrailIsTrue == RejectedNeverRuns /\ RunsAreOnRecord

\* A call that waits for its decision gets it when it is read, through timeouts,
\* restarts and decisions read twice, where one replica reads them all
\* (KafkaApprovalBus.ts:13-17); with more, the consumer group may give it to another.
\* Either way the turn ends, also when decisions never come (149-158).
HeardWhileWaiting == unheard # {} => Cardinality(config.replicas) > 1
TurnEnds ==
    /\ []HeardWhileWaiting
    /\ \A t \in Turns : (pc[t] = "next") ~> (pc[t] \in {"ended", "lost"})
=============================================================================
