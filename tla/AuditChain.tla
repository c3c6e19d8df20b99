------------------------------ MODULE AuditChain ------------------------------
(***************************************************************************)
(* The audit log of the API monolith: a hash chain that every replica       *)
(* appends to under an advisory lock, the table of dead letters for what    *)
(* could not be appended, the boot that installs the append-only triggers,  *)
(* and the two probes that watch chain and dead letters.                   *)
(*                                                                         *)
(* Every statement is a step.  sha256 is ideal: the hash of a row is the    *)
(* sequence of everything it was computed from, so equal hashes mean equal  *)
(* histories.                                                              *)
(***************************************************************************)
EXTENDS Naturals, Sequences, FiniteSets

CONSTANTS
    Procs,     \* replicas
    Events,    \* calls of recordAudit
    Altered,   \* content of a row that somebody has changed
    Threshold, \* AUDIT_DLQ_BACKLOG_THRESHOLD
    MaxErrors, \* bound on statements that fail
    MaxDeaths, \* bound on replicas that die
    MaxStrays  \* bound on UPDATEs of rows of the chain

ASSUME AuditChainAssumption ==
    /\ Altered \notin Events
    /\ {Threshold, MaxErrors, MaxDeaths, MaxStrays} \subseteq Nat

VARIABLES
    rows,    \* audit_events that are committed, by seq
    letters, \* audit_failures; nothing replays them
    lock,    \* calls that hold the advisory lock: one, or none
    guard,   \* the append-only triggers are installed
    table,   \* audit_failures exists
    boot,    \* of each replica: how far ensureChainHeadLoaded has come
    failing, \* auditHealthWatcher has a streak
    flagged, \* the last verification found a broken row
    backlog, \* auditDlqHealthWatcher has a streak
    pc, at, head, \* of each call: label, replica, hash read
    errors, deaths, strays, \* what has gone wrong so far
    unanswered  \* calls whose COMMIT went through and was not answered

database == <<rows, letters, lock, guard, table>>
process  == <<boot, failing, flagged, backlog>>
call     == <<pc, at, head>>
faults   == <<errors, deaths, strays, unanswered>>
vars     == <<database, process, call, faults>>

Hashes == Seq(Events)
Row    == [content : Events \cup {Altered}, prev : Hashes, hash : Hashes]

Up(p)       == boot[p] # "off"
Waiting     == {"load", "lock", "head", "insert", "letter"}
InTx(e)     == pc[e] \in {"head", "insert"}
OfProc(p)   == {e \in Events : at[e] = p /\ pc[e] \in Waiting}
Booting     == {"drop", "create", "table", "read"}
LastHash    == IF rows = <<>> THEN <<>> ELSE rows[Len(rows)].hash
InChain(e)  == \E i \in DOMAIN rows : rows[i].hash[Len(rows[i].hash)] = e

TypeOK ==
    /\ rows \in Seq(Row)
    /\ letters \subseteq Events /\ lock \in {{}} \cup {{e} : e \in Events}
    /\ guard \in BOOLEAN /\ table \in BOOLEAN
    /\ boot \in [Procs -> Booting \cup {"off", "loaded", "failed"}]
    /\ {failing, flagged, backlog} \subseteq [Procs -> BOOLEAN]
    /\ pc \in [Events -> Waiting \cup {"idle", "done", "lost", "gone"}]
    /\ at \in [Events -> Procs] /\ head \in [Events -> Hashes]
    /\ errors \in 0 .. MaxErrors /\ deaths \in 0 .. MaxDeaths /\ strays \in 0 .. MaxStrays
    /\ unanswered \subseteq Events

\* The first deployment, or a later one, which finds triggers and table.
Init ==
    /\ rows = <<>> /\ letters = {} /\ lock = {}
    /\ guard \in BOOLEAN /\ table = guard
    /\ boot = [p \in Procs |-> "off"]
    /\ failing = [p \in Procs |-> FALSE] /\ backlog = [p \in Procs |-> FALSE]
    /\ flagged = [p \in Procs |-> FALSE]
    /\ pc = [e \in Events |-> "idle"]
    /\ at \in [Events -> Procs]
    /\ head = [e \in Events |-> <<>>]
    /\ errors = 0 /\ deaths = 0 /\ strays = 0 /\ unanswered = {}

-----------------------------------------------------------------------------
(* ensureChainHeadLoaded, of which a replica has one run: its promise is kept *)
(* whether it is fulfilled or rejected.                                     *)

Boot(p, label) ==
    /\ boot' = [boot EXCEPT ![p] = label]
    /\ UNCHANGED <<rows, letters, lock, failing, flagged, backlog, call, deaths, strays,
                   unanswered>>

StartProcess(p) ==
    /\ boot[p] = "off"
    /\ Boot(p, "drop") /\ UNCHANGED <<guard, table, errors>>

\* The triggers for UPDATE and DELETE are installed alike and stand as one.
DropTrigger(p) ==
    /\ boot[p] = "drop"
    /\ Boot(p, "create")
    /\ guard' = FALSE
    /\ UNCHANGED <<table, errors>>

\* CREATE TRIGGER fails if another replica has created it since the DROP.
CreateTrigger(p) ==
    /\ boot[p] = "create"
    /\ Boot(p, IF guard THEN "failed" ELSE "table")
    /\ guard' = TRUE
    /\ UNCHANGED <<table, errors>>

CreateTable(p) ==
    /\ boot[p] = "table"
    /\ Boot(p, "read")
    /\ table' = TRUE
    /\ UNCHANGED <<guard, errors>>

LoadHead(p) ==
    /\ boot[p] = "read"
    /\ Boot(p, "loaded") /\ UNCHANGED <<guard, table, errors>>

BootThrows(p) ==
    /\ boot[p] \in Booting /\ errors < MaxErrors
    /\ Boot(p, "failed")
    /\ errors' = errors + 1
    /\ UNCHANGED <<guard, table>>

-----------------------------------------------------------------------------
(* recordAudit.                                                            *)

Goto(e, label) == pc' = [pc EXCEPT ![e] = label] /\ UNCHANGED at

Streak(e, bad) ==
    /\ failing' = [failing EXCEPT ![at[e]] = bad]
    /\ UNCHANGED <<boot, flagged, backlog>>

\* The append has thrown: the transaction is rolled back, which frees the lock,
\* and the failure is counted.
Throw(e) ==
    /\ Goto(e, "letter")
    /\ lock' = lock \ {e}
    /\ Streak(e, TRUE)
    /\ UNCHANGED <<rows, letters, guard, table, head, deaths, strays>>

Call(e) ==
    /\ pc[e] = "idle" /\ Up(at[e])
    /\ Goto(e, "load")
    /\ UNCHANGED <<database, process, head, faults>>

AwaitLoad(e) ==
    /\ pc[e] = "load"
    /\ \/ /\ boot[at[e]] = "loaded"
          /\ Goto(e, "lock")
          /\ UNCHANGED <<database, process, head, faults>>
       \/ /\ boot[at[e]] = "failed"
          /\ Throw(e)
          /\ UNCHANGED <<errors, unanswered>>

\* Mutant: the transaction starts without the lock.
BeginUnlocked(e) ==
    /\ pc[e] = "lock"
    /\ lock' = lock \cup {e}
    /\ Goto(e, "head")
    /\ UNCHANGED <<rows, letters, guard, table, process, head, faults>>

\* pg_advisory_xact_lock waits until the lock is free.
AcquireLock(e) ==
    /\ pc[e] = "lock" /\ lock = {}
    /\ lock' = {e}
    /\ Goto(e, "head")
    /\ UNCHANGED <<rows, letters, guard, table, process, head, faults>>

ReadHead(e) ==
    /\ pc[e] = "head"
    /\ head' = [head EXCEPT ![e] = LastHash]
    /\ Goto(e, "insert")
    /\ UNCHANGED <<database, process, faults>>

NewRow(e) == [content |-> e, prev |-> head[e], hash |-> Append(head[e], e)]

Commit(e) ==
    /\ pc[e] = "insert"
    /\ rows' = Append(rows, NewRow(e))
    /\ lock' = lock \ {e}
    /\ UNCHANGED <<letters, guard, table, head, deaths, strays>>

\* Mutant: what follows the COMMIT may throw into the same handler.
InsertThenThrow(e) ==
    /\ Commit(e)
    /\ Goto(e, "letter")
    /\ Streak(e, TRUE)
    /\ UNCHANGED <<errors, unanswered>>

\* INSERT and COMMIT; the row is seen from the COMMIT on.
Insert(e) ==
    /\ Commit(e)
    /\ Goto(e, "done")
    /\ Streak(e, FALSE)
    /\ UNCHANGED <<errors, unanswered>>

\* The connection breaks before the COMMIT is answered: the row is there, and
\* the call thinks it is not.
InsertUnanswered(e) ==
    /\ Commit(e) /\ errors < MaxErrors
    /\ Goto(e, "letter")
    /\ Streak(e, TRUE)
    /\ errors' = errors + 1
    /\ unanswered' = unanswered \cup {e}

AppendThrows(e) ==
    /\ pc[e] \in {"lock", "head", "insert"} /\ errors < MaxErrors
    /\ Throw(e)
    /\ errors' = errors + 1
    /\ UNCHANGED unanswered

\* A dead letter needs the table, which the first boot ever creates.
InsertLetter(e) ==
    /\ pc[e] = "letter"
    /\ letters' = IF table THEN letters \cup {e} ELSE letters
    /\ Goto(e, IF table THEN "done" ELSE "lost")
    /\ UNCHANGED <<rows, lock, guard, table, process, head, faults>>

LetterThrows(e) ==
    /\ pc[e] = "letter" /\ errors < MaxErrors
    /\ Goto(e, "lost")
    /\ errors' = errors + 1
    /\ UNCHANGED <<database, process, head, deaths, strays, unanswered>>

-----------------------------------------------------------------------------
(* The probes.                                                             *)

PrevHash(i) == IF i = 1 THEN <<>> ELSE rows[i - 1].hash

\* Mutant: the links are followed and the contents are not hashed again.
BrokenLink(i) == rows[i].prev # PrevHash(i)

\* verifyAuditChain's two tests of a row.
Broken(i) ==
    \/ rows[i].prev # PrevHash(i)
    \/ Append(PrevHash(i), rows[i].content) # rows[i].hash

\* Every four hours once the boot is through, and when an operator asks.
Verify(p) ==
    /\ Up(p)
    /\ flagged' = [flagged EXCEPT ![p] = \E i \in DOMAIN rows : Broken(i)]
    /\ UNCHANGED <<database, boot, failing, backlog, call, faults>>

Poll(p) ==
    /\ boot[p] = "loaded"
    /\ backlog' = [backlog EXCEPT ![p] = Cardinality(letters) > Threshold]
    /\ UNCHANGED <<database, boot, failing, flagged, call, faults>>

-----------------------------------------------------------------------------
(* What else happens.                                                      *)

Stop(p) ==
    /\ Up(p) /\ deaths < MaxDeaths
    /\ deaths' = deaths + 1
    /\ boot' = [boot EXCEPT ![p] = "off"]
    /\ failing' = [failing EXCEPT ![p] = FALSE]
    /\ flagged' = [flagged EXCEPT ![p] = FALSE]
    /\ backlog' = [backlog EXCEPT ![p] = FALSE]
    /\ pc' = [e \in Events |-> IF e \in OfProc(p) THEN "gone" ELSE pc[e]]
    /\ UNCHANGED <<rows, letters, guard, table, at, head, errors, strays, unanswered>>

\* The database rolls back what the replica had not committed.
Die(p) == Stop(p) /\ lock' = lock \ OfProc(p)

\* A statement outside this module changes a row, which only the triggers refuse.
Stray(i) ==
    /\ i \in DOMAIN rows /\ ~guard /\ strays < MaxStrays
    /\ rows' = [rows EXCEPT ![i].content = Altered]
    /\ strays' = strays + 1
    /\ UNCHANGED <<letters, lock, guard, table, process, call, errors, deaths, unanswered>>

-----------------------------------------------------------------------------
Load(p) == DropTrigger(p) \/ CreateTrigger(p) \/ CreateTable(p) \/ LoadHead(p)

Proceed(e) ==
    AwaitLoad(e) \/ AcquireLock(e) \/ ReadHead(e) \/ Insert(e) \/ InsertLetter(e)

CallFails(e) == InsertUnanswered(e) \/ AppendThrows(e) \/ LetterThrows(e)

Next ==
    \/ \E p \in Procs : StartProcess(p) \/ Load(p) \/ BootThrows(p) \/ Verify(p) \/ Poll(p)
                        \/ Die(p)
    \/ \E e \in Events : Call(e) \/ Proceed(e) \/ CallFails(e)
    \/ \E i \in 1 .. Cardinality(Events) : Stray(i)

Spec == Init /\ [][Next]_vars

\* A boot and a call go on unless something fails; the timers start when the boot
\* is through.
Fairness ==
    /\ \A p \in Procs : /\ WF_vars(Load(p)) /\ WF_vars(Poll(p))
                        /\ WF_vars(boot[p] = "loaded" /\ Verify(p))
    /\ \A e \in Events : SF_vars(Proceed(e))

FairSpec == Spec /\ Fairness

-----------------------------------------------------------------------------
(* Properties.                                                             *)

\* "Concurrent recordAudit calls serialize on this lock so prev_hash linking is
\* atomic across workers": every row is linked to the one before it and no two
\* share a predecessor, through deaths, failures and unanswered commits.
Linked ==
    \A i \in DOMAIN rows :
        rows[i].prev = PrevHash(i) /\ \E e \in Events : rows[i].hash = Append(PrevHash(i), e)

\* "Best-effort cannot mean silently dropped": a call that ended without the
\* alarm of last resort has left a row in one of the tables, and the alarm takes
\* a failure or a boot that did not get as far as the table.
NothingDropped ==
    \A e \in Events :
        /\ pc[e] = "done" => InChain(e) \/ e \in letters
        /\ pc[e] = "lost" => errors > 0 \/ deaths > 0 \/ \E p \in Procs : boot[p] = "failed"

\* No event is chained twice, and none is both chained and dead-lettered, which
\* a replay would chain again, unless the answer to its COMMIT was lost.
ChainedOnce ==
    /\ \A i, j \in DOMAIN rows : Len(rows[i].hash) # Len(rows[j].hash) \/ i = j
    /\ \A e \in letters : InChain(e) => e \in unanswered

\* Each event is in one of the tables, and in one place.
RecordedExactlyOnce == NothingDropped /\ ChainedOnce

\* The verifier accuses nobody: it flags a row only if a row was changed.
NoFalseAlarm == \A p \in Procs : flagged[p] => strays > 0

\* "The immutability backstop": once a replica is through its boot the triggers
\* are there, except while another boots, or after one died or failed in its boot.
GuardedOnceLoaded ==
    (\E p \in Procs : boot[p] = "loaded")
        => guard \/ errors > 0 \/ deaths > 0 \/ \E p \in Procs : boot[p] = "create"

\* A replica whose boot failed cannot append again; it shows it from the first
\* call that ends on it, though neither of its probes has been started.
StuckShows ==
    \A e \in Events :
        deaths = 0 /\ boot[at[e]] = "failed" /\ pc[e] \in {"letter", "done", "lost"}
            => failing[at[e]]

\* What is wrong, and only that, shows on every replica that is up: a changed row is
\* found, dead letters beyond the threshold (nothing replays them) are told of; and
\* whoever died with the lock, every call ends.
WatchIsTrue ==
    /\ []NoFalseAlarm /\ []StuckShows
    /\ \A p \in Procs :
           /\ strays > 0 ~> (flagged[p] \/ boot[p] # "loaded")
           /\ Cardinality(letters) > Threshold ~> (backlog[p] \/ boot[p] # "loaded")
    /\ \A e \in Events : pc[e] \in Waiting ~> pc[e] \notin Waiting

\* "A single idempotent boot call": a boot that meets no error succeeds.
BootsRepeat == \A p \in Procs : boot[p] = "failed" => errors > 0
=============================================================================
