--------------------------- MODULE AuditChainProofs ---------------------------
(***************************************************************************)
(* What AuditChain promises, for any number of replicas and of calls, and   *)
(* whatever fails or dies.                                                  *)
(*                                                                         *)
(* The chain is linked because whoever is about to insert holds the lock    *)
(* and has read the hash of the last row (Held); no call is recorded twice  *)
(* because of what is known of a call at each of its labels (AtLabel).      *)
(***************************************************************************)
EXTENDS AuditChain, SequenceTheorems, TLAPS

\* The call in a transaction has the lock, and before its INSERT the right hash.
Held ==
    \A e \in Events :
        /\ InTx(e) => lock = {e}
        /\ pc[e] = "insert" => head[e] = LastHash

\* The n-th hash stands for n calls.
Numbered == \A i \in DOMAIN rows : Len(rows[i].hash) = i

\* Contents are those that were hashed, unless somebody changed them.
Intact ==
    strays = 0 => \A i \in DOMAIN rows : rows[i].hash = Append(PrevHash(i), rows[i].content)

\* What is known of a call at its label.
AtLabel(e) ==
    /\ pc[e] \in {"idle", "load", "lock", "head", "insert"} => ~InChain(e) /\ e \notin letters
    /\ pc[e] = "letter" => (InChain(e) => e \in unanswered)
    /\ pc[e] \in {"letter", "lost"}
           => errors > 0 \/ deaths > 0 \/ boot[at[e]] = "failed"

\* A replica past the creation of the triggers leaves them in place.
Protected ==
    (errors = 0 /\ deaths = 0 /\ \E p \in Procs : boot[p] \in {"table", "read", "loaded"})
        => guard \/ \E p \in Procs : boot[p] = "create"

Chain  == Linked /\ Numbered /\ Held /\ Intact
Record == ChainedOnce /\ NothingDropped /\ (\A e \in Events : AtLabel(e))
Watch  == NoFalseAlarm /\ Protected

IInv == TypeOK /\ Chain /\ Record /\ Watch

-----------------------------------------------------------------------------
\* The hash to link to is that of the last row.
LEMMA LastIsPrev ==
    ASSUME TypeOK
    PROVE  /\ LastHash = PrevHash(Len(rows) + 1) /\ LastHash \in Hashes
           /\ \A i \in 1 .. Len(rows) + 1 : PrevHash(i) \in Hashes
<1>1. rows \in Seq(Row) /\ <<>> \in Hashes
  BY DEF TypeOK, Hashes
<1>2. Len(rows) \in Nat /\ (rows = <<>> <=> Len(rows) = 0)
  BY <1>1
<1>3. \A i \in 1 .. Len(rows) : rows[i] \in Row /\ rows[i].hash \in Hashes
  <2>1. \A i \in 1 .. Len(rows) : rows[i] \in Row
    BY <1>1
  <2> QED BY <2>1 DEF Row
<1>4. LastHash = PrevHash(Len(rows) + 1)
  BY <1>2 DEF LastHash, PrevHash
<1>5. \A i \in 1 .. Len(rows) + 1 : PrevHash(i) \in Hashes
  BY <1>1, <1>2, <1>3 DEF PrevHash
<1> QED BY <1>2, <1>4, <1>5

\* What a COMMIT by the holder of the lock does to the chain.
LEMMA CommitEffect ==
    ASSUME TypeOK, Linked, Numbered, Held, NEW e \in Events, Commit(e)
    PROVE  /\ rows' \in Seq(Row) /\ Len(rows') = Len(rows) + 1
           /\ \A i \in 1 .. Len(rows) : rows'[i] = rows[i]
           /\ \A i \in 1 .. Len(rows) + 1 : PrevHash(i)' = PrevHash(i)
           /\ rows'[Len(rows) + 1] =
                  [content |-> e, prev |-> LastHash, hash |-> Append(LastHash, e)]
           /\ Linked' /\ Numbered'
           /\ \A f \in Events : InChain(f)' <=> (InChain(f) \/ f = e)
<1> DEFINE new == [content |-> e, prev |-> LastHash, hash |-> Append(LastHash, e)]
           n   == Len(rows)
<1>1. rows \in Seq(Row) /\ n \in Nat /\ LastHash \in Hashes /\ DOMAIN rows = 1 .. n
  BY LastIsPrev DEF TypeOK
<1>2. NewRow(e) = new /\ rows' = Append(rows, new)
  BY DEF Commit, NewRow, Held
<1>3. Append(LastHash, e) \in Hashes /\ Len(Append(LastHash, e)) = Len(LastHash) + 1
         /\ Append(LastHash, e)[Len(LastHash) + 1] = e
  BY <1>1, AppendProperties DEF Hashes
<1>4. new \in Row
  BY <1>1, <1>3 DEF Row
<1>5. rows' \in Seq(Row) /\ Len(rows') = n + 1 /\ (\A i \in 1 .. n : rows'[i] = rows[i])
         /\ rows'[n + 1] = new /\ DOMAIN rows' = 1 .. n + 1
  BY <1>1, <1>2, <1>4, AppendProperties
<1>6. \A i \in 1 .. n + 1 : PrevHash(i)' = PrevHash(i)
  BY <1>1, <1>5 DEF PrevHash
<1>7. LastHash = PrevHash(n + 1)
  BY LastIsPrev
<1>8. Linked'
  <2> SUFFICES ASSUME NEW i \in 1 .. n + 1
               PROVE  rows'[i].prev = PrevHash(i)
                         /\ \E f \in Events : rows'[i].hash = Append(PrevHash(i), f)
    BY <1>5, <1>6 DEF Linked
  <2>1. CASE i \in 1 .. n
    BY <2>1, <1>1, <1>5 DEF Linked
  <2>2. CASE i = n + 1
    <3>1. rows'[i].prev = LastHash /\ rows'[i].hash = Append(LastHash, e)
      BY <2>2, <1>5
    <3> QED BY <3>1, <2>2, <1>7
  <2> QED BY <2>1, <2>2, <1>1
<1>9. Len(LastHash) = n
  <2>1. CASE n = 0
    BY <2>1, <1>1 DEF LastHash
  <2>2. CASE n > 0
    BY <2>2, <1>1 DEF LastHash, Numbered
  <2> QED BY <2>1, <2>2, <1>1
<1>10. Numbered'
  <2> SUFFICES ASSUME NEW i \in 1 .. n + 1 PROVE Len(rows'[i].hash) = i
    BY <1>5 DEF Numbered
  <2>1. CASE i \in 1 .. n
    BY <2>1, <1>1, <1>5 DEF Numbered
  <2>2. CASE i = n + 1
    BY <2>2, <1>3, <1>5, <1>9
  <2> QED BY <2>1, <2>2, <1>1
<1>11. ASSUME NEW f \in Events PROVE InChain(f)' <=> (InChain(f) \/ f = e)
  <2>1. rows'[n + 1].hash[Len(rows'[n + 1].hash)] = e
    BY <1>3, <1>5
  <2>2. InChain(f)' <=> \E i \in 1 .. n + 1 : rows'[i].hash[Len(rows'[i].hash)] = f
    BY <1>5 DEF InChain
  <2>3. InChain(f) <=> \E i \in 1 .. n : rows'[i].hash[Len(rows'[i].hash)] = f
    BY <1>1, <1>5 DEF InChain
  <2>4. 1 .. n + 1 = (1 .. n) \cup {n + 1}
    BY <1>1
  <2> QED BY <2>1, <2>2, <2>3, <2>4
<1> QED BY <1>1, <1>5, <1>6, <1>8, <1>10, <1>11

\* A change of a row's content leaves the links alone.
LEMMA StrayEffect ==
    ASSUME TypeOK, NEW i, Stray(i)
    PROVE  /\ rows' \in Seq(Row) /\ DOMAIN rows' = DOMAIN rows /\ Len(rows') = Len(rows)
           /\ \A j \in DOMAIN rows : rows'[j].prev = rows[j].prev /\ rows'[j].hash = rows[j].hash
           /\ LastHash' = LastHash
           /\ \A j \in DOMAIN rows : PrevHash(j)' = PrevHash(j)
           /\ \A f : InChain(f)' <=> InChain(f)
<1>1. rows \in Seq(Row) /\ Len(rows) \in Nat /\ DOMAIN rows = 1 .. Len(rows) /\ i \in 1 .. Len(rows)
  BY DEF TypeOK, Stray
<1> DEFINE new == [rows[i] EXCEPT !.content = Altered]
<1>2. rows[i] \in Row /\ new \in Row /\ new.prev = rows[i].prev /\ new.hash = rows[i].hash
  <2>1. rows[i] \in Row
    BY <1>1
  <2> QED BY <2>1 DEF Row
<1>3. rows' = [rows EXCEPT ![i] = new]
  BY DEF Stray
<1>4. rows' \in Seq(Row) /\ Len(rows') = Len(rows)
         /\ \A j \in 1 .. Len(rows) : rows'[j] = IF j = i THEN new ELSE rows[j]
  BY <1>1, <1>2, <1>3, ExceptSeq
<1>5. DOMAIN rows' = DOMAIN rows
  BY <1>1, <1>4
<1>6. \A j \in DOMAIN rows : rows'[j].prev = rows[j].prev /\ rows'[j].hash = rows[j].hash
  BY <1>1, <1>2, <1>4
<1>7. LastHash' = LastHash
  BY <1>1, <1>4, <1>6 DEF LastHash
<1>8. \A j \in DOMAIN rows : PrevHash(j)' = PrevHash(j)
  BY <1>1, <1>6 DEF PrevHash
<1>9. \A f : InChain(f)' <=> InChain(f)
  BY <1>5, <1>6 DEF InChain
<1> QED BY <1>4, <1>5, <1>6, <1>7, <1>8, <1>9

-----------------------------------------------------------------------------
\* The steps by what they touch: a replica's state, a call on its way, the chain.
ProcStep(p) ==
    StartProcess(p) \/ Load(p) \/ BootThrows(p) \/ Verify(p) \/ Poll(p) \/ Die(p)

CallStep(e) ==
    \/ Call(e) \/ AwaitLoad(e) \/ AcquireLock(e) \/ ReadHead(e) \/ InsertLetter(e)
    \/ AppendThrows(e) \/ LetterThrows(e)

LEMMA StepShape ==
    Next => \/ \E p \in Procs : ProcStep(p)
            \/ \E e \in Events : CallStep(e) \/ Insert(e) \/ InsertUnanswered(e)
            \/ \E i : Stray(i)
BY DEF Next, Proceed, CallFails, ProcStep, CallStep

LEMMA InitInv == Init => IInv
<1> SUFFICES ASSUME Init PROVE IInv
  OBVIOUS
<1> USE AuditChainAssumption DEF Init
<1>1. rows = <<>> /\ rows \in Seq(Row) /\ <<>> \in Hashes /\ DOMAIN rows = {}
  BY DEF Hashes
<1>2. TypeOK
  BY <1>1 DEF TypeOK, Booting, Waiting
<1>3. Chain
  BY <1>1 DEF Chain, Linked, Numbered, Held, Intact, InTx
<1>4. Record
  BY <1>1 DEF Record, ChainedOnce, NothingDropped, AtLabel, InChain
<1>5. Watch
  BY DEF Watch, NoFalseAlarm, Protected
<1> QED BY <1>2, <1>3, <1>4, <1>5 DEF IInv

LEMMA ProcType ==
    ASSUME TypeOK, NEW p \in Procs, ProcStep(p)
    PROVE  TypeOK'
<1> USE AuditChainAssumption DEF TypeOK
<1> DEFINE Frame == UNCHANGED <<rows, letters, pc, at, head, unanswered, strays>>
<1>1. CASE StartProcess(p) \/ Load(p) \/ BootThrows(p)
  <2>1. /\ Frame /\ UNCHANGED <<lock, failing, flagged, backlog, deaths>>
        /\ \E l \in Booting \cup {"loaded", "failed"} : boot' = [boot EXCEPT ![p] = l]
        /\ guard' \in BOOLEAN /\ table' \in BOOLEAN
        /\ errors' = errors \/ (errors < MaxErrors /\ errors' = errors + 1)
    BY <1>1 DEF StartProcess, Load, DropTrigger, CreateTrigger, CreateTable, LoadHead,
                BootThrows, Boot, Booting, call
  <2>2. errors' \in 0 .. MaxErrors
    BY <2>1
  <2> QED BY <2>1, <2>2
<1>2. CASE Verify(p)
  <2>1. Frame /\ UNCHANGED <<database, boot, failing, backlog, errors, deaths>>
    BY <1>2 DEF Verify, database, call, faults
  <2>2. flagged' \in [Procs -> BOOLEAN]
    BY <1>2 DEF Verify
  <2> QED BY <2>1, <2>2 DEF database
<1>3. CASE Poll(p)
  <2>1. Frame /\ UNCHANGED <<database, boot, failing, flagged, errors, deaths>>
    BY <1>3 DEF Poll, database, call, faults
  <2>2. backlog' \in [Procs -> BOOLEAN]
    BY <1>3 DEF Poll
  <2> QED BY <2>1, <2>2 DEF database
<1>4. CASE Die(p)
  <2>1. UNCHANGED <<rows, letters, guard, table, at, head, errors, strays, unanswered>>
    BY <1>4 DEF Die, Stop
  <2>2. deaths' \in 0 .. MaxDeaths
    BY <1>4 DEF Die, Stop
  <2>3. /\ boot' \in [Procs -> Booting \cup {"off", "loaded", "failed"}]
        /\ {failing', flagged', backlog'} \subseteq [Procs -> BOOLEAN]
        /\ pc' \in [Events -> Waiting \cup {"idle", "done", "lost", "gone"}]
    BY <1>4 DEF Die, Stop
  <2>4. lock' \in {{}} \cup {{e} : e \in Events}
    BY <1>4 DEF Die
  <2> QED BY <2>1, <2>2, <2>3, <2>4
<1> QED BY <1>1, <1>2, <1>3, <1>4 DEF ProcStep

LEMMA CallType ==
    ASSUME TypeOK, NEW e \in Events, CallStep(e)
    PROVE  TypeOK'
<1> USE AuditChainAssumption DEF TypeOK
<1>1. /\ UNCHANGED <<rows, guard, table, boot, flagged, backlog, at, deaths, strays, unanswered>>
      /\ \E l \in Waiting \cup {"done", "lost"} : pc' = [pc EXCEPT ![e] = l]
      /\ letters' \in {letters, letters \cup {e}}
      /\ lock' \in {lock, lock \ {e}, {e}}
      /\ failing' \in {failing, [failing EXCEPT ![at[e]] = TRUE]}
      /\ head' \in {head, [head EXCEPT ![e] = LastHash]}
      /\ errors' = errors \/ (errors < MaxErrors /\ errors' = errors + 1)
  BY DEF CallStep, Call, AwaitLoad, AcquireLock, ReadHead, InsertLetter, AppendThrows,
         LetterThrows, Throw, Streak, Goto, Waiting, database, process, call, faults
<1>2. errors' \in 0 .. MaxErrors
  BY <1>1
<1>3. head' \in [Events -> Hashes]
  BY <1>1, LastIsPrev
<1>4. pc' \in [Events -> Waiting \cup {"idle", "done", "lost", "gone"}]
  BY <1>1
<1>5. failing' \in [Procs -> BOOLEAN]
  BY <1>1
<1>6. lock' \in {{}} \cup {{f} : f \in Events}
  <2>1. \A l : l \in {{}} \cup {{f} : f \in Events}
                   <=> l = {} \/ \E f \in Events : l = {f}
    OBVIOUS
  <2>2. lock' \in {lock, lock \ {e}, {e}}
    BY <1>1
  <2>3. CASE lock = {}
    BY <2>1, <2>2, <2>3
  <2>4. ASSUME NEW f \in Events, lock = {f} PROVE lock' \in {{f}, {}, {e}}
    BY <2>2, <2>4
  <2> QED BY <2>1, <2>3, <2>4
<1>7. letters' \subseteq Events
  BY <1>1
<1> QED BY <1>1, <1>2, <1>3, <1>4, <1>5, <1>6, <1>7

LEMMA CommitType ==
    ASSUME TypeOK, Linked, Numbered, Held, NEW e \in Events, Insert(e) \/ InsertUnanswered(e)
    PROVE  TypeOK'
<1> USE AuditChainAssumption
<1>1. Commit(e)
  BY DEF Insert, InsertUnanswered
<1>2. rows' \in Seq(Row)
  BY <1>1, CommitEffect
<1>3. UNCHANGED <<letters, guard, table, head, at, boot, flagged, backlog, deaths, strays>>
         /\ lock' = lock \ {e}
  BY <1>1 DEF Insert, InsertUnanswered, Commit, Goto, Streak
<1>4. /\ \E l \in {"done", "letter"} : pc' = [pc EXCEPT ![e] = l]
      /\ \E b \in BOOLEAN : failing' = [failing EXCEPT ![at[e]] = b]
      /\ errors' = errors \/ (errors < MaxErrors /\ errors' = errors + 1)
      /\ unanswered' \in {unanswered, unanswered \cup {e}}
  BY DEF Insert, InsertUnanswered, Goto, Streak
<1>5. errors' \in 0 .. MaxErrors
  BY <1>4 DEF TypeOK
<1>6. pc' \in [Events -> Waiting \cup {"idle", "done", "lost", "gone"}]
  BY <1>4 DEF TypeOK, Waiting
<1>7. failing' \in [Procs -> BOOLEAN]
  BY <1>4 DEF TypeOK
<1>8. lock' \in {{}} \cup {{f} : f \in Events} /\ unanswered' \subseteq Events
  BY <1>3, <1>4 DEF TypeOK
<1> QED BY <1>2, <1>3, <1>5, <1>6, <1>7, <1>8 DEF TypeOK

LEMMA StrayType ==
    ASSUME TypeOK, NEW i, Stray(i)
    PROVE  TypeOK'
<1>1. rows' \in Seq(Row)
  BY StrayEffect
<1>2. strays' \in 0 .. MaxStrays
  BY AuditChainAssumption DEF TypeOK, Stray
<1>3. UNCHANGED <<letters, lock, guard, table, boot, failing, flagged, backlog, pc, at, head,
                 errors, deaths, unanswered>>
  BY DEF Stray, process, call
<1> QED BY <1>1, <1>2, <1>3 DEF TypeOK

-----------------------------------------------------------------------------
\* A step of a replica touches the chain only through a death, which frees the lock.
LEMMA ProcChain ==
    ASSUME TypeOK, Chain, NEW p \in Procs, ProcStep(p)
    PROVE  Chain'
<1>1. UNCHANGED <<rows, head, strays>>
  BY DEF ProcStep, StartProcess, Load, DropTrigger, CreateTrigger, CreateTable, LoadHead,
         BootThrows, Boot, Verify, Poll, Die, Stop, database, call, faults
<1>2. \A f \in Events : pc'[f] # "gone" => pc'[f] = pc[f] /\ (lock = {f} => lock' = {f})
  <2>1. CASE Die(p)
    BY <2>1 DEF Die, Stop
  <2>2. CASE ~Die(p)
    BY <2>2 DEF ProcStep, StartProcess, Load, DropTrigger, CreateTrigger, CreateTable, LoadHead,
                BootThrows, Boot, Verify, Poll, database, call
  <2> QED BY <2>1, <2>2
<1>3. LastHash' = LastHash /\ \A i : PrevHash(i)' = PrevHash(i)
  BY <1>1 DEF LastHash, PrevHash
<1>4. Held'
  BY <1>1, <1>2, <1>3 DEF Chain, Held, InTx
<1> QED BY <1>1, <1>3, <1>4 DEF Chain, Linked, Numbered, Intact

\* A call that is not committing leaves the chain alone and takes the lock only
\* when nobody has it.
LEMMA CallChain ==
    ASSUME TypeOK, Chain, NEW e \in Events, CallStep(e)
    PROVE  Chain'
<1>1. UNCHANGED <<rows, strays>>
  BY DEF CallStep, Call, AwaitLoad, AcquireLock, ReadHead, InsertLetter, AppendThrows,
         LetterThrows, Throw, database, faults
<1>2. LastHash' = LastHash /\ \A i : PrevHash(i)' = PrevHash(i)
  BY <1>1 DEF LastHash, PrevHash
<1>3. pc \in [Events -> Waiting \cup {"idle", "done", "lost", "gone"}]
         /\ head \in [Events -> Hashes]
  BY DEF TypeOK
<1>4. ASSUME NEW f \in Events, InTx(f)'
      PROVE  lock' = {f} /\ (pc'[f] = "insert" => head'[f] = LastHash)
  <2> USE <1>3, <1>4 DEF InTx, Goto
  <2>1. CASE Call(e)
    BY <2>1 DEF Call, Chain, Held, database
  <2>2. CASE AwaitLoad(e)
    <3>1. f # e
      BY <2>2 DEF AwaitLoad, Throw
    <3>2. pc'[f] = pc[f] /\ head' = head /\ lock' \in {lock, lock \ {e}}
      BY <2>2, <3>1 DEF AwaitLoad, Throw, database
    <3> QED BY <3>1, <3>2 DEF Chain, Held
  <2>3. CASE AcquireLock(e)
    BY <2>3 DEF AcquireLock, Chain, Held
  <2>4. CASE ReadHead(e)
    BY <2>4 DEF ReadHead, Chain, Held, database
  <2>5. CASE InsertLetter(e)
    BY <2>5 DEF InsertLetter, Chain, Held
  <2>6. CASE LetterThrows(e)
    BY <2>6 DEF LetterThrows, Chain, Held, database
  <2>7. CASE AppendThrows(e)
    <3>1. f # e
      BY <2>7 DEF AppendThrows, Throw
    <3>2. pc'[f] = pc[f] /\ head' = head /\ lock' = lock \ {e}
      BY <2>7, <3>1 DEF AppendThrows, Throw
    <3> QED BY <3>1, <3>2 DEF Chain, Held
  <2> QED BY <2>1, <2>2, <2>3, <2>4, <2>5, <2>6, <2>7 DEF CallStep
<1>5. Held'
  BY <1>2, <1>4 DEF Held, InTx
<1> QED BY <1>1, <1>2, <1>5 DEF Chain, Linked, Numbered, Intact

LEMMA CommitChain ==
    ASSUME TypeOK, Chain, NEW e \in Events, Insert(e) \/ InsertUnanswered(e)
    PROVE  Chain'
<1>1. Commit(e) /\ pc[e] = "insert" /\ strays' = strays /\ pc'[e] \in {"done", "letter"}
         /\ \A f \in Events \ {e} : pc'[f] = pc[f]
  BY DEF Insert, InsertUnanswered, Commit, Goto, TypeOK
<1>2. /\ Linked' /\ Numbered' /\ Len(rows') = Len(rows) + 1
      /\ \A i \in 1 .. Len(rows) : rows'[i] = rows[i]
      /\ \A i \in 1 .. Len(rows) + 1 : PrevHash(i)' = PrevHash(i)
      /\ rows'[Len(rows) + 1] = [content |-> e, prev |-> LastHash, hash |-> Append(LastHash, e)]
  BY <1>1, CommitEffect DEF Chain
<1>3. LastHash = PrevHash(Len(rows) + 1) /\ rows \in Seq(Row) /\ rows' \in Seq(Row)
  BY <1>1, LastIsPrev, CommitEffect DEF Chain, TypeOK
<1>4. Held'
  <2>1. \A f \in Events : ~InTx(f)'
    BY <1>1 DEF Chain, Held, InTx
  <2> QED BY <2>1 DEF Held, InTx
<1>5. Intact'
  <2> SUFFICES ASSUME strays = 0, NEW i \in 1 .. Len(rows) + 1
               PROVE  rows'[i].hash = Append(PrevHash(i), rows'[i].content)
    BY <1>1, <1>2, <1>3 DEF Intact
  <2>1. CASE i \in 1 .. Len(rows)
    BY <2>1, <1>2, <1>3 DEF Chain, Intact
  <2>2. CASE i = Len(rows) + 1
    <3>1. rows'[i].hash = Append(LastHash, e) /\ rows'[i].content = e
      BY <2>2, <1>2
    <3> QED BY <3>1, <2>2, <1>3
  <2> QED BY <2>1, <2>2, <1>3
<1> QED BY <1>2, <1>4, <1>5 DEF Chain

LEMMA StrayChain ==
    ASSUME TypeOK, Chain, NEW i, Stray(i)
    PROVE  Chain'
<1>1. /\ DOMAIN rows' = DOMAIN rows /\ LastHash' = LastHash
      /\ \A j \in DOMAIN rows : /\ rows'[j].prev = rows[j].prev /\ rows'[j].hash = rows[j].hash
                                /\ PrevHash(j)' = PrevHash(j)
  BY StrayEffect
<1>2. UNCHANGED <<lock, pc, head>> /\ strays' # 0
  BY DEF Stray, call, TypeOK
<1>3. Linked' /\ Numbered'
  BY <1>1 DEF Chain, Linked, Numbered
<1>4. Held' /\ Intact'
  BY <1>1, <1>2 DEF Chain, Held, Intact, InTx
<1> QED BY <1>3, <1>4 DEF Chain

-----------------------------------------------------------------------------
LEMMA ProcRecord ==
    ASSUME TypeOK, Record, NEW p \in Procs, ProcStep(p)
    PROVE  Record'
<1>1. UNCHANGED <<rows, letters, at, unanswered>> /\ errors' >= errors /\ deaths' >= deaths
  BY DEF TypeOK, ProcStep, StartProcess, Load, DropTrigger, CreateTrigger, CreateTable, LoadHead,
         BootThrows, Boot, Verify, Poll, Die, Stop, database, call, faults
<1>2. \A f : InChain(f)' <=> InChain(f)
  BY <1>1 DEF InChain
<1>3. \A f \in Events : pc'[f] # "gone" => pc'[f] = pc[f]
  BY DEF ProcStep, StartProcess, Load, DropTrigger, CreateTrigger, CreateTable, LoadHead,
         BootThrows, Boot, Verify, Poll, Die, Stop, call
<1>4. deaths' > 0 \/ \A q \in Procs : boot[q] = "failed" => boot'[q] = "failed"
  <2>1. CASE Die(p)
    BY <2>1 DEF TypeOK, Die, Stop
  <2>2. CASE Verify(p) \/ Poll(p)
    BY <2>2 DEF Verify, Poll
  <2>3. CASE StartProcess(p) \/ Load(p) \/ BootThrows(p)
    BY <2>3 DEF TypeOK, StartProcess, Load, DropTrigger, CreateTrigger, CreateTable, LoadHead,
                BootThrows, Boot, Booting
  <2> QED BY <2>1, <2>2, <2>3 DEF ProcStep
<1>5. errors \in Nat /\ deaths \in Nat /\ errors' \in Nat /\ deaths' \in Nat
         /\ at \in [Events -> Procs]
  <2>1. TypeOK'
    BY ProcType
  <2> QED BY <2>1 DEF TypeOK
<1>6. errors > 0 \/ deaths > 0 => errors' > 0 \/ deaths' > 0
  BY <1>1, <1>5
<1>7. ChainedOnce'
  BY <1>1, <1>2 DEF Record, ChainedOnce
<1>8. NothingDropped'
  BY <1>1, <1>2, <1>3, <1>4, <1>6 DEF Record, NothingDropped
<1>9. \A f \in Events : AtLabel(f)'
  BY <1>1, <1>2, <1>3, <1>4, <1>5, <1>6 DEF Record, AtLabel
<1> QED BY <1>7, <1>8, <1>9 DEF Record

LEMMA CallRecord ==
    ASSUME TypeOK, Record, NEW e \in Events, CallStep(e)
    PROVE  Record'
<1>1. UNCHANGED <<rows, at, boot, deaths, unanswered>>
  BY DEF CallStep, Call, AwaitLoad, AcquireLock, ReadHead, InsertLetter, AppendThrows,
         LetterThrows, Throw, Streak, Goto, database, process, faults
<1>2. errors \in Nat /\ deaths \in Nat /\ at \in [Events -> Procs]
         /\ pc \in [Events -> Waiting \cup {"idle", "done", "lost", "gone"}]
  BY DEF TypeOK
<1>3. \A f : InChain(f)' <=> InChain(f)
  BY <1>1 DEF InChain
<1>4. \A f \in Events \ {e} : pc'[f] = pc[f] /\ (f \in letters' <=> f \in letters)
  BY <1>2 DEF CallStep, Call, AwaitLoad, AcquireLock, ReadHead, InsertLetter, AppendThrows,
         LetterThrows, Throw, Goto, database
<1>5. errors' = errors \/ errors' = errors + 1
  BY DEF CallStep, Call, AwaitLoad, AcquireLock, ReadHead, InsertLetter, AppendThrows,
         LetterThrows, faults, Throw
<1>6. AtLabel(e)' /\ (e \in letters' => (InChain(e) => e \in unanswered))
         /\ (pc'[e] = "done" => e \in letters')
         /\ (pc'[e] = "lost" => errors' > 0 \/ deaths > 0 \/ boot[at[e]] = "failed")
  <2> USE <1>1, <1>2, <1>3 DEF Goto, AtLabel, Record, ChainedOnce
  <2>1. CASE Call(e) \/ AcquireLock(e) \/ ReadHead(e)
    BY <2>1 DEF Call, AcquireLock, ReadHead, database
  <2>2. CASE AwaitLoad(e)
    BY <2>2 DEF AwaitLoad, Throw, database, faults
  <2>3. CASE InsertLetter(e)
    BY <2>3 DEF InsertLetter, faults
  <2>4. CASE LetterThrows(e)
    BY <2>4 DEF LetterThrows, database
  <2>5. CASE AppendThrows(e)
    BY <2>5 DEF AppendThrows, Throw
  <2> QED BY <2>1, <2>2, <2>3, <2>4, <2>5 DEF CallStep
<1>7. ChainedOnce'
  <2>1. ASSUME NEW f \in letters', InChain(f)' PROVE f \in unanswered'
    <3>1. InChain(f)
      BY <1>3, <2>1
    <3>2. CASE f = e
      BY <1>1, <1>6, <3>1, <3>2
    <3>3. CASE f # e
      <4>1. f \in letters
        BY <3>3, <2>1, <1>1 DEF CallStep, Call, AwaitLoad, AcquireLock, ReadHead, InsertLetter,
           AppendThrows, LetterThrows, Throw, database
      <4> QED BY <4>1, <3>1, <1>1 DEF Record, ChainedOnce
    <3> QED BY <3>2, <3>3
  <2>2. \A i, j \in DOMAIN rows' : Len(rows'[i].hash) # Len(rows'[j].hash) \/ i = j
    BY <1>1 DEF Record, ChainedOnce
  <2> QED BY <2>1, <2>2 DEF ChainedOnce
<1>8. NothingDropped'
  BY <1>1, <1>2, <1>3, <1>4, <1>5, <1>6 DEF Record, NothingDropped
<1>9. \A f \in Events : AtLabel(f)'
  <2> SUFFICES ASSUME NEW f \in Events \ {e} PROVE AtLabel(f)'
    BY <1>6
  <2>1. pc'[f] = pc[f] /\ AtLabel(f) /\ (f \in letters' <=> f \in letters)
    BY <1>4 DEF Record
  <2>2. errors > 0 => errors' > 0
    BY <1>2, <1>5
  <2> QED BY <1>1, <1>3, <2>1, <2>2 DEF AtLabel
<1> QED BY <1>7, <1>8, <1>9 DEF Record

LEMMA CommitRecord ==
    ASSUME TypeOK, Chain, Numbered', Record, NEW e \in Events, Insert(e) \/ InsertUnanswered(e)
    PROVE  Record'
<1>1. Commit(e) /\ pc[e] = "insert" /\ UNCHANGED <<letters, at, boot, deaths>>
         /\ \A f \in Events \ {e} : pc'[f] = pc[f]
  BY DEF Insert, InsertUnanswered, Commit, Goto, Streak, TypeOK
<1>2. \A f \in Events : InChain(f)' <=> (InChain(f) \/ f = e)
  BY <1>1, CommitEffect DEF Chain
<1>3. errors \in Nat /\ pc \in [Events -> Waiting \cup {"idle", "done", "lost", "gone"}]
  BY DEF TypeOK
<1>4. \/ pc'[e] = "done" /\ errors' = errors /\ unanswered' = unanswered
      \/ pc'[e] = "letter" /\ errors' = errors + 1 /\ unanswered' = unanswered \cup {e}
  BY <1>3 DEF Insert, InsertUnanswered, Goto
<1>5. ~InChain(e) /\ e \notin letters /\ letters \subseteq Events
  BY <1>1 DEF Record, AtLabel, TypeOK
<1>6. ChainedOnce'
  <2>1. \A f \in letters' : InChain(f)' => f \in unanswered'
    BY <1>1, <1>2, <1>4, <1>5 DEF Record, ChainedOnce
  <2>2. \A i, j \in DOMAIN rows' : Len(rows'[i].hash) # Len(rows'[j].hash) \/ i = j
    BY DEF Numbered
  <2> QED BY <2>1, <2>2 DEF ChainedOnce
<1>7. NothingDropped'
  BY <1>1, <1>2, <1>3, <1>4 DEF Record, NothingDropped
<1>8. \A f \in Events : AtLabel(f)'
  BY <1>1, <1>2, <1>3, <1>4 DEF Record, AtLabel
<1> QED BY <1>6, <1>7, <1>8 DEF Record

LEMMA StrayRecord ==
    ASSUME TypeOK, Numbered', Record, NEW i, Stray(i)
    PROVE  Record'
<1>1. UNCHANGED <<letters, boot, pc, at, errors, deaths, unanswered>>
  BY DEF Stray, process, call
<1>2. \A f : InChain(f)' <=> InChain(f)
  BY StrayEffect
<1>3. \A j, k \in DOMAIN rows' : Len(rows'[j].hash) # Len(rows'[k].hash) \/ j = k
  BY DEF Numbered
<1> QED BY <1>1, <1>2, <1>3 DEF Record, ChainedOnce, NothingDropped, AtLabel

-----------------------------------------------------------------------------
\* A row fails one of the verifier's tests only if somebody changed it.
LEMMA BrokenMeansStray ==
    ASSUME Chain, NEW i \in DOMAIN rows, Broken(i)
    PROVE  strays # 0
BY DEF Chain, Linked, Intact, Broken

LEMMA ProcWatch ==
    ASSUME TypeOK, Chain, Watch, NEW p \in Procs, ProcStep(p)
    PROVE  Watch'
<1>1. TypeOK'
  BY ProcType
<1>2. NoFalseAlarm'
  <2>1. CASE Verify(p)
    BY <2>1, BrokenMeansStray DEF Verify, faults, TypeOK, Watch, NoFalseAlarm
  <2>2. CASE Die(p)
    BY <2>2 DEF Die, Stop, TypeOK, Watch, NoFalseAlarm
  <2>3. CASE StartProcess(p) \/ Load(p) \/ BootThrows(p) \/ Poll(p)
    BY <2>3 DEF StartProcess, Load, DropTrigger, CreateTrigger, CreateTable, LoadHead,
                BootThrows, Boot, Poll, faults, Watch, NoFalseAlarm
  <2> QED BY <2>1, <2>2, <2>3 DEF ProcStep
<1>3. Protected'
  <2> USE DEF TypeOK, Watch, Protected
  <2>1. CASE StartProcess(p)
    BY <2>1 DEF StartProcess, Boot
  <2>2. CASE Load(p)
    <3>1. CASE DropTrigger(p)
      BY <3>1 DEF DropTrigger, Boot
    <3>2. CASE CreateTrigger(p)
      BY <3>2 DEF CreateTrigger
    <3>3. CASE CreateTable(p) \/ LoadHead(p)
      BY <3>3 DEF CreateTable, LoadHead, Boot
    <3> QED BY <2>2, <3>1, <3>2, <3>3 DEF Load
  <2>3. CASE BootThrows(p)
    <3>1. errors' = errors + 1 /\ errors \in Nat
      BY <2>3 DEF BootThrows
    <3> QED BY <3>1
  <2>4. CASE Die(p)
    <3>1. deaths' = deaths + 1 /\ deaths \in Nat
      BY <2>4 DEF Die, Stop
    <3> QED BY <3>1
  <2>5. CASE Verify(p) \/ Poll(p)
    BY <2>5 DEF Verify, Poll, database, faults
  <2> QED BY <2>1, <2>2, <2>3, <2>4, <2>5 DEF ProcStep
<1> QED BY <1>2, <1>3 DEF Watch

LEMMA OtherWatch ==
    ASSUME TypeOK, Watch, NEW e \in Events,
           CallStep(e) \/ Insert(e) \/ InsertUnanswered(e)
    PROVE  Watch'
<1>1. UNCHANGED <<guard, boot, flagged, deaths>> /\ strays' = strays
         /\ errors' \in {errors, errors + 1}
  BY DEF CallStep, Call, AwaitLoad, AcquireLock, ReadHead, InsertLetter, AppendThrows,
         LetterThrows, Throw, Insert, InsertUnanswered, Commit, Streak, database, process, faults
<1>2. errors \in Nat
  BY DEF TypeOK
<1>3. NoFalseAlarm'
  BY <1>1, <1>2 DEF Watch, NoFalseAlarm
<1>4. Protected'
  BY <1>1, <1>2 DEF Watch, Protected
<1> QED BY <1>3, <1>4 DEF Watch

LEMMA StepInv == IInv /\ [Next]_vars => IInv'
<1> SUFFICES ASSUME IInv, [Next]_vars PROVE IInv'
  OBVIOUS
<1> USE DEF IInv
<1>1. ASSUME NEW p \in Procs, ProcStep(p) PROVE IInv'
  <2>1. TypeOK' /\ Chain' /\ Watch'
    BY <1>1, ProcType, ProcChain, ProcWatch
  <2> QED BY <1>1, <2>1, ProcRecord
<1>2. ASSUME NEW e \in Events, CallStep(e) PROVE IInv'
  BY <1>2, CallType, CallChain, CallRecord, OtherWatch
<1>3. ASSUME NEW e \in Events, Insert(e) \/ InsertUnanswered(e) PROVE IInv'
  <2>1. TypeOK' /\ Chain' /\ Watch'
    BY <1>3, CommitType, CommitChain, OtherWatch DEF Chain
  <2> QED BY <1>3, <2>1, CommitRecord DEF Chain
<1>4. ASSUME NEW i, Stray(i) PROVE IInv'
  <2>1. TypeOK' /\ Chain'
    BY <1>4, StrayType, StrayChain
  <2>2. Watch'
    <3>1. UNCHANGED <<guard, boot, flagged, deaths, errors>> /\ strays' = strays + 1
      BY <1>4 DEF Stray, process
    <3>2. strays' > 0
      BY <3>1 DEF TypeOK
    <3> QED BY <3>1, <3>2 DEF Watch, NoFalseAlarm, Protected
  <2> QED BY <1>4, <2>1, <2>2, StrayRecord DEF Chain
<1>5. CASE UNCHANGED vars
  <2>1. UNCHANGED <<rows, letters, lock, guard, table, boot, failing, flagged, backlog, pc, at,
                   head, errors, deaths, strays, unanswered>>
    BY <1>5 DEF vars, database, process, call, faults
  <2>2. TypeOK' /\ Watch'
    BY <2>1 DEF TypeOK, Watch, NoFalseAlarm, Protected
  <2>3. Chain'
    BY <2>1 DEF Chain, Linked, Numbered, Held, Intact, InTx, LastHash, PrevHash
  <2>4. Record'
    BY <2>1 DEF Record, ChainedOnce, NothingDropped, AtLabel, InChain
  <2> QED BY <2>2, <2>3, <2>4
<1> QED BY <1>1, <1>2, <1>3, <1>4, <1>5, StepShape

THEOREM Invariance == Spec => []IInv
BY InitInv, StepInv, PTL DEF Spec

\* The variables keep their types: a call waits for, or has, one lock.
THEOREM TypeCorrect == Spec => []TypeOK
BY Invariance, PTL DEF IInv

\* recordAudit's lock makes the chain one chain, for any number of replicas.
THEOREM ChainLinked == Spec => []Linked
<1>1. IInv => Linked
  BY DEF IInv, Chain
<1> QED BY Invariance, <1>1, PTL

\* A call that ended without the alarm of last resort has left a row; none is chained
\* twice, and only one whose COMMIT was not answered is also a dead letter.
THEOREM RecordedOnce == Spec => []RecordedExactlyOnce
<1>1. IInv => RecordedExactlyOnce
  BY DEF IInv, Record, RecordedExactlyOnce
<1> QED BY Invariance, <1>1, PTL

\* The verifier flags a chain only if one of its rows was changed.
THEOREM NobodyAccused == Spec => []NoFalseAlarm
<1>1. IInv => NoFalseAlarm
  BY DEF IInv, Watch
<1> QED BY Invariance, <1>1, PTL

\* The triggers are there behind every replica that is through its boot, except
\* for the boots, deaths and failures the property names.
THEOREM Guarded == Spec => []GuardedOnceLoaded
<1>1. IInv => GuardedOnceLoaded
  <2> SUFFICES ASSUME IInv PROVE GuardedOnceLoaded
    OBVIOUS
  <2>1. errors \in Nat /\ deaths \in Nat
    BY DEF IInv, TypeOK
  <2> QED BY <2>1 DEF IInv, Watch, Protected, GuardedOnceLoaded
<1> QED BY Invariance, <1>1, PTL
=============================================================================
