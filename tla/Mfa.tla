--------------------------------- MODULE Mfa ---------------------------------
(***************************************************************************)
(* The second factor of one user: enrolment of an authenticator, assertion   *)
(* by one-time code or backup code, the sheet of backup codes, removal, the *)
(* pruning of enrolments nobody confirmed, and the two mails that must go   *)
(* out once: that the factor is on, and that backup codes run low.          *)
(*                                                                         *)
(* A SQL statement is a step.  Requests of the user run on any replica and  *)
(* overlap; every replica runs the daily tick.  A secret, a sheet of codes  *)
(* and a row are numbered by the statement that made them.                  *)
(***************************************************************************)
EXTENDS Naturals, FiniteSets

CONSTANTS
    Reqs,      \* requests that can be open at a time
    Ticks,     \* replicas that run nudgeLowBackupCodes
    SheetSize, \* codes of a sheet
    Low,       \* LOW_BACKUP_CODES_THRESHOLD
    MaxOps,    \* bound on operations of the user
    MaxFaults  \* bound on requests and ticks that end half way, and on mails that
               \* cannot be enqueued

ASSUME MfaAssumption ==
    /\ {SheetSize, Low, MaxOps, MaxFaults} \subseteq Nat
    /\ 0 < Low /\ Low <= SheetSize
    /\ "none" \notin Reqs \cup Ticks

VARIABLES
    row,    \* the row of mfa_enrollments, or NoRow
    recent, \* mfa_challenges has a row that is not expired
    at, seen, \* of each request: label, and what it has read
    tick,   \* of each tick: label, and what it has read or stamped
    ops, fails, throws, \* operations, ends half way, mails not enqueued
    proven, uses, mails, nudges, \* what has happened, see MfaInit
    overlaps \* which of the overlaps below have happened

request == <<at, seen>>
bounds  == <<ops, fails, throws>>
history == <<proven, uses, mails, nudges, overlaps>>
mfaVars    == <<row, recent, request, tick, bounds, history>>

Numbers == 1 .. MaxOps
Codes   == 1 .. SheetSize
Bands   == {"low", "empty"}
Rank(l) == CASE l = "none" -> 0 [] l = "low" -> 1 [] l = "empty" -> 2

NoRow  == [id |-> 0]
Marker == [level : Bands \cup {"none"}, by : Ticks \cup {"none"}, sheet : 0 .. MaxOps]
Row    == [id : Numbers, secret : Numbers, sheet : Numbers, left : SUBSET Codes,
           status : {"pending", "active"}, old : BOOLEAN, mailed : Reqs \cup {"none"},
           nudged : Marker]

NoMarker == [level |-> "none", by |-> "none", sheet |-> 0]
Nothing  == [secret |-> 0, id |-> 0, sheet |-> 0, code |-> 0]
Resting  == [at |-> "idle", last |-> NoMarker, level |-> "none", sheet |-> 0]

Enrolled == row # NoRow /\ row.status = "active"

\* thresholdForRemaining.
Band(left) ==
    IF left = {} THEN "empty" ELSE IF Cardinality(left) < Low THEN "low" ELSE "none"

Places == {"idle", "activate", "record", "claim", "mail", "unclaim", "touch", "consume",
           "assert", "regenerate", "delete", "forget"}

MfaTypeOK ==
    /\ row \in Row \cup {NoRow} /\ recent \in BOOLEAN
    /\ at \in [Reqs -> Places]
    /\ seen \in [Reqs -> [secret : 0 .. MaxOps, id : 0 .. MaxOps, sheet : 0 .. MaxOps,
                          code : 0 .. SheetSize]]
    /\ tick \in [Ticks -> [at : {"idle", "stamp", "mail", "unstamp"}, last : Marker,
                           level : Bands \cup {"none"}, sheet : 0 .. MaxOps]]
    /\ ops \in 0 .. MaxOps /\ {fails, throws} \subseteq Nat /\ fails + throws \in 0 .. MaxFaults
    /\ proven \subseteq Numbers
    /\ uses \in [Numbers \X Codes -> Nat] /\ mails \in [Numbers -> Nat]
    /\ nudges \in [Numbers \X Bands -> Nat]
    /\ overlaps \subseteq {"swapped", "clobbered", "kept", "inherited"}
    /\ Enrolled => ~row.old

MfaInit ==
    /\ row = NoRow /\ recent = FALSE
    /\ at = [r \in Reqs |-> "idle"] /\ seen = [r \in Reqs |-> Nothing]
    /\ tick = [t \in Ticks |-> Resting]
    /\ ops = 0 /\ fails = 0 /\ throws = 0
    /\ proven = {}                               \* secrets of which a code was right
    /\ uses = [c \in Numbers \X Codes |-> 0]     \* how often a code was accepted
    /\ mails = [n \in Numbers |-> 0]             \* "mfa_activated", by row
    /\ nudges = [n \in Numbers \X Bands |-> 0]   \* "mfa_backup_codes_low", by sheet
    /\ overlaps = {}

-----------------------------------------------------------------------------
Begin(r) == at[r] = "idle" /\ ops < MaxOps /\ ops' = ops + 1 /\ UNCHANGED <<fails, throws>>

MoveTo(r, label) ==
    /\ at' = [at EXCEPT ![r] = label]
    /\ seen' = IF label = "idle" THEN [seen EXCEPT ![r] = Nothing] ELSE seen

\* A request that ends without having changed anything is not a step.
Read(r, label, what) ==
    /\ Begin(r)
    /\ at' = [at EXCEPT ![r] = label]
    /\ seen' = [seen EXCEPT ![r] = what]
    /\ UNCHANGED <<row, recent, tick>>

Trouble == fails + throws < MaxFaults

Happened(what, cond) == overlaps' = IF cond THEN overlaps \cup {what} ELSE overlaps

-----------------------------------------------------------------------------
(* Enrolment.                                                              *)

NewEnrolment(n) ==
    [id |-> n, secret |-> n, sheet |-> n, left |-> Codes, status |-> "pending", old |-> FALSE,
     mailed |-> "none", nudged |-> NoMarker]

\* setupTotp: a new secret and sheet, in a new row or over the one there is.
Upserted(n) ==
    IF row = NoRow THEN NewEnrolment(n)
    ELSE [row EXCEPT !.secret = n, !.sheet = n, !.left = Codes, !.status = "pending",
                     !.old = FALSE]

Setup(r) ==
    /\ Begin(r)
    /\ row' = Upserted(ops + 1)
    /\ Happened("inherited", row # NoRow /\ row.nudged # NoMarker)
    /\ UNCHANGED <<recent, request, tick, proven, uses, mails, nudges>>

\* verifyTotpAndActivate has read the row and the code is right.
CheckCode(r) ==
    /\ row # NoRow
    /\ Read(r, "activate", [Nothing EXCEPT !.secret = row.secret])
    /\ proven' = proven \cup {row.secret}
    /\ UNCHANGED <<uses, mails, nudges, overlaps>>

\* Mutant: the UPDATE leaves updated_at as it is.
ActivatedOld == IF row = NoRow THEN row ELSE [row EXCEPT !.status = "active"]

Activated == IF row = NoRow THEN row ELSE [row EXCEPT !.status = "active", !.old = FALSE]

\* The UPDATE goes by the user: it activates the secret that is there now, or no
\* row at all, and the request goes on.
Activate(r) ==
    /\ at[r] = "activate"
    /\ row' = Activated
    /\ Happened("swapped", row # NoRow /\ row.secret # seen[r].secret)
    /\ MoveTo(r, "record")
    /\ UNCHANGED <<recent, tick, bounds, proven, uses, mails, nudges>>

\* recordChallenge.
Record(r) ==
    /\ at[r] \in {"record", "assert"}
    /\ recent' = TRUE
    /\ MoveTo(r, IF at[r] = "record" THEN "claim" ELSE "idle")
    /\ UNCHANGED <<row, tick, bounds, history>>

Claimable == Enrolled /\ row.mailed = "none"

\* sendActivationConfirmationIfFirst: whoever sets the marker sends the mail.
Claim(r) ==
    /\ at[r] = "claim"
    /\ row' = IF Claimable THEN [row EXCEPT !.mailed = r] ELSE row
    /\ seen' = [seen EXCEPT ![r] = IF Claimable THEN [Nothing EXCEPT !.id = row.id] ELSE Nothing]
    /\ at' = [at EXCEPT ![r] = IF Claimable THEN "mail" ELSE "idle"]
    /\ UNCHANGED <<recent, tick, bounds, history>>

Mail(r) ==
    /\ at[r] = "mail"
    /\ mails' = [mails EXCEPT ![seen[r].id] = @ + 1]
    /\ MoveTo(r, "idle")
    /\ UNCHANGED <<row, recent, tick, bounds, proven, uses, nudges, overlaps>>

MailThrows(r) ==
    /\ at[r] = "mail" /\ Trouble
    /\ throws' = throws + 1
    /\ MoveTo(r, "unclaim")
    /\ UNCHANGED <<row, recent, tick, ops, fails, history>>

\* Mutant: the marker is left when the mail could not be enqueued.
KeepClaim(r) ==
    /\ at[r] = "unclaim"
    /\ MoveTo(r, "idle")
    /\ UNCHANGED <<row, recent, tick, bounds, history>>

\* The marker is taken back by user again: it may be another request's by now, and
\* it stays if a setup has made the row pending.
Unclaim(r) ==
    /\ at[r] = "unclaim"
    /\ row' = IF Enrolled THEN [row EXCEPT !.mailed = "none"] ELSE row
    /\ overlaps' = overlaps
           \cup {o \in {"clobbered"} : Enrolled /\ row.mailed \notin {r, "none"}}
           \cup {o \in {"kept"} : row # NoRow /\ ~Enrolled /\ row.mailed = r}
    /\ MoveTo(r, "idle")
    /\ UNCHANGED <<recent, tick, bounds, proven, uses, mails, nudges>>

-----------------------------------------------------------------------------
(* Assertion, backup codes, removal.                                       *)

\* verifyTotpAssertion has read the active row and the code is right.
CheckAssertion(r) ==
    /\ Enrolled
    /\ Read(r, "touch", Nothing)
    /\ UNCHANGED history

Touch(r) ==
    /\ at[r] = "touch"
    /\ row' = IF row = NoRow THEN row ELSE [row EXCEPT !.old = FALSE]
    /\ MoveTo(r, "assert")
    /\ UNCHANGED <<recent, tick, bounds, history>>

\* consumeBackupCode has read the active row and finds the code on its sheet.
CheckBackupCode(r, c) ==
    /\ Enrolled /\ c \in row.left
    /\ Read(r, "consume", [Nothing EXCEPT !.id = row.id, !.sheet = row.sheet, !.code = c])
    /\ UNCHANGED history

\* Mutant: the UPDATE does not ask for the code.
StillThereBlindly(r) == row # NoRow /\ row.id = seen[r].id

StillThere(r) ==
    /\ row # NoRow /\ row.id = seen[r].id
    /\ row.sheet = seen[r].sheet /\ seen[r].code \in row.left

ConsumeCode(r) ==
    /\ at[r] = "consume"
    /\ IF StillThere(r)
       THEN /\ row' = [row EXCEPT !.left = @ \ {seen[r].code}, !.old = FALSE]
            /\ uses' = [uses EXCEPT ![<<seen[r].sheet, seen[r].code>>] = @ + 1]
            /\ MoveTo(r, "assert")
       ELSE MoveTo(r, "idle") /\ UNCHANGED <<row, uses>>
    /\ UNCHANGED <<recent, tick, bounds, proven, mails, nudges, overlaps>>

\* The routes that regenerate and disable ask hasRecentChallenge first.
AskRecent(r, label) ==
    /\ recent
    /\ Read(r, label, [Nothing EXCEPT !.sheet = ops + 1])
    /\ UNCHANGED history

NewSheet(n) ==
    [row EXCEPT !.sheet = n, !.left = Codes, !.nudged = NoMarker, !.old = FALSE]

\* regenerateBackupCodes.
Regenerate(r) ==
    /\ at[r] = "regenerate"
    /\ row' = IF Enrolled THEN NewSheet(seen[r].sheet) ELSE row
    /\ MoveTo(r, "idle")
    /\ UNCHANGED <<recent, tick, bounds, history>>

DeleteRow(r) ==
    /\ at[r] = "delete"
    /\ row' = NoRow
    /\ MoveTo(r, "forget")
    /\ UNCHANGED <<recent, tick, bounds, history>>

DeleteChallenges(r) ==
    /\ at[r] = "forget"
    /\ recent' = FALSE
    /\ MoveTo(r, "idle")
    /\ UNCHANGED <<row, tick, bounds, history>>

-----------------------------------------------------------------------------
(* nudgeLowBackupCodes.                                                    *)

Rest(t) == tick' = [tick EXCEPT ![t] = Resting]

NudgeDue == Enrolled /\ Rank(Band(row.left)) > Rank(row.nudged.level)

\* The SELECT, for a row that has crossed into a stricter band.
Scan(t) ==
    /\ tick[t].at = "idle" /\ NudgeDue
    /\ tick' = [tick EXCEPT ![t] = [at |-> "stamp", last |-> row.nudged,
                                    level |-> Band(row.left), sheet |-> 0]]
    /\ UNCHANGED <<row, recent, request, bounds, history>>

\* Mutant: the marker is compared with =, which no NULL passes.
UnmovedByEquals(t) ==
    /\ Enrolled /\ Band(row.left) = tick[t].level
    /\ row.nudged.level = tick[t].last.level /\ row.nudged.level # "none"

Unmoved(t) ==
    Enrolled /\ row.nudged.level = tick[t].last.level /\ Band(row.left) = tick[t].level

Stamp(t) ==
    /\ tick[t].at = "stamp"
    /\ IF Unmoved(t)
       THEN /\ row' = [row EXCEPT !.nudged = [level |-> tick[t].level, by |-> t,
                                              sheet |-> row.sheet]]
            /\ tick' = [tick EXCEPT ![t].at = "mail", ![t].sheet = row.sheet,
                                     ![t].last = row.nudged]
       ELSE Rest(t) /\ UNCHANGED row
    /\ UNCHANGED <<recent, request, bounds, history>>

Nudge(t) ==
    /\ tick[t].at = "mail"
    /\ nudges' = [nudges EXCEPT ![<<tick[t].sheet, tick[t].level>>] = @ + 1]
    /\ Rest(t)
    /\ UNCHANGED <<row, recent, request, bounds, proven, uses, mails, overlaps>>

NudgeThrows(t) ==
    /\ tick[t].at = "mail" /\ Trouble
    /\ throws' = throws + 1
    /\ tick' = [tick EXCEPT ![t].at = "unstamp"]
    /\ UNCHANGED <<row, recent, request, ops, fails, history>>

\* The marker is taken back if it still says what was stamped, by whomever.
Unstamp(t) ==
    LET same == Enrolled /\ row.nudged.level = tick[t].level
    IN /\ tick[t].at = "unstamp"
       /\ row' = IF same THEN [row EXCEPT !.nudged = tick[t].last] ELSE row
       /\ Happened("clobbered",
                   same /\ (row.nudged.by # t \/ row.nudged.sheet # tick[t].sheet))
       /\ Rest(t)
       /\ UNCHANGED <<recent, request, bounds, proven, uses, mails, nudges>>

-----------------------------------------------------------------------------
(* Time and failures.                                                      *)

Age ==
    /\ row # NoRow /\ ~Enrolled /\ ~row.old
    /\ row' = [row EXCEPT !.old = TRUE]
    /\ UNCHANGED <<recent, request, tick, bounds, history>>

\* pruneStalePendingMfaEnrollments.
Prune ==
    /\ row # NoRow /\ ~Enrolled /\ row.old
    /\ row' = NoRow
    /\ UNCHANGED <<recent, request, tick, bounds, history>>

\* Fifteen minutes have passed; that the rows are pruned later changes no answer.
Lapse ==
    /\ recent /\ recent' = FALSE
    /\ UNCHANGED <<row, request, tick, bounds, history>>

Fail == Trouble /\ fails' = fails + 1 /\ UNCHANGED <<row, recent, ops, throws, history>>

RequestFails(r) == at[r] # "idle" /\ Fail /\ MoveTo(r, "idle") /\ UNCHANGED tick
TickFails(t)    == tick[t].at # "idle" /\ Fail /\ Rest(t) /\ UNCHANGED request

-----------------------------------------------------------------------------
Ask(r) ==
    \/ Setup(r) \/ CheckCode(r) \/ CheckAssertion(r)
    \/ \E c \in Codes : CheckBackupCode(r, c)
    \/ AskRecent(r, "regenerate") \/ AskRecent(r, "delete")

Proceed(r) ==
    \/ Activate(r) \/ Record(r) \/ Claim(r) \/ Mail(r) \/ Unclaim(r)
    \/ Touch(r) \/ ConsumeCode(r) \/ Regenerate(r) \/ DeleteRow(r) \/ DeleteChallenges(r)

Tick(t) == Scan(t) \/ Stamp(t) \/ Nudge(t) \/ Unstamp(t)

MfaNext ==
    \/ \E r \in Reqs : Ask(r) \/ Proceed(r) \/ MailThrows(r) \/ RequestFails(r)
    \/ \E t \in Ticks : Tick(t) \/ NudgeThrows(t) \/ TickFails(t)
    \/ Age \/ Prune \/ Lapse

MfaSpec == MfaInit /\ [][MfaNext]_mfaVars

\* A request goes on; every replica's timer comes back.
Fairness ==
    /\ \A r \in Reqs : WF_mfaVars(Proceed(r))
    /\ \A t \in Ticks : WF_mfaVars(Tick(t))

MfaFairSpec == MfaSpec /\ Fairness

-----------------------------------------------------------------------------
(* Properties.                                                             *)

\* What lets a user in has been earned: "atomic single-use", no backup code is accepted
\* twice, whatever overlaps; and an authenticator is active only if it has shown a
\* right code, unless a setup put another secret in between the check and the UPDATE.
CodesAreChecked ==
    /\ \A c \in Numbers \X Codes : uses[c] <= 1
    /\ Enrolled => row.secret \in proven \/ "swapped" \in overlaps

\* The owner of a factor is told of its activation, "exactly once per active
\* enrolment": one mail at most, unless a rollback took the marker of a later claim;
\* the marker does not stand for a mail that was given up, unless a setup was in
\* between; and an active factor without it has somebody about to claim it.
OwnerIsTold ==
    /\ \A n \in Numbers : mails[n] <= 1 \/ "clobbered" \in overlaps
    /\ (row # NoRow /\ row.mailed # "none") =>
           \/ mails[row.id] > 0 \/ at[row.mailed] \in {"mail", "unclaim"}
           \/ fails > 0 \/ "kept" \in overlaps
    /\ (Enrolled /\ row.mailed = "none") =>
           throws + fails > 0 \/ \E r \in Reqs : at[r] \in {"record", "claim"}

\* "Two overlapping ticks cannot both stamp the row and double-send": one mail per
\* sheet and band, unless a rollback took another tick's marker; the marker does not
\* stand for a mail that was given up, unless two were or a setup was in between; and
\* it is about this sheet, unless a setup has replaced the sheet under it.
NudgedOnce ==
    /\ \A n \in Numbers \X Bands : nudges[n] <= 1 \/ "clobbered" \in overlaps
    /\ (row # NoRow /\ row.nudged # NoMarker) =>
           /\ \/ nudges[<<row.nudged.sheet, row.nudged.level>>] > 0
              \/ tick[row.nudged.by].at \in {"mail", "unstamp"}
              \/ fails > 0 \/ throws > 1 \/ "inherited" \in overlaps
           /\ \/ row.nudged.sheet = row.sheet
              \/ overlaps \cap {"inherited", "clobbered"} # {}

\* "A future drain triggers fresh nudges": who is low or empty is told, once.
NudgesCome == []NudgedOnce /\ []<>~NudgeDue
=============================================================================
