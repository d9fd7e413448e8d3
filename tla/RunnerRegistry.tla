--------------------------- MODULE RunnerRegistry ---------------------------
(***************************************************************************)
(* The RunnerRegistry Durable Object (src/src/worker.js): one row for each *)
(* sandbox that runs a GitHub runner, and the alarm that cleans it up.     *)
(*                                                                         *)
(* A row is started by recordStarting, becomes online, and is destroyed    *)
(* under a claim.  A claim is a random token with a lease: whoever holds   *)
(* it destroys the sandbox outside this object and settles the claim here. *)
(* The alarm, POST /reconcile and the two orphan routes compete for it.    *)
(*                                                                         *)
(* Every method is one turn of the object: its only awaits are storage     *)
(* operations, during which no other event is delivered.  The callers are  *)
(* Workers; the times they pass were read up to MaxLag ago.  A call that   *)
(* changes nothing (a refusal, a replayed recordStarting, a claim inside   *)
(* the grace period) has no action.  Rows migrated from older schemas,     *)
(* with NULLs no current method writes, are left out.                      *)
(***************************************************************************)
EXTENDS Integers, FiniteSets

CONSTANTS
  Sandboxes,                 \* sandbox identifiers (UUIDs, never reused)
  Instances,                 \* container instances (generations of a sandbox)
  Tokens,                    \* cleanup tokens (UUIDs)
  None,                      \* SQL NULL of a column that is not a time
  MaxActiveRunners,          \* MAX_ACTIVE_RUNNERS
  ActiveRunnerCleanupDelay,  \* ACTIVE_RUNNER_CLEANUP_DELAY_MS
  MaxBusyPostpone,           \* MAX_BUSY_POSTPONE_MS
  CleanupClaimStale,         \* CLEANUP_CLAIM_STALE_MS
  CleanupRetryDelay,         \* CLEANUP_RETRY_DELAY_MS
  CallbackHandoffDelay,      \* CALLBACK_CLEANUP_HANDOFF_DELAY_MS
  OrphanGrace,               \* ORPHAN_DESTROY_GRACE_MS
  TerminalRetention,         \* TERMINAL_RUNNER_RETENTION_MS
  MaxCleanupAttempts,        \* MAX_CLEANUP_ATTEMPTS
  MaxCleanupConcurrency,     \* MAX_CLEANUP_CONCURRENCY
  PruneBatch,                \* TERMINAL_RUNNER_PRUNE_BATCH_SIZE
  MaxNow,                    \* bound of the clock
  MaxLag,                    \* bound of the age of a caller's clock reading
  MaxRevision                \* bound of the revision that callers act upon

\* Who may ask for a cleanup (cleanup_requested_by)
Requesters == {"callback", "startup-failure", "reconcile", "alarm", "orphan"}

ASSUME RegistryConstants ==
  /\ None \notin Instances \cup Tokens \cup Requesters
  /\ \A n \in {MaxActiveRunners, ActiveRunnerCleanupDelay, MaxBusyPostpone,
               CleanupRetryDelay, CallbackHandoffDelay, OrphanGrace,
               TerminalRetention, MaxNow, MaxLag, MaxRevision} : n \in Nat
  /\ \A n \in {CleanupClaimStale, MaxCleanupAttempts,
               MaxCleanupConcurrency, PruneBatch} : n \in Nat \ {0}
  /\ MaxLag < CleanupRetryDelay

VARIABLES
  row,       \* the runners table, by sandbox_id
  born,      \* the identifiers the object has met
  observed,  \* orphan_observations
  absence,   \* orphan_reclaim_observations
  alarm,     \* the Durable Object alarm
  handling,  \* an alarm handler is running its cleanups
  claim,     \* the claims handed out, by token, and what their holders know
  now        \* the platform clock

registryVars == <<row, born, observed, absence, alarm, handling, claim, now>>

-----------------------------------------------------------------------------
(***************************************************************************)
(* Rows.  adopted marks a row that claimOrphanCleanup inserted for a       *)
(* sandbox without one (correlation_id orphan-cleanup:ID), for which no    *)
(* GitHub name is known.                                                   *)
(***************************************************************************)
Never == -1

NoRow == [state |-> "none", due |-> Never, startedAt |-> Never,
          token |-> None, by |-> None, attempts |-> 0, busySince |-> Never,
          revision |-> 0, instance |-> None, createdAt |-> 0,
          destroyedAt |-> Never, adopted |-> FALSE]

Live(r) == r.state \in {"starting", "online", "destroying"}
Due(r, t) == Live(r) /\ r.due # Never /\ r.due <= t
Parked(r) == r.state = "destroying" /\ r.due = Never

\* The rows recordStarting counts against MAX_ACTIVE_RUNNERS
Counted(r) == Live(r) /\ ~(r.state = "destroying" /\ r.by = "orphan")

\* No token, or one whose lease has passed
ClaimFree(r, t) == r.token = None \/ r.startedAt <= t - CleanupClaimStale

(***************************************************************************)
(* Claims.  A cleanup works from the reply to its claim: the row as it was *)
(* before, and for an orphan whether it had one.  "alarm" claims belong to *)
(* the alarm handler, "reconcile" ones to a Worker that serves POST        *)
(* /reconcile or the reclaim route, "absent" and "terminal" ones to a      *)
(* Worker that serves the orphan destroy route.                            *)
(***************************************************************************)
NoClaim == [kind |-> "none", sandbox |-> None, before |-> NoRow]
OrphanKinds == {"absent", "terminal"}

Started(at) ==
  [NoRow EXCEPT !.state = "starting", !.due = at + ActiveRunnerCleanupDelay,
                !.createdAt = at]

Online(r) == [r EXCEPT !.state = "online", !.revision = @ + 1]

\* #queueCleanup
Queued(r, by, at) ==
  [r EXCEPT !.state = "destroying", !.startedAt = at, !.token = None,
            !.due = at + (IF by = "callback" THEN CallbackHandoffDelay ELSE 0),
            !.by = by, !.revision = @ + 1]

Rearmed(r, at) ==
  [r EXCEPT !.due = at, !.startedAt = at, !.token = None, !.revision = @ + 1]

\* The columns every claim writes
Claimed(r, token, by, at) ==
  [r EXCEPT !.state = "destroying", !.startedAt = at, !.token = token,
            !.due = at + CleanupClaimStale, !.by = by, !.revision = @ + 1]

\* A claim of claimNextDueCleanup
AlarmClaimed(r, token, at) ==
  [Claimed(r, token, IF r.by = None THEN "alarm" ELSE r.by, at)
     EXCEPT !.attempts = @ + 1]

Adopted(inst, token, at) ==
  [NoRow EXCEPT !.state = "destroying", !.startedAt = at, !.token = token,
                !.due = at + CleanupClaimStale, !.by = "orphan",
                !.instance = inst, !.createdAt = at, !.adopted = TRUE]

Reopened(r, inst, token, at) ==
  [Claimed(r, token, "orphan", at) EXCEPT !.instance = inst,
                                          !.destroyedAt = Never]

\* Mutant: parks a cleanup at its first failure.
RetriedOnce(r, at) ==
  [r EXCEPT !.startedAt = at, !.token = None, !.due = Never,
            !.revision = @ + 1]

\* settleCleanupClaim("retry")
Retried(r, at) ==
  [r EXCEPT !.startedAt = at, !.token = None,
            !.due = IF r.attempts >= MaxCleanupAttempts
                      THEN Never ELSE at + CleanupRetryDelay,
            !.revision = @ + 1]

\* settleCleanupClaim("complete")
Completed(r, at) ==
  [r EXCEPT !.state = "destroyed", !.destroyedAt = at, !.token = None,
            !.due = Never, !.by = None, !.revision = @ + 1]

\* #abandonOrphanCleanupClaim of a terminal row; original is the terminal
\* row as claimOrphanCleanup returned it, NoRow when there was no reply.
Restored(r, original) ==
  [r EXCEPT !.state = "destroyed", !.instance = original.instance,
            !.startedAt = original.startedAt, !.token = None, !.due = Never,
            !.by = None, !.destroyedAt = original.destroyedAt,
            !.revision = @ + 1]

\* postponeBusyCleanup, without its busy_since_ms
Postponed(r, state, by, at) ==
  [r EXCEPT !.state = state, !.startedAt = Never, !.token = None,
            !.due = at + (IF state = "destroying" THEN CleanupRetryDelay
                                       ELSE ActiveRunnerCleanupDelay),
            !.by = IF state = "destroying" THEN by ELSE None,
            !.attempts = 0, !.revision = @ + 1]

\* busy_since_ms after one more busy observation
BusySince(r, at) == IF r.busySince = Never THEN at ELSE r.busySince
BusyTooLong(r, at) == at - BusySince(r, at) >= MaxBusyPostpone

-----------------------------------------------------------------------------
(***************************************************************************)
(* #scheduleNextAlarm: the alarm is the earliest of the cleanup deadlines, *)
(* the terminal rows' expiry and the observations' expiry, never in the    *)
(* past.  It is only lowered, unless the caller asks to replace it.        *)
(***************************************************************************)
Deadlines(rows, seen, missed) ==
  {rows[s].due : s \in {x \in Sandboxes : Live(rows[x])
                                          /\ rows[x].due # Never}}
  \cup {rows[s].destroyedAt + TerminalRetention :
          s \in {x \in Sandboxes : rows[x].state = "destroyed"
                                   /\ rows[x].destroyedAt # Never}}
  \cup {o.at + TerminalRetention : o \in seen \cup missed}

Earliest(times) == CHOOSE t \in times : \A u \in times : t <= u
NotBeforeNow(times) ==
  IF Earliest(times) < now THEN now ELSE Earliest(times)

\* Mutant: an alarm that is set is never lowered.
LoweredNever(current, times) ==
  IF times = {} \/ current # Never THEN current ELSE NotBeforeNow(times)

Lowered(current, times) ==
  IF times = {} THEN current
  ELSE IF current = Never \/ current > NotBeforeNow(times)
    THEN NotBeforeNow(times) ELSE current

\* Mutant: setAlarm(null) where the code calls deleteAlarm().
ReplacedNull(times) == IF times = {} THEN None ELSE NotBeforeNow(times)

Replaced(times) == IF times = {} THEN Never ELSE NotBeforeNow(times)

Rearm == alarm' = Lowered(alarm, Deadlines(row', observed', absence'))
RearmReplacing == alarm' = Replaced(Deadlines(row', observed', absence'))

Recent == {t \in 0 .. now : t >= now - MaxLag}
Bumps(s) == row[s].revision < MaxRevision
\* A token for a claim on s: one that nobody knows, and no other row carries.
FreshToken(t, s) ==
  claim[t] = NoClaim /\ \A x \in Sandboxes \ {s} : row[x].token # t

HandOut(token, kind, s, before) ==
  claim' = [claim EXCEPT ![token] = [kind |-> kind, sandbox |-> s,
                                     before |-> before]]
Settles(token) == claim' = [claim EXCEPT ![token] = NoClaim]

SetRow(s, r) == row' = [row EXCEPT ![s] = r]

-----------------------------------------------------------------------------
(* The life of a runner. *)

RecordStarting(s, at) ==
  /\ s \notin born
  /\ Cardinality({x \in Sandboxes : Counted(row[x])}) < MaxActiveRunners
  /\ SetRow(s, Started(at))
  /\ born' = born \cup {s}
  /\ UNCHANGED <<observed, absence, handling, claim, now>>
  /\ Rearm

MarkOnline(s) ==
  /\ row[s].state = "starting" /\ row[s].token = None
  /\ Bumps(s)
  /\ SetRow(s, Online(row[s]))
  /\ UNCHANGED <<born, observed, absence, alarm, handling, claim, now>>

\* beginCallbackCleanup and beginStartupCleanup
QueueCleanup(s, by, at) ==
  /\ row[s].state \in {"starting", "online"} /\ row[s].token = None
  /\ Bumps(s)
  /\ SetRow(s, Queued(row[s], by, at))
  /\ UNCHANGED <<born, observed, absence, handling, claim, now>>
  /\ Rearm

\* Mutant: forgets that only a parked cleanup may be re-armed.
RearmAnyCleanup(s, at) ==
  /\ row[s].state = "destroying"
  /\ Bumps(s)
  /\ SetRow(s, Rearmed(row[s], at))
  /\ UNCHANGED <<born, observed, absence, handling, claim, now>>
  /\ Rearm

RearmStalledCleanup(s, at) ==
  /\ Parked(row[s])
  /\ Bumps(s)
  /\ SetRow(s, Rearmed(row[s], at))
  /\ UNCHANGED <<born, observed, absence, handling, claim, now>>
  /\ Rearm

-----------------------------------------------------------------------------
(* Claims. *)

ClaimForReconcile(s, revision, token, at) ==
  LET r == row[s] IN
  /\ Live(r) /\ r.revision = revision
  /\ r.by = None \/ r.due = Never \/ r.due <= at
  /\ ClaimFree(r, at)
  /\ Bumps(s) /\ FreshToken(token, s)
  /\ SetRow(s, Claimed(r, token, "reconcile", at))
  /\ HandOut(token, "reconcile", s, r)
  /\ UNCHANGED <<born, observed, absence, handling, now>>
  /\ Rearm

\* observeOrphanReclaim records that Cloudflare does not list the sandbox of
\* the row's present revision, again when the record has become too old.
ObserveAbsence(s, revision, at) ==
  LET same == {o \in absence : o.sandbox = s /\ o.revision = revision} IN
  /\ Live(row[s]) /\ row[s].revision = revision
  /\ at - row[s].createdAt >= OrphanGrace
  /\ \A o \in same : at - o.at > TerminalRetention
  /\ absence' = (absence \ same)
                  \cup {[sandbox |-> s, revision |-> revision, at |-> at]}
  /\ UNCHANGED <<row, born, observed, handling, claim, now>>
  /\ Rearm

\* claimOrphanCleanup: the sandbox has no row or a terminal one, and the
\* instance the operator saw is the one the terminal row is bound to.
OrphanObservable(s, inst) ==
  \/ row[s].state = "none"
  \/ /\ row[s].state = "destroyed" /\ row[s].destroyedAt # Never
     /\ row[s].instance \in {None, inst}

Sighted(s, inst) == {o \in observed : o.sandbox = s /\ o.instance = inst}

\* ... its first call, and one after the observation has become too old,
\* record the sighting and bind the terminal row to that instance ...
ObserveOrphan(s, inst, at) ==
  /\ OrphanObservable(s, inst)
  /\ \A o \in Sighted(s, inst) : at - o.at > TerminalRetention
  /\ row' = IF row[s].state = "destroyed"
              THEN [row EXCEPT ![s].instance = inst] ELSE row
  /\ observed' = (observed \ Sighted(s, inst))
                   \cup {[sandbox |-> s, instance |-> inst, at |-> at]}
  /\ born' = born \cup {s}
  /\ UNCHANGED <<absence, handling, claim, now>>
  /\ Rearm

\* ... and a later call, outside the grace period, claims.
ClaimOrphan(s, inst, token, at) ==
  LET r == row[s] IN
  /\ OrphanObservable(s, inst)
  /\ \E o \in Sighted(s, inst) : at - o.at \in OrphanGrace .. TerminalRetention
  /\ Bumps(s) /\ FreshToken(token, s)
  /\ SetRow(s, IF r.state = "none" THEN Adopted(inst, token, at)
                                   ELSE Reopened(r, inst, token, at))
  /\ HandOut(token, IF r.state = "none" THEN "absent" ELSE "terminal", s, r)
  /\ born' = born \cup {s}
  /\ UNCHANGED <<observed, absence, handling, now>>
  /\ Rearm

-----------------------------------------------------------------------------
(***************************************************************************)
(* Settlements, by the holder of a claim.  All but AbandonOrphan need its  *)
(* token to be the one on the row.                                         *)
(***************************************************************************)
Holds(s, token) == row[s].state = "destroying" /\ row[s].token = token
Target(token) == claim[token].sandbox
Held == {t \in Tokens : claim[t] # NoClaim}

\* settleCleanupClaim("retry"); it replaces the alarm only when it parks
RetryClaim(token, at) ==
  LET s == Target(token) IN
  /\ Holds(s, token)
  /\ SetRow(s, Retried(row[s], at))
  /\ Settles(token)
  /\ UNCHANGED <<born, observed, absence, handling, now>>
  /\ IF row'[s].due = Never THEN RearmReplacing ELSE Rearm

\* settleCleanupClaim("complete"); an orphan's sightings of its instance, and
\* every absence recorded for the sandbox, are settled with it
CompleteClaim(token, at) ==
  LET s == Target(token) IN
  /\ Holds(s, token)
  /\ SetRow(s, Completed(row[s], at))
  /\ observed' = IF row[s].by = "orphan"
                   THEN observed \ Sighted(s, row[s].instance) ELSE observed
  /\ absence' = {o \in absence : o.sandbox # s}
  /\ Settles(token)
  /\ UNCHANGED <<born, handling, now>>
  /\ RearmReplacing

\* abandonOrphanCleanupClaim: settleCleanupClaim("abandon") if the claim is
\* still held, and if not settleUnownedOrphanCleanupClaim, which asks for no
\* token
Abandons(s, absent, original) ==
  /\ row[s].state = "destroying" /\ row[s].by = "orphan"
  /\ absent => row[s].adopted
  /\ SetRow(s, IF absent THEN NoRow ELSE Restored(row[s], original))
  /\ UNCHANGED <<born, observed, absence, handling, now>>
  /\ RearmReplacing

AbandonOrphan(token) ==
  /\ claim[token].kind \in OrphanKinds
  /\ Abandons(Target(token), claim[token].kind = "absent",
              claim[token].before)
  /\ Settles(token)

\* ... also after a claimOrphanCleanup call that failed, or whose reply was
\* lost: the route does not know then what the row was, or if it is its own.
AbandonUnclaimed(s, absent) ==
  /\ Abandons(s, absent, NoRow)
  /\ UNCHANGED claim

\* postponeBusyCleanup of a runner that is busy or, on the reclaim route, just
\* online: the row goes back to what it was.  It refuses a runner that has been
\* busy too long, for the holder to force the exit.
PostponeCleanup(token, at, busy) ==
  LET s == Target(token)
      r == Postponed(row[s], claim[token].before.state,
                     claim[token].before.by, at)
  IN
  /\ claim[token].kind \in {"reconcile"} \cup (IF busy THEN {"alarm"} ELSE {})
  /\ Holds(s, token)
  /\ busy => ~BusyTooLong(row[s], at)
  /\ SetRow(s, IF busy THEN [r EXCEPT !.busySince = BusySince(row[s], at)]
                       ELSE r)
  /\ Settles(token)
  /\ UNCHANGED <<born, observed, absence, handling, now>>
  /\ RearmReplacing

\* The holder ends without settling: it died, or lost the claim.
DropClaim(token) ==
  /\ Settles(token)
  /\ UNCHANGED <<row, born, observed, absence, alarm, handling, now>>

-----------------------------------------------------------------------------
(***************************************************************************)
(* The alarm.  runRunnerRegistryAlarm claims the rows that are due, oldest *)
(* deadline first, up to its concurrency; pruneTerminalRows ends every     *)
(* alarm.  The claims of one handler are a single turn: claiming awaits    *)
(* nothing but storage.  RowsWellFormed shows that a due row is always     *)
(* free to be claimed, so the branch that gives up never runs.             *)
(***************************************************************************)
DueRows == {s \in Sandboxes : Due(row[s], now)}

Before(s, x) ==
  \/ row[s].due < row[x].due
  \/ row[s].due = row[x].due /\ row[s].createdAt <= row[x].createdAt

OldestDue ==
  {C \in SUBSET DueRows :
     /\ Cardinality(C) = (IF Cardinality(DueRows) < MaxCleanupConcurrency
                            THEN Cardinality(DueRows)
                            ELSE MaxCleanupConcurrency)
     /\ \A s \in C, x \in DueRows \ C : Before(s, x)}

\* The first of the claims sets the alarm, to now when another row is due.
AlarmClaims(C, token) ==
  /\ alarm # Never /\ alarm <= now /\ ~handling
  /\ C # {}
  /\ \A s \in C : ClaimFree(row[s], now) /\ FreshToken(token[s], s)
  /\ \A s, x \in C : token[s] = token[x] => s = x
  /\ row' = [s \in Sandboxes |->
               IF s \in C THEN AlarmClaimed(row[s], token[s], now) ELSE row[s]]
  /\ claim' = [t \in Tokens |->
                 IF \E s \in C : token[s] = t
                   THEN [kind |-> "alarm",
                         sandbox |-> CHOOSE s \in C : token[s] = t,
                         before |-> row[CHOOSE s \in C : token[s] = t]]
                   ELSE claim[t]]
  /\ handling' = TRUE
  /\ UNCHANGED <<born, observed, absence, now>>
  /\ alarm' = IF Cardinality(DueRows) > 1 THEN now
              ELSE Replaced(Deadlines(row', observed', absence'))

Terminal == {[sandbox |-> s, at |-> row[s].destroyedAt] :
               s \in {x \in Sandboxes : row[x].state = "destroyed"
                                        /\ row[x].destroyedAt # Never}}

\* The first n entries of a table that have outlived TerminalRetention
Expired(table) == {e \in table : e.at <= now - TerminalRetention}
OldestExpired(table, n) ==
  {D \in SUBSET Expired(table) :
     /\ Cardinality(D) = IF Cardinality(Expired(table)) < n
                           THEN Cardinality(Expired(table)) ELSE n
     /\ \A d \in D, e \in Expired(table) \ D : d.at <= e.at}

\* Mutant: an alarm ends without setting the next one.
PruneForgetsAlarm ==
  /\ handling' = FALSE /\ alarm' = Never
  /\ UNCHANGED <<row, born, observed, absence, claim, now>>

PruneTerminalRows ==
  /\ \E D \in OldestExpired(Terminal, PruneBatch) :
       row' = [s \in Sandboxes |->
                 IF \E d \in D : d.sandbox = s THEN NoRow ELSE row[s]]
  /\ \E O \in OldestExpired(observed, PruneBatch) :
       /\ observed' = observed \ O
       /\ \E A \in OldestExpired(absence, PruneBatch - Cardinality(O)) :
            absence' = absence \ A
  /\ handling' = FALSE
  /\ UNCHANGED <<born, claim, now>>
  /\ RearmReplacing

\* An alarm that finds no row due
AlarmIdle ==
  /\ alarm # Never /\ alarm <= now /\ ~handling
  /\ DueRows = {}
  /\ PruneTerminalRows

\* The cleanups of an alarm have all ended.
AlarmEnds ==
  /\ handling
  /\ \A t \in Tokens : claim[t].kind # "alarm"
  /\ PruneTerminalRows

\* The platform drops the object from memory, with the alarm handler that
\* runs in it, and constructs it anew.
Restart ==
  /\ handling' = FALSE
  /\ claim' = [t \in Tokens |->
                 IF claim[t].kind = "alarm" THEN NoClaim ELSE claim[t]]
  /\ UNCHANGED <<row, born, observed, absence, now>>
  /\ Rearm

Tick ==
  /\ now < MaxNow
  /\ now' = now + 1
  /\ UNCHANGED <<row, born, observed, absence, alarm, handling, claim>>

-----------------------------------------------------------------------------
(***************************************************************************)
(* The object serves any caller: a claim is settled in any way its holder  *)
(* has, at any time, or never.                                             *)
(***************************************************************************)
RegistryInit ==
  /\ row = [s \in Sandboxes |-> NoRow]
  /\ born = {} /\ observed = {} /\ absence = {}
  /\ alarm = Never /\ handling = FALSE /\ now = 0
  /\ claim = [t \in Tokens |-> NoClaim]

Lifecycle(s, at) ==
  \/ MarkOnline(s)
  \/ RecordStarting(s, at)
  \/ \E by \in {"callback", "startup-failure"} : QueueCleanup(s, by, at)
  \/ RearmStalledCleanup(s, at)

Observation(s, at) ==
  \/ ObserveAbsence(s, row[s].revision, at)
  \/ \E inst \in Instances : ObserveOrphan(s, inst, at)

Claiming(s, at) ==
  \E token \in Tokens :
    \/ ClaimForReconcile(s, row[s].revision, token, at)
    \/ \E inst \in Instances : ClaimOrphan(s, inst, token, at)

Settlement(token, at) ==
  \/ RetryClaim(token, at)
  \/ CompleteClaim(token, at)
  \/ \E busy \in BOOLEAN : PostponeCleanup(token, at, busy)
  \/ AbandonOrphan(token)
  \/ DropClaim(token)

RegistryAlarm ==
  \/ \E C \in OldestDue, token \in [Sandboxes -> Tokens] :
       AlarmClaims(C, token)
  \/ AlarmIdle
  \/ AlarmEnds

RegistryNext ==
  \/ \E s \in Sandboxes, at \in Recent :
       Lifecycle(s, at) \/ Observation(s, at) \/ Claiming(s, at)
  \/ \E s \in Sandboxes, absent \in BOOLEAN : AbandonUnclaimed(s, absent)
  \/ \E token \in Held, at \in Recent : Settlement(token, at)
  \/ RegistryAlarm
  \/ Restart
  \/ Tick

RegistrySpec == RegistryInit /\ [][RegistryNext]_registryVars

-----------------------------------------------------------------------------
Times == 0 .. MaxNow + ActiveRunnerCleanupDelay + CleanupClaimStale
                + CleanupRetryDelay + CallbackHandoffDelay + TerminalRetention

RowType ==
  [state : {"none", "starting", "online", "destroying", "destroyed"},
   due : Times \cup {Never}, startedAt : Times \cup {Never},
   token : Tokens \cup {None}, by : Requesters \cup {None},
   attempts : Nat, busySince : Times \cup {Never},
   revision : Nat, instance : Instances \cup {None},
   createdAt : Times, destroyedAt : Times \cup {Never}, adopted : BOOLEAN]

\* Every variable has its type.
RegistryTypeOK ==
  /\ row \in [Sandboxes -> RowType]
  /\ born \subseteq Sandboxes
  /\ observed \subseteq [sandbox : Sandboxes, instance : Instances, at : Times]
  /\ absence \subseteq [sandbox : Sandboxes, revision : Nat, at : Times]
  /\ claim \in [Tokens ->
       [kind : {"alarm", "reconcile"} \cup OrphanKinds,
        sandbox : Sandboxes, before : RowType] \cup {NoClaim}]
  /\ alarm \in Times \cup {Never} /\ handling \in BOOLEAN /\ now \in 0 .. MaxNow

\* Every row has exactly one way forward.  An active row always keeps the
\* deadline that sweeps it; a claim always carries the lease after which it
\* can be taken over, so no row is due and yet locked; and a cleanup leaves
\* the alarm for the operator only after MAX_CLEANUP_ATTEMPTS attempts.
RowsWellFormed ==
  \A s \in Sandboxes : LET r == row[s] IN
    /\ r.state \in {"starting", "online"}
         => r.due # Never /\ r.token = None /\ r.by = None
    /\ r.token # None => /\ r.state = "destroying"
                         /\ r.due = r.startedAt + CleanupClaimStale
    /\ Due(r, now) => ClaimFree(r, now)
    /\ r.state = "destroying" => r.by # None
    /\ Parked(r) => r.attempts >= MaxCleanupAttempts
    /\ r.state \in {"none", "destroyed"} => r.due = Never /\ r.by = None

\* Nothing waits for an alarm that is not set: whatever calls, restarts and
\* clock readings came before, the alarm rings no later than the earliest
\* deadline of the three tables, or is already overdue.
AlarmCoversTables ==
  \A t \in Deadlines(row, observed, absence) :
    alarm # Never /\ (alarm <= t \/ alarm <= now)

\* The platform rings the alarm, and no holder keeps its claim for ever: it
\* settles it or dies.
RegistryFairness ==
  /\ WF_registryVars(RegistryAlarm)
  /\ \A token \in Tokens :
       WF_registryVars(token \in Held /\ DropClaim(token))

RegistryLiveSpec == RegistrySpec /\ RegistryFairness

\* A deadline that has come is honoured: the alarm claims the row, or someone
\* else settles it first.  Slow or dying handlers, restarts, other rows that
\* are due and the limit on concurrent cleanups only delay this.
DueRowsAreClaimed ==
  \A s \in Sandboxes : Due(row[s], now) ~> ~Due(row[s], now)

\* Until its lease ends, only its holder changes the row of a runner under
\* cleanup: no second cleanup starts, and none is called off.
RunnerLeaseIsExclusive ==
  [][ \A s \in Sandboxes, t \in Tokens :
        /\ row[s].token = t /\ row[s].by # "orphan"
        /\ now < row[s].due /\ row'[s] # row[s]
        => claim[t] # NoClaim /\ claim'[t] = NoClaim ]_registryVars
=============================================================================
