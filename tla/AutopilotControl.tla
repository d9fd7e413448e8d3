-------------------------- MODULE AutopilotControl --------------------------
(***************************************************************************)
(* The AutopilotControl Durable Object (src/src/autopilot-control.js): the *)
(* ledger of capacity reservations that every runner start has to pass.    *)
(*                                                                         *)
(* A reservation is bought with a signed outage permit, turned into a      *)
(* start by markStartCreated, consumed just before the container starts,   *)
(* and ended by compensate, by releaseBySandbox or by the expiry sweep.    *)
(*                                                                         *)
(* A Durable Object is single threaded but gives up its turn at each await *)
(* that is not a storage operation.  reserve() and consume() await the Web *)
(* Crypto calls that verify a permit or a token, so each is two actions    *)
(* here, and anything may happen between them.  The nowMs both use is the  *)
(* caller's clock reading, already old when the transaction runs.          *)
(***************************************************************************)
EXTENDS OutagePermits, FiniteSetsExt

CONSTANTS
  Ids,                \* reservation identifiers (UUIDs, never reused)
  Waves,              \* capacity waves
  Calls,              \* concurrent invocations of reserve() and consume()
  MaxActiveRunners,   \* MAX_ACTIVE_RUNNERS
  ReservationTTL,     \* RESERVATION_TTL_MS
  RunnerHorizon,      \* ACTIVE_RUNNER_CLEANUP_DELAY_MS
  MaxGeneration       \* bound of the gate generation

ASSUME ConstantsAssumption ==
  /\ IsFiniteSet(Ids)
  /\ None \notin Ids \cup Requests \cup Permits \cup Waves
  /\ MaxActiveRunners \in Nat
  /\ ReservationTTL \in Nat \ {0}
  /\ PermitTTL \in Nat
  /\ RunnerHorizon \in Nat
  /\ ReservationTTL <= RunnerHorizon
  /\ MaxNow \in Nat
  /\ MaxGeneration \in Nat

VARIABLES
  gate,         \* control_state.local_gate
  generation,   \* control_state.gate_generation
  approved,     \* control_state.approved_capacity
  activeWave,   \* control_state.active_wave
  rows,         \* the reservations table, by reservation_id
  spent,        \* consumed_outage_permits: permit -> reservation_id
  alarm,        \* the Durable Object alarm
  call          \* the suspended invocations

control == <<gate, generation, approved, activeWave>>
vars == <<now, control, rows, spent, issued, alarm, call>>

(***************************************************************************)
(* Rows.  "unborn" is an identifier not yet drawn, "pruned" one whose row  *)
(* was deleted.  The permit field is a history variable: the code keeps    *)
(* that link only in consumed_outage_permits, until the permit expires.    *)
(* A started row has a sandbox_id of its own, a UUID its start drew, so the *)
(* identifier of the row stands for the sandbox too.                       *)
(***************************************************************************)
LiveStates == {"reserved", "start-created", "consumed"}
Never == -1

Unborn == [state |-> "unborn", request |-> None, gen |-> 0, expires |-> 0,
           requested |-> 0, consumedAt |-> Never, endedAt |-> Never,
           permit |-> None]

Live(row) == row.state \in LiveStates
LiveIds == {r \in Ids : Live(rows[r])}

\* reservationReclaimTimeSql
ReclaimAt(row) ==
  IF row.state = "consumed" THEN row.consumedAt + RunnerHorizon
                            ELSE row.expires

\* reservationTimestampsConsistentSql
TimestampsConsistent(row) ==
  LET stamp == IF row.state = "consumed" THEN row.consumedAt ELSE row.expires
  IN  stamp \in row.requested .. row.requested + ReservationTTL

\* reclaimableReservationSql
Reclaimable(row, t) == ~TimestampsConsistent(row) \/ ReclaimAt(row) <= t

\* Mutant: only started runners count.
CountsAtForgetsReserved(row, t) ==
  row.state = "consumed" /\ row.consumedAt > t - RunnerHorizon

\* liveReservationSql: the rows admission counts at time t
CountsAt(row, t) ==
  \/ row.state = "consumed" /\ row.consumedAt > t - RunnerHorizon
  \/ row.state \in {"reserved", "start-created"} /\ row.expires > t

LiveCount(table, t) == Cardinality({r \in Ids : CountsAt(table[r], t)})

Ended(row, t) == [row EXCEPT !.state = "compensated", !.endedAt = t]

\* #sweepExpiredReservations, its two statements
Swept(table, t) ==
  [r \in Ids |-> IF Live(table[r]) /\ Reclaimable(table[r], t)
                   THEN Ended(table[r], t) ELSE table[r]]
\* Mutant: a spent permit is forgotten one unit before it expires.
UnspentEarly(t) ==
  [p \in Permits |-> IF issued[p].expires <= t + 1 THEN None ELSE spent[p]]

Unspent(t) ==
  [p \in Permits |-> IF issued[p].expires <= t THEN None ELSE spent[p]]

\* A deleted row; the two fields kept are history.
Forgotten(row) == [Unborn EXCEPT !.state = "pruned", !.permit = row.permit,
                                 !.consumedAt = row.consumedAt]

\* #pruneTerminalReservations
Pruned(table, t) ==
  [r \in Ids |-> IF /\ table[r].state = "compensated"
                    /\ table[r].endedAt < t - RunnerHorizon
                   THEN Forgotten(table[r]) ELSE table[r]]

\* Mutant: started runners do not keep the alarm armed.
NextAlarmForgetsConsumed(table, t) ==
  LET alive == {r \in Ids : Live(table[r]) /\ table[r].state # "consumed"} IN
  IF alive = {} THEN Never ELSE Min({ReclaimAt(table[r]) : r \in alive})

\* Mutant: setAlarm(null) where the code calls deleteAlarm().
NextAlarmNull(table, t) ==
  LET alive == {r \in Ids : Live(table[r])} IN
  IF alive = {} THEN None ELSE Min({ReclaimAt(table[r]) : r \in alive})

\* #nextReservationExpiryAtMs and #scheduleReservationAlarm
NextAlarm(table, t) ==
  LET alive == {r \in Ids : Live(table[r])} IN
  IF alive = {} THEN Never
  ELSE IF \E r \in alive : Reclaimable(table[r], t) THEN t
  ELSE Min({ReclaimAt(table[r]) : r \in alive})

(***************************************************************************)
(* The outage gate, as far as this object sees it: a permit names one      *)
(* request and expires within PERMIT_TTL_MS (Admission.tla composes this   *)
(* object with the gate itself).                                           *)
(***************************************************************************)
SignPermit(p, q) ==
  /\ issued[p] = Unsigned
  /\ \E e \in 1 .. now + PermitTTL :
        issued' = [issued EXCEPT ![p] = [request |-> q, expires |-> e]]
  /\ UNCHANGED <<now, control, rows, spent, alarm, call>>

(***************************************************************************)
(* reserve(): the call is checked against the caller's clock and the       *)
(* permit signature, then one transaction sweeps and admits.               *)
(***************************************************************************)
Idle == [op |-> "idle"]

ReserveCall(c, q, w, p) ==
  /\ call[c] = Idle
  /\ issued[p].request = q
  /\ call' = [call EXCEPT ![c] = [op |-> "reserve", request |-> q, wave |-> w,
                                  permit |-> p, at |-> now]]
  /\ UNCHANGED <<now, control, rows, spent, issued, alarm>>

\* verifyOutageGatePermit and the expiry bound of reserve()
PermitVerified(p, t) ==
  /\ issued[p].expires > t
  /\ issued[p].expires <= t + ReservationTTL

\* Mutant: a request whose runner has started may reserve again.
ExistingForgetsConsumed(table, q) ==
  {r \in Ids : /\ table[r].state \in {"reserved", "start-created"}
               /\ table[r].request = q}

Existing(table, q) == {r \in Ids : Live(table[r]) /\ table[r].request = q}

\* Mutant: the approval is compared as a limit, not as a count.
CapacityLeftOffByOne(table, t) ==
  /\ approved # None
  /\ LiveCount(table, t) < MaxActiveRunners
  /\ LiveCount(table, t) <= approved

CapacityLeft(table, t) ==
  /\ approved # None
  /\ LiveCount(table, t) < MaxActiveRunners
  /\ LiveCount(table, t) < approved

\* The refusals of the transaction, after its sweep left table and book
Admits(table, book, f) ==
  /\ gate = "open"
  /\ PermitVerified(f.permit, f.at)
  /\ book[f.permit] = None
  /\ f.wave = activeWave
  /\ CapacityLeft(table, f.at)
  /\ Existing(table, f.request) = {}

NewRow(f) ==
  [state |-> "reserved", request |-> f.request, gen |-> generation,
   expires |-> Min({issued[f.permit].expires, f.at + ReservationTTL}),
   requested |-> f.at, consumedAt |-> Never, endedAt |-> Never,
   permit |-> f.permit]

ReserveCommit(c) ==
  LET f     == call[c]
      table == Swept(rows, f.at)
      book  == Unspent(f.at)
  IN
  /\ f.op = "reserve"
  /\ \/ /\ Admits(table, book, f)
        /\ \E r \in Ids :
             /\ rows[r] = Unborn
             /\ rows'  = [table EXCEPT ![r] = NewRow(f)]
             /\ spent' = [book EXCEPT ![f.permit] = r]
     \/ /\ ~Admits(table, book, f)
        /\ rows' = table
        /\ spent' = book
  /\ alarm' = NextAlarm(rows', f.at)
  /\ call' = [call EXCEPT ![c] = Idle]
  /\ UNCHANGED <<now, control, issued>>

(***************************************************************************)
(* markStartCreated(): one statement; it tests only the row's state.       *)
(***************************************************************************)
\* Mutant: the statement does not test the state.
MarkStartCreatedUntested(r) ==
  /\ rows[r].state \notin {"unborn", "pruned"}
  /\ rows' = [rows EXCEPT ![r].state = "start-created"]
  /\ UNCHANGED <<now, control, spent, issued, alarm, call>>

MarkStartCreated(r) ==
  /\ rows[r].state = "reserved"
  /\ rows' = [rows EXCEPT ![r].state = "start-created"]
  /\ UNCHANGED <<now, control, spent, issued, alarm, call>>

(***************************************************************************)
(* consume(): the row is read and the token's HMAC verified; the           *)
(* transaction reads the row and the gate again.                           *)
(***************************************************************************)
ConsumeCall(c, r) ==
  /\ call[c] = Idle
  /\ rows[r].state \in {"reserved", "start-created"}
  /\ call' = [call EXCEPT ![c] = [op |-> "consume", id |-> r, at |-> now]]
  /\ UNCHANGED <<now, control, rows, spent, issued, alarm>>

\* Mutant: the row is trusted to be swept in time.
ExpiredNever(row, t) == FALSE

Expired(row, t) == row.expires <= t

ConsumeCommit(c) ==
  LET f   == call[c]
      row == rows[f.id]
      current == /\ row.state \in {"reserved", "start-created"}
                 /\ row.gen = generation
      expired == current /\ Expired(row, f.at)
      starts  == /\ current /\ ~expired
                 /\ approved # None
                 /\ row.state = "start-created"
  IN
  /\ f.op = "consume"
  /\ rows' = [rows EXCEPT ![f.id] =
                CASE expired -> Ended(row, f.at)
                  [] starts  -> [row EXCEPT !.state = "consumed",
                                            !.consumedAt = f.at]
                  [] OTHER   -> row]
  /\ alarm' = NextAlarm(rows', f.at)
  /\ call' = [call EXCEPT ![c] = Idle]
  /\ UNCHANGED <<now, control, spent, issued>>

(***************************************************************************)
(* compensate(), releaseBySandbox(): one statement and the rearm.          *)
(***************************************************************************)
Compensate(r) ==
  /\ Live(rows[r])
  /\ rows' = [rows EXCEPT ![r] = Ended(rows[r], now)]
  /\ alarm' = NextAlarm(rows', now)
  /\ UNCHANGED <<now, control, spent, issued, call>>

ReleaseBySandbox(r) ==
  /\ rows[r].state \in {"start-created", "consumed"}
  /\ Compensate(r)

(***************************************************************************)
(* alarm(): the platform clears the alarm it delivers, never early, and    *)
(* the handler sweeps, prunes and arms the next one.                       *)
(***************************************************************************)
RunAlarm ==
  /\ alarm # Never /\ alarm <= now
  /\ rows' = Pruned(Swept(rows, now), now)
  /\ spent' = Unspent(now)
  /\ alarm' = NextAlarm(rows', now)
  /\ UNCHANGED <<now, control, issued, call>>

(***************************************************************************)
(* The operator's and the listener's controls.                             *)
(***************************************************************************)
\* Mutant: closing leaves the generation alone.
CloseGateSameGeneration ==
  /\ gate = "open" /\ generation < MaxGeneration
  /\ gate' = "closed"
  /\ UNCHANGED <<now, generation, approved, activeWave, rows, spent, issued,
                 alarm, call>>

CloseGate ==
  /\ gate = "open" /\ generation < MaxGeneration
  /\ gate' = "closed"
  /\ generation' = generation + 1
  /\ UNCHANGED <<now, approved, activeWave, rows, spent, issued, alarm, call>>

OpenGate ==
  /\ gate = "closed" /\ generation < MaxGeneration
  /\ gate' = "open"
  /\ generation' = generation + 1
  /\ UNCHANGED <<now, approved, activeWave, rows, spent, issued, alarm, call>>

RecordCapacityApproval(n) ==
  /\ n <= MaxActiveRunners
  /\ approved' = n
  /\ UNCHANGED <<now, gate, generation, activeWave, rows, spent, issued,
                 alarm, call>>

SetActiveWave(w) ==
  /\ activeWave' = w
  /\ UNCHANGED <<now, gate, generation, approved, rows, spent, issued,
                 alarm, call>>

\* The object is evicted: suspended invocations are lost, storage is kept.
Evict ==
  /\ call' = [c \in Calls |-> Idle]
  /\ UNCHANGED <<now, control, rows, spent, issued, alarm>>

Tick ==
  /\ now < MaxNow
  /\ now' = now + 1
  /\ UNCHANGED <<control, rows, spent, issued, alarm, call>>

-----------------------------------------------------------------------------
Init ==
  /\ now = 0
  /\ gate = "open" /\ generation = 0
  /\ approved = None /\ activeWave = None
  /\ rows = [r \in Ids |-> Unborn]
  /\ spent = [p \in Permits |-> None]
  /\ issued = [p \in Permits |-> Unsigned]
  /\ alarm = Never
  /\ call = [c \in Calls |-> Idle]

\* What the object itself does; permits and time come from outside.
Step ==
  \/ \E c \in Calls, q \in Requests, w \in Waves, p \in Permits :
        ReserveCall(c, q, w, p)
  \/ \E c \in Calls : ReserveCommit(c)
  \/ \E r \in Ids : MarkStartCreated(r)
  \/ \E c \in Calls, r \in Ids : ConsumeCall(c, r)
  \/ \E c \in Calls : ConsumeCommit(c)
  \/ \E r \in Ids : Compensate(r)
  \/ \E r \in Ids : ReleaseBySandbox(r)
  \/ RunAlarm
  \/ CloseGate
  \/ OpenGate
  \/ \E n \in 0 .. MaxActiveRunners : RecordCapacityApproval(n)
  \/ \E w \in Waves : SetActiveWave(w)
  \/ Evict

Next ==
  \/ \E p \in Permits, q \in Requests : SignPermit(p, q)
  \/ Step
  \/ Tick

Spec == Init /\ [][Next]_vars

\* The platform delivers a due alarm (at least once) and time passes.
Fairness == WF_vars(RunAlarm) /\ WF_vars(Tick)
LiveSpec == Spec /\ Fairness

-----------------------------------------------------------------------------
(***************************************************************************)
(* Properties.                                                             *)
(***************************************************************************)
Row ==
  [state : LiveStates \cup {"unborn", "compensated", "pruned"},
   request : Requests \cup {None}, gen : Nat, expires : Nat, requested : Nat,
   consumedAt : Nat \cup {Never}, endedAt : Nat \cup {Never},
   permit : Permits \cup {None}]

Frame ==
  {Idle}
  \cup [op : {"reserve"}, request : Requests, wave : Waves, permit : Permits,
        at : Nat]
  \cup [op : {"consume"}, id : Ids, at : Nat]

\* The variables keep their types.
TypeOK ==
  /\ now \in Nat
  /\ gate \in {"open", "closed"} /\ generation \in Nat
  /\ approved \in Nat \cup {None}
  /\ activeWave \in Waves \cup {None}
  /\ rows \in [Ids -> Row]
  /\ spent \in [Permits -> Ids \cup {None}]
  /\ issued \in [Permits -> [request : Requests \cup {None}, expires : Nat]]
  /\ alarm \in Nat \cup {Never}
  /\ call \in [Calls -> Frame]

\* A runner request never holds two slots: the transaction of reserve() finds
\* a row another invocation inserted while this one awaited its permit check.
OneLiveReservationPerRequest ==
  \A r1, r2 \in LiveIds : rows[r1].request = rows[r2].request => r1 = r2

\* Live rows never exceed the container limit, whatever the approvals, the
\* stale clocks and the concurrent invocations (MAX_ACTIVE_RUNNERS).
WithinMaxActiveRunners == Cardinality(LiveIds) <= MaxActiveRunners

\* A reservation is admitted only inside the approval in force at that step,
\* counting every live row, though reserve() counts with an older clock.
AdmittedWithinApproval ==
  [][ \A r \in Ids :
        rows[r].state = "unborn" /\ rows'[r].state = "reserved"
          => Cardinality(LiveIds') <= approved ]_vars

\* Closing the gate stops every start not consumed yet: consume() never tests
\* local_gate, the generation alone must do it, also after a reopening.
ConsumedOnlyInItsGeneration ==
  [][ \A r \in Ids :
        rows[r].state # "consumed" /\ rows'[r].state = "consumed"
          => gate = "open" /\ rows[r].gen = generation ]_vars

\* An outage permit funds at most one started runner, though the record that
\* it was spent is deleted at its expiry and a stale reserve() may then win.
PermitFundsOneStart ==
  \A r1, r2 \in Ids :
    /\ rows[r1].consumedAt # Never /\ rows[r2].consumedAt # Never
    /\ rows[r1].permit = rows[r2].permit
    => r1 = r2

\* Every stored row passes the sweep's own consistency test, so the sweep
\* never takes a running runner's slot as "timestamps-inconsistent".
LiveTimestampsConsistent == \A r \in LiveIds : TimestampsConsistent(rows[r])

\* Each live reservation has an alarm no later than its reclaim time (or due
\* already), whatever mix of stale calls armed it last: no slot can leak.
AlarmCoversLiveReservations ==
  \A r \in LiveIds :
    /\ alarm # Never
    /\ alarm <= ReclaimAt(rows[r]) \/ alarm <= now

\* A reservation that is never started loses its slot, and so does a consumed
\* one whose runner never reports its end: the alarm chain never breaks.
SlotEventuallyReturns ==
  \A r \in Ids :
    /\ (/\ rows[r].state \in {"reserved", "start-created"}
        /\ rows[r].expires <= MaxNow) ~>
         rows[r].state \in {"consumed", "compensated", "pruned"}
    /\ (rows[r].state = "consumed" /\ ReclaimAt(rows[r]) <= MaxNow) ~>
         rows[r].state \in {"compensated", "pruned"}
=============================================================================
