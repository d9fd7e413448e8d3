---------------------------- MODULE RunnerCleanup ----------------------------
(***************************************************************************)
(* The Workers that start runners and clean them up (src/src/worker.js):   *)
(* the start route, the runner's callback, and the cleanups of the         *)
(* registry's alarm, POST /reconcile, the reclaim route and the orphan     *)
(* route.  Each is a sequence of calls to other actors, the registry, the  *)
(* capacity ledger, GitHub and the sandbox, that change between the calls. *)
(*                                                                         *)
(* The sandboxes here, Later included, serve deliveries of one runner     *)
(* request, so they share the name under which GitHub knows their runners. *)
(* A registration is identified by the sandbox it was made for.            *)
(*                                                                         *)
(* RunnerRegistry is the registry in full; here a row keeps what the       *)
(* Workers depend on, and of a deadline only whether it is set and past.   *)
(* The scope of a runner, page budgets and logging are left out, and so    *)
(* are orphans that have no row, and with it no name to look up.           *)
(***************************************************************************)
EXTENDS Integers

CONSTANTS
  Sandboxes,           \* sandbox identifiers (UUIDs, never reused)
  Later,               \* sandboxes of later deliveries, of which only the
                       \* runner is followed
  Tokens,              \* cleanup tokens (UUIDs)
  None,                \* no token, requester or sandbox
  RegistrationDelete,  \* RUNNER_REGISTRATION_DELETE is not "off"
  MaxCleanupAttempts,  \* MAX_CLEANUP_ATTEMPTS
  MaxFaults,           \* bound of the calls that fail, Workers that die and
                       \* leases that pass while their cleanup goes on
  MaxRequests          \* bound of the operators' requests that claim

\* Who asks for a cleanup
Requesters == {"alarm", "callback", "startup-failure", "reconcile", "orphan"}

ASSUME CleanupConstants ==
  /\ None \notin Sandboxes \cup Later \cup Tokens \cup Requesters
  /\ Sandboxes \cap Later = {}
  /\ RegistrationDelete \in BOOLEAN
  /\ MaxCleanupAttempts \in Nat \ {0}
  /\ MaxFaults \in Nat /\ MaxRequests \in Nat

VARIABLES
  row,           \* the registry's row of each sandbox
  lease,         \* the ledger's reservation of each sandbox
  start,         \* how far the start route has come with each sandbox
  container,     \* what runs in each sandbox, of Later too
  booting,       \* the sandboxes with a startProcess under way
  killing,       \* the sandboxes with a destroy that nobody waits for
  registration,  \* what GitHub holds under the request's name
  cleanup,       \* the cleanups under way, by token
  faults,        \* the faults so far
  requests,      \* the operators' requests that claimed
  concealed      \* where a refused destroy was reported as done

rows == <<row, lease>>
world == <<container, booting, killing, registration>>
tallies == <<faults, requests, concealed>>
cleanupVars == <<rows, start, world, cleanup, tallies>>

-----------------------------------------------------------------------------
(***************************************************************************)
(* Rows.  due is "never", "later" or "now" (past); busy says whether a     *)
(* cleanup found the runner busy, and whether that was MAX_BUSY_POSTPONE   *)
(* ago.                                                                    *)
(***************************************************************************)
NoRow == [state |-> "none", due |-> "never", token |-> None, by |-> None,
          attempts |-> 0, busy |-> "no"]

Live(r) == r.state \in {"starting", "online", "destroying"}
Free(r) == r.state \in {"starting", "online"} /\ r.token = None
Parked(r) == r.state = "destroying" /\ r.due = "never"

Started == [NoRow EXCEPT !.state = "starting", !.due = "later"]

Queued(r, by) ==
  [r EXCEPT !.state = "destroying", !.token = None, !.by = by,
            !.due = IF by = "callback" THEN "later" ELSE "now"]

Claimed(r, token, by) ==
  [r EXCEPT !.state = "destroying", !.token = token, !.due = "later",
            !.by = by]

\* Mutant: attempts are counted beyond their limit.
AttemptsUncapped(n) == n + 1

\* Only whether the limit has been reached matters.
Attempts(n) == IF n < MaxCleanupAttempts THEN n + 1 ELSE n

Retried(r) ==
  [r EXCEPT !.token = None,
            !.due = IF r.attempts >= MaxCleanupAttempts
                      THEN "never" ELSE "later"]

Completed(r) ==
  [r EXCEPT !.state = "destroyed", !.due = "never", !.token = None,
            !.by = None]

\* Mutant: a cleanup that is put off leaves the row without a deadline.
PostponedForGood(r, state, by) ==
  [r EXCEPT !.state = state, !.token = None, !.due = "never",
            !.by = IF state = "destroying" THEN by ELSE None, !.attempts = 0]

\* postponeBusyCleanup gives the row back as the claim found it.
Postponed(r, state, by) ==
  [r EXCEPT !.state = state, !.token = None, !.due = "later",
            !.by = IF state = "destroying" THEN by ELSE None, !.attempts = 0]

SetRow(s, r) == row' = [row EXCEPT ![s] = r]

-----------------------------------------------------------------------------
(***************************************************************************)
(* GitHub and the sandboxes.  raced marks a job that the runner took after *)
(* a cleanup had made its last check of whether there was one.             *)
(***************************************************************************)
NoRegistration == [of |-> None, status |-> "offline", raced |-> FALSE]
Registered(s) == registration.of = s
Running(s) == container[s] \in {"up", "late"}
Known == Sandboxes \cup Later
Working(s) == Registered(s) /\ registration.status = "busy" /\ Running(s)

\* The cleanups that will no longer see a job that s takes now.
PastLook(t, s) ==
  \/ /\ cleanup[t].sandbox = s
     /\ cleanup[t].pc \in {"own-delete", "delete", "own-destroy", "destroy"}
  \/ cleanup[t].gated = s /\ cleanup[t].pc \in {"own-delete", "delete"}

\* startProcess takes effect, perhaps after the sandbox was destroyed.
Boot(s) ==
  /\ s \in booting
  /\ booting' = booting \ {s}
  /\ container' = [container EXCEPT ![s] = IF @ = "none" THEN "up" ELSE "late"]
  /\ registration' = IF Registered(s)
                       THEN [registration EXCEPT !.status = "online"]
                       ELSE registration
  /\ UNCHANGED <<rows, start, killing, cleanup, tallies>>

TakeJob(s) ==
  /\ Registered(s) /\ Running(s) /\ registration.status = "online"
  /\ registration' = [registration EXCEPT
                        !.status = "busy",
                        !.raced = \/ s \in killing
                                 \/ \E t \in Tokens : PastLook(t, s)]
  /\ UNCHANGED <<rows, start, container, booting, killing, cleanup, tallies>>

\* The runner's process ends.  A job that is done takes the registration of
\* its single-use runner with it; a crash leaves it as it was.
LaterEnds(x) ==
  /\ Registered(x)
  /\ registration' = NoRegistration
  /\ UNCHANGED <<rows, start, container, booting, killing, cleanup, tallies>>

RunnerEnds(s) ==
  /\ Running(s)
  /\ container' = [container EXCEPT
                     ![s] = IF @ = "up" THEN "ended" ELSE "spent"]
  /\ registration' \in {registration}
                         \cup (IF Working(s) THEN {NoRegistration} ELSE {})
  /\ UNCHANGED <<rows, start, booting, killing, cleanup, tallies>>

\* GitHub notices that a runner is no longer connected.
RunnerMissed ==
  /\ registration.of # None /\ ~Running(registration.of)
  /\ registration.status # "offline"
  /\ registration' = [registration EXCEPT !.status = "offline"]
  /\ UNCHANGED <<rows, start, container, booting, killing, cleanup, tallies>>

\* A destroy that a cleanup no longer waits for takes effect.
KillLands(s) ==
  /\ s \in killing
  /\ killing' = killing \ {s}
  /\ container' = [container EXCEPT ![s] = "gone"]
  /\ UNCHANGED <<rows, start, booting, registration, cleanup, tallies>>

-----------------------------------------------------------------------------
(***************************************************************************)
(* The start route.  The listener has reserved capacity, removed an idle   *)
(* registration of the same name, made a new one, and posts the start; it  *)
(* waits for the answer twice as long as the route takes at most.          *)
(***************************************************************************)
Register(s) ==
  /\ registration.status # "busy"
  /\ \A x \in Sandboxes : start[x] \in {"none", "watching", "over"}
  /\ registration' = [NoRegistration EXCEPT !.of = s]

Deliver(s) ==
  /\ start[s] = "none"
  /\ Register(s)
  /\ start' = [start EXCEPT ![s] = "posted"]
  /\ lease' = [lease EXCEPT ![s] = "reserved"]
  /\ UNCHANGED <<row, container, booting, killing, cleanup, tallies>>

\* A later delivery of the request starts its runner, ...
DeliverLater(x) ==
  /\ container[x] = "none" /\ \A s \in Sandboxes : start[s] # "none"
  /\ Register(x)
  /\ container' = [container EXCEPT ![x] = "up"]
  /\ UNCHANGED <<rows, start, booting, killing, cleanup, tallies>>

\* ... which connects.
LaterConnects(x) ==
  /\ Registered(x) /\ Running(x) /\ registration.status = "offline"
  /\ registration' = [registration EXCEPT !.status = "online"]
  /\ UNCHANGED <<rows, start, container, booting, killing, cleanup, tallies>>

\* The ledger's alarm, or the listener, ends a reservation before it is
\* consumed; what they do later changes nothing here.
LeaseEnds(s) ==
  /\ lease[s] = "reserved" /\ start[s] \in {"posted", "recorded"}
  /\ lease' = [lease EXCEPT ![s] = "released"]
  /\ UNCHANGED <<row, start, world, cleanup, tallies>>

Fault ==
  /\ faults < MaxFaults /\ faults' = faults + 1
  /\ UNCHANGED <<requests, concealed>>

StartGoes(s, stage) == start' = [start EXCEPT ![s] = stage]

\* markStartCreated, refused when the reservation has ended, and then
\* recordStarting; a Worker that dies between them leaves what one that dies
\* before them does.
RecordStarting(s) ==
  /\ start[s] = "posted"
  /\ IF lease[s] = "reserved"
       THEN StartGoes(s, "recorded") /\ SetRow(s, Started)
       ELSE StartGoes(s, "over") /\ UNCHANGED row
  /\ UNCHANGED <<lease, world, cleanup, tallies>>

\* The reservation is not the one the request describes: it is given back.
StartMismatched(s) ==
  /\ start[s] = "posted" /\ lease[s] = "reserved"
  /\ lease' = [lease EXCEPT ![s] = "released"]
  /\ StartGoes(s, "over")
  /\ Fault
  /\ UNCHANGED <<row, world, cleanup>>

\* consume, and startProcess at once when it is granted
ConsumeAndStart(s) ==
  /\ start[s] = "recorded"
  /\ IF lease[s] = "reserved"
       THEN /\ lease' = [lease EXCEPT ![s] = "consumed"]
            /\ booting' = booting \cup {s}
            /\ StartGoes(s, "launching")
       ELSE StartGoes(s, "unwind") /\ UNCHANGED <<lease, booting>>
  /\ UNCHANGED <<row, container, killing, registration, cleanup, tallies>>

\* startProcess failed, or CONTAINER_START_BUDGET_MS passed: the start goes
\* on, for nothing cancels it.
StartGivenUp(s) ==
  /\ start[s] = "launching"
  /\ StartGoes(s, "unwind")
  /\ booting' \in {booting, booting \ {s}}
  /\ UNCHANGED <<rows, container, killing, registration, cleanup, tallies>>

StartAnswered(s) ==
  /\ start[s] = "launching" /\ s \notin booting
  /\ StartGoes(s, "watching")
  /\ UNCHANGED <<rows, world, cleanup, tallies>>

\* observeJitRunnerReadiness: the runner said that it is ready ...
MarkOnline(s) ==
  /\ start[s] = "watching"
  /\ LET marked == row[s].state = "starting" /\ row[s].token = None IN
     /\ SetRow(s, IF marked THEN [row[s] EXCEPT !.state = "online"]
                            ELSE row[s])
     /\ StartGoes(s, IF marked THEN "over" ELSE "unwind")
  /\ UNCHANGED <<lease, world, cleanup, tallies>>

\* ... or it did not in time.
NotReady(s) ==
  /\ start[s] = "watching"
  /\ StartGoes(s, "unwind")
  /\ UNCHANGED <<rows, world, cleanup, tallies>>

\* scheduleFailedRunnerCleanup; a row that is already claimed, queued or
\* destroyed is left to its owner
ScheduleCleanup(s) ==
  /\ start[s] = "unwind"
  /\ SetRow(s, IF Free(row[s]) THEN Queued(row[s], "startup-failure")
                               ELSE row[s])
  /\ StartGoes(s, "over")
  /\ UNCHANGED <<lease, world, cleanup, tallies>>

\* A call of the start route fails, or its Worker dies.
StartFails(s) ==
  /\ start[s] \in {"posted", "recorded", "launching", "watching", "unwind"}
  /\ StartGoes(s, "over")
  /\ Fault
  /\ UNCHANGED <<rows, world, cleanup>>

\* destroyCompletedRunner: the container reports that its runner has ended,
\* perhaps more than once; a cleanup that was parked is re-armed.
Callback(s) ==
  /\ container[s] = "ended"
  /\ Free(row[s]) \/ Parked(row[s])
  /\ SetRow(s, IF Parked(row[s]) THEN [row[s] EXCEPT !.due = "now"]
                                 ELSE Queued(row[s], "callback"))
  /\ UNCHANGED <<lease, start, world, cleanup, tallies>>

-----------------------------------------------------------------------------
(***************************************************************************)
(* Cleanups.  A cleanup keeps the row as its claim found it (state, from), *)
(* the registration that it means to delete (gated), whether it overrides  *)
(* a runner that has been busy too long (forced), and whether its lease    *)
(* has passed, if it minds (late).  pc is the next call it makes.          *)
(***************************************************************************)
NoCleanup == [pc |-> "none", sandbox |-> None, route |-> "none", by |-> None,
              state |-> "none", from |-> None, gated |-> None,
              forced |-> FALSE, late |-> FALSE]

Target(t) == cleanup[t].sandbox
Holds(t) == row[Target(t)].state = "destroying" /\ row[Target(t)].token = t
ForOrphan(t) == cleanup[t].by = "orphan"

\* A claim draws a token that nobody uses; which one makes no difference.
FreshToken(t, s) ==
  LET unused == {u \in Tokens : /\ cleanup[u] = NoCleanup
                                /\ \A x \in Sandboxes \ {s} :
                                     row[x].token # u}
  IN t \in unused /\ t = CHOOSE u \in unused : TRUE

Begin(t, s, route, by) ==
  cleanup' = [cleanup EXCEPT ![t] =
    [NoCleanup EXCEPT !.pc = "look", !.sandbox = s, !.route = route,
                      !.by = by, !.state = row[s].state, !.from = row[s].by]]
Goes(t, pc) == cleanup' = [cleanup EXCEPT ![t].pc = pc]
GoesGated(t, pc) ==
  cleanup' = [cleanup EXCEPT ![t].pc = pc, ![t].gated = registration.of]
Ends(t) == cleanup' = [cleanup EXCEPT ![t] = NoCleanup]
Runs(t, pc) == cleanup[t].pc = pc

\* A deadline passes: the row is due, or its claim's lease is over, which
\* counts as a fault when the cleanup that claimed it still runs.  An active
\* row's deadline, hours away, outlasts the start route.
DeadlinePasses(s) ==
  LET slow == {t \in Tokens : Target(t) = s /\ Holds(t)} IN
  /\ row[s].due = "later"
  /\ Free(row[s]) => start[s] = "over"
  /\ SetRow(s, [row[s] EXCEPT !.due = "now"])
  /\ cleanup' = [t \in Tokens |->
                   IF t \in slow /\ ForOrphan(t)
                     THEN [cleanup[t] EXCEPT !.late = TRUE] ELSE cleanup[t]]
  /\ IF slow = {} THEN UNCHANGED tallies ELSE Fault
  /\ UNCHANGED <<lease, start, world>>

\* MAX_BUSY_POSTPONE_MS pass since the runner was first found busy.
BusyTooLong(s) ==
  /\ row[s].busy = "seen"
  /\ SetRow(s, [row[s] EXCEPT !.busy = "long"])
  /\ UNCHANGED <<lease, start, world, cleanup, tallies>>

\* runRunnerRegistryAlarm claims a row that is due.
AlarmClaim(s, t) ==
  LET by == IF row[s].by = None THEN "alarm" ELSE row[s].by IN
  /\ Live(row[s]) /\ row[s].due = "now"
  /\ FreshToken(t, s)
  /\ SetRow(s, [Claimed(row[s], t, by) EXCEPT !.attempts = Attempts(@)])
  /\ Begin(t, s, "alarm", by)
  /\ UNCHANGED <<lease, start, world, tallies>>

Request(s, t) ==
  /\ requests < MaxRequests /\ requests' = requests + 1
  /\ FreshToken(t, s)
  /\ UNCHANGED <<lease, start, world, faults, concealed>>

ClaimForReconcile(s, t, route) ==
  /\ Live(row[s])
  /\ row[s].by = None \/ row[s].due # "later"
  /\ row[s].token = None \/ row[s].due = "now"
  /\ SetRow(s, Claimed(row[s], t, "reconcile"))
  /\ Begin(t, s, route, "reconcile")
  /\ Request(s, t)

\* POST /reconcile, for a runner that its earlier listing did not show busy
ReconcileClaim(s, t) == ClaimForReconcile(s, t, "reconcile")

\* The reclaim route, for a sandbox that Cloudflare does not list
ReclaimClaim(s, t) == ClaimForReconcile(s, t, "reclaim")

\* The orphan route claims a sandbox whose row is terminal.
OrphanClaim(s, t) ==
  /\ row[s].state = "destroyed"
  /\ SetRow(s, Claimed(row[s], t, "orphan"))
  /\ Begin(t, s, "orphan", "orphan")
  /\ Request(s, t)

-----------------------------------------------------------------------------
(***************************************************************************)
(* executeClaimedRunnerCleanup, for a runner: look, destroy the sandbox,   *)
(* check again, delete the registration, settle, release the capacity.     *)
(***************************************************************************)
LookUp(t) ==
  /\ Runs(t, "look") /\ ~ForOrphan(t)
  /\ IF registration.of = None
       THEN Goes(t, "destroy")
       ELSE GoesGated(t, CASE registration.status = "busy" -> "postpone-busy"
                           [] /\ registration.status = "online"
                              /\ cleanup[t].route = "reclaim"
                                -> "postpone-online"
                           [] OTHER -> "destroy")
  /\ UNCHANGED <<rows, start, world, tallies>>

\* postponeBusyCleanup: the claim ends, unless the runner has been busy too
\* long.  A claim that was lost meanwhile ends the cleanup as well.
Postpone(t) ==
  LET s == Target(t)
      busy == Runs(t, "postpone-busy")
      r == Postponed(row[s], cleanup[t].state, cleanup[t].from)
  IN
  /\ cleanup[t].pc \in {"postpone-busy", "postpone-online"}
  /\ IF Holds(t) /\ busy /\ row[s].busy = "long"
       THEN /\ cleanup' = [cleanup EXCEPT
                 ![t].pc = IF ForOrphan(t) THEN "look" ELSE "destroy",
                 ![t].forced = TRUE]
            /\ UNCHANGED row
       ELSE /\ Ends(t)
            /\ SetRow(s, IF ~Holds(t) THEN row[s]
                         ELSE IF busy /\ r.busy = "no"
                           THEN [r EXCEPT !.busy = "seen"] ELSE r)
  /\ UNCHANGED <<lease, start, world, tallies>>

\* Where a destroy that was reported as done leads
AfterDestroy(t) == IF ForOrphan(t) \/ cleanup[t].gated = None
                     THEN "settle" ELSE "recheck"

\* The orphan cleanup's phases end with its lease.
Destroy(t) ==
  /\ Runs(t, "destroy")
  /\ ForOrphan(t) => ~cleanup[t].late
  /\ container' = [container EXCEPT ![Target(t)] = "gone"]
  /\ Goes(t, AfterDestroy(t))
  /\ UNCHANGED <<rows, start, booting, killing, registration, tallies>>

\* Mutant: a destroy that failed counts as done.
AfterFailedDestroyDone == "settle"

AfterFailedDestroy == "retry"

\* The destroy is not answered in time, and may still take effect.
DestroyTimesOut(t) ==
  /\ Runs(t, "destroy")
  /\ killing' = killing \cup {Target(t)}
  /\ Goes(t, AfterFailedDestroy)
  /\ Fault
  /\ UNCHANGED <<rows, start, container, booting, registration>>

\* withConfirmedDestroy: the platform refused, which the SDK conceals and
\* the wrapper reports ...
DestroyRefused(t) ==
  /\ Runs(t, "destroy") /\ Target(t) \notin killing
  /\ Goes(t, AfterFailedDestroy)
  /\ Fault
  /\ UNCHANGED <<rows, start, world>>

\* ... unless another destroy of the sandbox is still under way: the wrapper
\* takes this one for a call within that one, and whatever it notes is thrown
\* by that one, to nobody.
DestroyRefusalConcealed(t) ==
  /\ Runs(t, "destroy") /\ Target(t) \in killing
  /\ ForOrphan(t) => ~cleanup[t].late
  /\ concealed' = concealed \cup {Target(t)}
  /\ Goes(t, AfterDestroy(t))
  /\ UNCHANGED <<rows, start, world, faults, requests>>

\* Mutant: the second check does not look whether the runner is busy.
RecheckDeletesBusy(t) ==
  /\ Registered(cleanup[t].gated)
  /\ \/ cleanup[t].forced
     \/ registration.status # "online" \/ cleanup[t].route # "reclaim"
  /\ RegistrationDelete

\* The second check finds the registration of the first, free to be deleted.
RecheckDeletes(t) ==
  /\ Registered(cleanup[t].gated)
  /\ \/ cleanup[t].forced
     \/ registration.status = "offline"
     \/ registration.status = "online" /\ cleanup[t].route # "reclaim"
  /\ RegistrationDelete

Recheck(t) ==
  /\ Runs(t, "recheck")
  /\ Goes(t, IF RecheckDeletes(t) THEN "delete" ELSE "settle")
  /\ UNCHANGED <<rows, start, world, tallies>>

Delete(t) ==
  /\ Runs(t, "delete")
  /\ ForOrphan(t) => ~cleanup[t].late
  /\ registration' = IF Registered(cleanup[t].gated)
                       THEN NoRegistration ELSE registration
  /\ Goes(t, IF ForOrphan(t) THEN "own-destroy" ELSE "settle")
  /\ UNCHANGED <<rows, start, container, booting, killing, tallies>>

\* settleCleanupClaim("complete"); a claim that was lost leads to a retry
\* that changes nothing.
Settle(t) ==
  LET s == Target(t) IN
  /\ Runs(t, "settle")
  /\ SetRow(s, IF Holds(t) THEN Completed(row[s]) ELSE row[s])
  /\ Goes(t, IF Holds(t) THEN "release" ELSE "retry")
  /\ UNCHANGED <<lease, start, world, tallies>>

\* releaseDestroyedRunnerReservation
Release(t) ==
  LET s == Target(t) IN
  /\ Runs(t, "release")
  /\ lease' = [lease EXCEPT ![s] = IF @ = "none" THEN "none" ELSE "released"]
  /\ Ends(t)
  /\ UNCHANGED <<row, start, world, tallies>>

\* retryCleanupClaim
Retry(t) ==
  LET s == Target(t) IN
  /\ Runs(t, "retry")
  /\ SetRow(s, IF Holds(t) THEN Retried(row[s]) ELSE row[s])
  /\ Ends(t)
  /\ UNCHANGED <<lease, start, world, tallies>>

-----------------------------------------------------------------------------
(***************************************************************************)
(* executeClaimedOrphanCleanup: look twice, delete the registration, then  *)
(* destroy the sandbox, each after asking whether the claim is still its   *)
(* own.  A failed phase gives the claim up: the route abandons it, which   *)
(* restores the terminal row, and the alarm retries it.                    *)
(***************************************************************************)
GivesUp(t) == IF cleanup[t].route = "orphan" THEN "abandon" ELSE "retry"

OrphanLook(t) ==
  LET busy == registration.status = "busy" /\ ~cleanup[t].forced
      online == registration.status = "online" /\ ~cleanup[t].forced
                /\ cleanup[t].route = "alarm"
  IN
  /\ cleanup[t].pc \in {"look", "relook"} /\ ForOrphan(t)
  /\ ~cleanup[t].late
  /\ IF registration.of # None /\ (busy \/ online)
       THEN Goes(t, IF busy /\ cleanup[t].route = "alarm"
                      THEN "postpone-busy" ELSE GivesUp(t))
     ELSE IF Runs(t, "look") THEN Goes(t, "relook")
     ELSE IF registration.of = None THEN Goes(t, "own-destroy")
     ELSE GoesGated(t, "own-delete")
  /\ UNCHANGED <<rows, start, world, tallies>>

\* The registration is not as the operator described it.
OrphanMismatch(t) ==
  /\ cleanup[t].pc \in {"look", "relook"} /\ cleanup[t].route = "orphan"
  /\ Goes(t, "abandon")
  /\ UNCHANGED <<rows, start, world, tallies>>

\* revalidateOrphanCleanupClaim
Revalidate(t) ==
  LET s == Target(t)
      own == Holds(t) /\ row[s].by = "orphan" /\ row[s].due = "later"
  IN
  /\ cleanup[t].pc \in {"own-delete", "own-destroy"}
  /\ IF ~own THEN IF cleanup[t].route = "orphan" THEN Goes(t, "abandon")
                                                 ELSE Ends(t)
     ELSE Goes(t, IF Runs(t, "own-destroy") THEN "destroy"
                  ELSE IF RegistrationDelete THEN "delete" ELSE "own-destroy")
  /\ UNCHANGED <<rows, start, world, tallies>>

LeaseOver(t) ==
  /\ ForOrphan(t) /\ cleanup[t].late
  /\ cleanup[t].pc \in {"look", "relook", "delete", "destroy"}
  /\ Goes(t, GivesUp(t))
  /\ UNCHANGED <<rows, start, world, tallies>>

\* settleCleanupClaim("abandon"), and when the claim is no longer held
\* settleUnownedOrphanCleanupClaim, which asks for no token
Abandons(s) ==
  SetRow(s, IF row[s].state = "destroying" /\ row[s].by = "orphan"
              THEN Completed(row[s]) ELSE row[s])

Abandon(t) ==
  /\ Runs(t, "abandon")
  /\ Abandons(Target(t))
  /\ Ends(t)
  /\ UNCHANGED <<lease, start, world, tallies>>

-----------------------------------------------------------------------------
(* Faults. *)

\* A call of a cleanup fails.  A release, a postponement and the two ways to
\* give a claim up are not tried again.
CallFails(t) ==
  /\ cleanup[t].pc \notin {"none", "destroy"}
  /\ CASE cleanup[t].pc \in {"postpone-busy", "postpone-online", "release",
                             "retry", "abandon"} -> Ends(t)
       [] cleanup[t].pc = "settle" -> Goes(t, "retry")
       [] OTHER -> Goes(t, GivesUp(t))
  /\ Fault
  /\ UNCHANGED <<rows, start, world>>

\* The settlement takes effect, and its reply is lost.
SettledUnheard(t) ==
  /\ Runs(t, "settle") /\ Holds(t)
  /\ SetRow(Target(t), Completed(row[Target(t)]))
  /\ Goes(t, "retry")
  /\ Fault
  /\ UNCHANGED <<lease, start, world>>

\* The orphan route's claim takes effect, and its reply is lost: the route
\* gives up a claim of which it knows no more than the request said.
OrphanClaimUnheard(s) ==
  /\ Abandons(s) /\ row' # row
  /\ Fault
  /\ UNCHANGED <<lease, start, world, cleanup>>

CleanupDies(t) ==
  /\ cleanup[t] # NoCleanup
  /\ Ends(t)
  /\ Fault
  /\ UNCHANGED <<rows, start, world>>

-----------------------------------------------------------------------------
CleanupInit ==
  /\ row = [s \in Sandboxes |-> NoRow]
  /\ lease = [s \in Sandboxes |-> "none"]
  /\ start = [s \in Sandboxes |-> "none"]
  /\ container = [s \in Known |-> "none"]
  /\ booting = {} /\ killing = {} /\ concealed = {}
  /\ registration = NoRegistration
  /\ cleanup = [t \in Tokens |-> NoCleanup]
  /\ faults = 0 /\ requests = 0

\* The steps of a start to which nothing untoward happens
StartStep(s) ==
  \/ RecordStarting(s) \/ ConsumeAndStart(s) \/ StartGivenUp(s)
  \/ StartAnswered(s) \/ MarkOnline(s) \/ NotReady(s)
  \/ ScheduleCleanup(s)

Start(s) == StartStep(s) \/ Deliver(s) \/ StartMismatched(s) \/ StartFails(s)

Environment(s) ==
  \/ Boot(s) \/ KillLands(s) \/ Callback(s) \/ LeaseEnds(s)
  \/ DeadlinePasses(s) \/ BusyTooLong(s) \/ OrphanClaimUnheard(s)

Runner ==
  \/ \E s \in Known : TakeJob(s)
  \/ \E s \in Sandboxes : RunnerEnds(s)
  \/ \E x \in Later : DeliverLater(x) \/ LaterConnects(x) \/ LaterEnds(x)
  \/ RunnerMissed

Claiming(s, t) ==
  \/ AlarmClaim(s, t)
  \/ ReconcileClaim(s, t) \/ ReclaimClaim(s, t)
  \/ OrphanClaim(s, t)

\* The steps of a cleanup to which nothing untoward happens
Step(t) ==
  \/ LookUp(t) \/ Postpone(t) \/ Destroy(t) \/ Recheck(t) \/ Delete(t)
  \/ Settle(t) \/ Release(t) \/ Retry(t)
  \/ OrphanLook(t) \/ Revalidate(t) \/ LeaseOver(t) \/ Abandon(t)

Failing(t) ==
  \/ DestroyTimesOut(t) \/ DestroyRefused(t) \/ DestroyRefusalConcealed(t)
  \/ OrphanMismatch(t) \/ CallFails(t)
  \/ SettledUnheard(t) \/ CleanupDies(t)

CleanupNext ==
  \/ \E s \in Sandboxes : Start(s) \/ Environment(s)
  \/ Runner
  \/ \E s \in Sandboxes, t \in Tokens : Claiming(s, t)
  \/ \E t \in Tokens : Step(t) \/ Failing(t)

CleanupSpec == CleanupInit /\ [][CleanupNext]_cleanupVars

-----------------------------------------------------------------------------
RowType ==
  [state : {"none", "starting", "online", "destroying", "destroyed"},
   due : {"never", "later", "now"}, token : Tokens \cup {None},
   by : Requesters \cup {None}, attempts : 0 .. MaxCleanupAttempts,
   busy : {"no", "seen", "long"}]

CleanupType ==
  [pc : {"look", "postpone-busy", "postpone-online", "destroy", "recheck",
         "delete", "settle", "release", "retry", "relook", "own-delete",
         "own-destroy", "abandon"},
   sandbox : Sandboxes, route : {"alarm", "reconcile", "reclaim", "orphan"},
   by : Requesters, from : Requesters \cup {None},
   state : {"none", "starting", "online", "destroying", "destroyed"},
   gated : Known \cup {None}, forced : BOOLEAN, late : BOOLEAN]

\* Every variable has its type.
CleanupTypeOK ==
  /\ row \in [Sandboxes -> RowType]
  /\ lease \in [Sandboxes -> {"none", "reserved", "consumed", "released"}]
  /\ start \in [Sandboxes -> {"none", "posted", "recorded", "launching",
                              "watching", "unwind", "over"}]
  /\ container \in [Known -> {"none", "up", "ended", "gone",
                                  "late", "spent"}]
  /\ booting \subseteq Sandboxes /\ killing \subseteq Sandboxes
  /\ concealed \subseteq Sandboxes
  /\ registration \in [of : Known \cup {None}, raced : BOOLEAN,
                       status : {"offline", "online", "busy"}]
  /\ cleanup \in [Tokens -> CleanupType \cup {NoCleanup}]
  /\ faults \in 0 .. MaxFaults /\ requests \in 0 .. MaxRequests

\* A terminal row means that the sandbox was destroyed, whatever cleanups
\* failed, died, were taken over or called off before, but for a refusal that
\* was concealed: what runs there now can only be a start that nobody
\* cancelled and that came after the destroy (worker.js:4151).
DestroyedMeansGone ==
  \A s \in Sandboxes : row[s].state = "destroyed" /\ s \notin concealed
                         => container[s] \in {"gone", "late", "spent"}

\* "Make `destroy()` fail when the platform refused to bind a container
\* instance, instead of reporting success" (runner-sandbox.js:24): no row is
\* terminal while the runner it was made for is still up.
NoneSurvivesItsDestroy ==
  \A s \in Sandboxes : row[s].state = "destroyed" => container[s] # "up"

\* A job that a runner takes while no cleanup has passed its last check is
\* never cut short, neither by destroying its sandbox nor by deleting its
\* registration, by a cleanup of its own sandbox or of an earlier one of the
\* same request, unless a cleanup found the runner busy for too long.
JobsSurvive ==
  [][ \A s \in Known :
        /\ Working(s) /\ ~registration.raced
        /\ \/ container'[s] = "gone"
           \/ \E t \in Tokens : Delete(t) /\ registration' # registration
        => \/ s \in Sandboxes /\ row[s].busy = "long"
           \/ \E t \in Tokens : cleanup[t].forced
                                /\ s \in {Target(t), cleanup[t].gated}
    ]_cleanupVars

\* "Recheck the gated identity and guards before deleting by ID so a later
\* sandbox cannot inherit this deletion" (worker.js:3368): a cleanup deletes
\* no registration but its own sandbox's.
LaterRegistrationKept ==
  [][ \A t \in Tokens : Delete(t) /\ registration' # registration
                          => Registered(Target(t)) ]_cleanupVars

\* Time passes, the alarm rings, and a start or a cleanup that meets no fault
\* goes on.
CleanupFairness ==
  /\ \A s \in Sandboxes :
       /\ WF_cleanupVars(StartStep(s))
       /\ WF_cleanupVars(DeadlinePasses(s))
       /\ WF_cleanupVars(BusyTooLong(s))
       /\ WF_cleanupVars(\E t \in Tokens : AlarmClaim(s, t))
  /\ \A t \in Tokens : WF_cleanupVars(Step(t))

LiveCleanupSpec == CleanupSpec /\ CleanupFairness

\* Every runner comes to an end: its sandbox is destroyed, or its cleanup has
\* failed so often that it waits for the operator.  Runners that stay busy,
\* lost callbacks, given-up starts, Workers that die and claims that are
\* taken over only delay this.
RunnersEnd ==
  \A s \in Sandboxes : Live(row[s]) ~> ~Live(row[s]) \/ Parked(row[s])
=============================================================================
