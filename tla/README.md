# gha-cloudflare-runner in TLA+

This directory holds the verification development of gha-cloudflare-runner: TLA+
modules translated from the JavaScript of the repository, the TLC configurations
that check them on small instances, and the theorems that TLAPS proves for every
value of the constants. `src/...` below is a path of the repository.

## 1. The system

The repository runs ephemeral GitHub Actions runners in Cloudflare containers. A
Durable Object (DO) is a single-threaded actor with a private SQLite database and
one alarm; a Worker is a stateless HTTP handler that calls DOs.

| Component | State | Operations | Talks to |
| --- | --- | --- | --- |
| **AutopilotControl** DO (`autopilot-control.js`) | `reservations`, the local gate and its generation, the capacity approval, waves, the alarm | `reserve`, `markStartCreated`, `consume`, `compensate`, `releaseBySandbox`, `closeGate`, `openGate`, `recordCapacityApproval`, `setActiveWave`, `alarm` | called by the listener (reserve, compensate), by the start route (consume), by operators |
| **OutageGate** Worker and DO (`outage-gate/src/gate.js`) | gate state, epoch, signed permits | `permit`, `close`, `open` | called by the listener before each reservation; runs in another account on purpose |
| **ScaleSetListener** DO (`scaleset-listener.js`) | message cursor, inbox, acquisition intents, dispatch outbox, cancellations, pace, admission limit, recoveries, mode, session, alarm | the alarm loop (poll, commit, acknowledge, acquire, settle, scale up, dispatch), `stop`, `drain`, `resume`, `rearm`, `resetAdmission` | long-polls GitHub, calls OutageGate, AutopilotControl, the start route and RunnerRegistry |
| **RunnerRegistry** DO (`worker.js` 330-2400) | one row per sandbox, two tables of observations, the alarm | `recordStarting`, `markOnline`, the `begin*Cleanup` calls, `claimForReconcile`, `claimOrphanCleanup`, `observeOrphanReclaim`, `settleCleanupClaim`, `postponeBusyCleanup`, `alarm`, `pruneTerminalRows` | called by the start route, the sandbox callback, the operator routes and its own alarm |
| **Executors and routes** (`worker.js` 2400-6446) | none of their own | start a runner; destroy one under a claim; reconcile; destroy an orphan; reclaim | GitHub's registrations, the sandboxes, the registry, the ledger |
| **Sandbox wrapper** (`runner-sandbox.js`) | the container | destroy with confirmation, exit callback | the registry through the callback route |
| **Scale-set client** (`scaleset-client.js`, `scaleset-protocol.js`) | tokens and budgets of one call | session and message calls, parsing | GitHub |
| **Registration cleanup** (`registration-cleanup*.js`) | none | pages through stale GitHub registrations and removes them | GitHub |
| **Scripts and workflows** | none | orphan audit and destruction, approvals, health watch, rescue of queued runs | the routes above |

How a runner comes to be: the listener polls a message, commits it, acquires the
jobs and stores a dispatch row; for the row it asks OutageGate for a permit, gives
the permit to `reserve`, obtains a JIT configuration from GitHub and posts the start
route; that route consumes the reservation, records the sandbox in the registry and
starts the container. The runner's exit callback queues the cleanup; the registry's
alarm claims the row, destroys the sandbox, and the ledger's slot is released.

What is hard about it: every call between actors is an `await` during which the rest
moves on; clocks are read by the caller and compared by the callee; permits,
reservations, claims and observations all expire; every actor may be evicted between
two steps; and operators act on the same rows by hand.

What makes each component correct:

- ledger: never more live reservations than the ceiling and the approval allow, a
  request holds at most one, a permit pays for at most one start, nothing starts while
  the gate is closed, and every slot comes back;
- gate: one valid permit per request, and none outlives a closing by more than its TTL;
- registry: a cleanup has one holder at a time, no row is left without a way forward,
  and no deadline is left without an alarm;
- listener, requests: none is lost, started twice or started after its cancellation;
  every reservation it took is released or left to the backstop;
- listener, life: a running listener has an alarm and polls again or stops; one that
  was stopped polls no more, and only a resume starts it again;
- scale-up: a round adds no more than is missing, however old its view of the supply is,
  and no limit it learned keeps a pool short of runners for ever;
- executors: a terminal row means a destroyed sandbox, no job is cut short by a cleanup
  that could have seen it, and every runner comes to an end.

## 2. Modules

| Module | Models | Instantiated by |
| --- | --- | --- |
| `AutopilotControl` | the ledger DO | `MCAutopilotControl` |
| `AutopilotControlProofs` | theorems about the ledger; that it implements the leases | - |
| `CapacityLease` | what the ledger promises, with no clock, permit or gate | `LedgerRefinement` |
| `LedgerRefinement` | the mapping from the ledger to the leases | `MCAutopilotControl` |
| `OutagePermits` | what the ledger and the gate share: the clock and the permits signed | the two |
| `OutageGate` | the gate's DO | `MCAdmission` |
| `OutageGateProofs` | theorems about the gate | - |
| `Admission` | ledger and gate composed: the ledger's permits are the gate's | `MCAdmission` |
| `AdmissionProofs` | the refinement, and what closing the gate alone achieves | - |
| `RunnerRegistry` | the registry DO and the holders of its claims | `MCRunnerRegistry` |
| `RunnerRegistryProofs` | theorems about the registry | - |
| `RunnerCleanup` | the Workers that start and clean up runners, with sandboxes and GitHub | `MCRunnerCleanup` |
| `RunnerCleanupProofs` | theorems about starts and cleanups | - |
| `ListenerDispatch` | the listener DO from a message to the end of a request | `MCListenerDispatch` |
| `ListenerDispatchProofs` | theorems about the way of a request | - |
| `ListenerLifecycle` | the listener DO's alarm handler, session, recovery and mode | `MCListenerLifecycle` |
| `AnsweredStop` | the same with a history of what `stop()` has answered | itself |
| `ListenerLifecycleProofs` | theorems about the alarm handler and the mode | - |
| `ScaleUp` | the listener DO's decision to start runners, and its learned limit | `MCScaleUp` |
| `ScaleUpProofs` | theorems about the scale-up | - |

The parts that are not modelled yet are in section 5; `PROJECT.json` lists every part
with its status.

### AutopilotControl

`rows` is the reservations table by identifier, `spent` the table of consumed permits,
`gate`, `generation`, `approved` and `activeWave` the control state, `alarm` the DO
alarm, `issued` the permits signed so far and `now` the platform clock. `reserve` and
`consume` await WebCrypto between reading their arguments and their transaction, so
each is two actions: `ReserveCall`/`ReserveCommit` and `ConsumeCall`/`ConsumeCommit`,
with `call` holding what the first half knew (its clock reading among it). Everything
else is one transaction and one action. The sweep that each transaction begins with
is part of every action (`Swept`), as is the alarm each one ends with (`NextAlarm`).
A permit is a record of the request it was signed for and its validity; signatures,
hashes and tokens are abstracted to knowing the reservation.

### CapacityLease and LedgerRefinement

A lease is free, granted to a request, started and over, in this order; at most `Limit`
are held, one by a request, and a step may call in any of those held. `LedgerRefinement`
reads the ledger as leases: `Stage` maps `unborn` to free, `reserved` and
`start-created` to granted, `consumed` to started and the rest to over; `Holder` is the
request of a live row. The sweep at the start of a transaction is what calls leases in,
and that is why a grant may call in others in the same step.

### OutageGate

`/permit` is `PermitRequest`, `PermitLookup` (first transaction: prune and look for a
permit to return) and `PermitInsert` (second transaction, after the signature: check
the gate and the epoch again and store). `Close` and `Open` move the epoch.

### Admission

Both modules, with the ledger's `SignPermit` replaced by the gate's `PermitInsert`. They
share what `OutagePermits` declares, the clock and the permits signed, and nothing else: a
step is the gate's or the ledger's, or time passes for both. It checks that the gate behaves
as the ledger's model assumes its environment does, and the end-to-end promise of closing.

### RunnerRegistry

`row` is the runners table; a column that holds a time is `Never` when NULL. `claim`
keeps, for every token handed out, what its holder was told: that is all the state an
executor needs, so alarm handlers and Workers are claims that are settled in any way
their code can (`RetryClaim`, `CompleteClaim`, `AbandonOrphan`, `PostponeCleanup`) or
never (`DropClaim`). The times callers send are up to `MaxLag` old. `AlarmClaims` is
the claiming loop of `runRunnerRegistryAlarm`: it awaits nothing but storage, so all
its claims are one turn. `PruneTerminalRows` ends every alarm. `Restart` is the
eviction of the object, which takes the alarm handler along; the constructor sets the
alarm again.

### RunnerCleanup

`RunnerRegistry` asks what the registry's transactions do to a row in any order;
`RunnerCleanup` follows the Workers that call them, one action per call and its answer.
Its rows keep what those Workers depend on: the state, the claim, who asked for it, and of
the deadline only whether it is unset, ahead or past (`due`). `start[s]` is the start route
up to its readiness watch (`StartStep`), `cleanup[t]` the cleanup that holds token `t`,
whose `pc` names the call it is about to make: `LookUp`, `Destroy`, `Recheck`, `Delete`,
`Settle`, `Release` for the alarm, the callback, `POST /reconcile` and the reclaim route,
and `OrphanLook` to `Abandon` for the orphan route. Around them are the sandbox
(`container`, a start that is still booting, a destroy that nobody waits for any more) and
GitHub's registration. Any call may fail or its Worker die (`Failing`), and a lease may
pass while its cleanup goes on, `MaxFaults` times in all.

A claim draws the first token that nobody uses (`FreshToken`): tokens are only ever compared
for equality, so which one it draws makes no difference, and the runs need no symmetry.

The sandboxes are those of one request's deliveries. They share a runner name, so GitHub
holds one registration for all of them; `Later` are deliveries whose runner is followed
but not their row. `runner-sandbox.js` is the three ways a destroy can fail:
`DestroyTimesOut`, `DestroyRefused` and `DestroyRefusalConcealed`.

### ListenerDispatch

`mode`, `inbox`, `intent`, `cancelled` and `row` are tables of the DO and survive an
eviction; `chain`, `phase`, `loop` and `drain` are its memory and do not. A *frame*
(`[pc |-> ..., ...]`) is what one suspended piece of code knows: `pc` names the await it
is at, the other fields are the local variables it will still use. Four pieces of code
run at once and touch the same rows:

| Frames | Code | Actions |
| --- | --- | --- |
| `chain[r]` | `#dispatchOne` to `#issueStart`, one per request (`dispatchInFlight`), launched and not awaited | `DispatchOne`, then permit, ledger, registration, JIT, control status, start, lookup (`PermitRefused` ... `StartFound`), and the compensations `ReleaseAtLedger`, `Released` |
| `phase`, `loop` | the alarm handler: poll, `#processMessage`, `#acquireForMessage`, the maintenance passes, `#compact` | `HandlerStarts` ... `HandlerEnds`, `PollMessage` ... `ResumeIntended`, `RunnerCompleted`, `SettleExpired`, `ReclaimUndelivered`, `Probe*`, `LoopReleaseAtLedger`, `LoopReleased` |
| `drain` | `drain()` and the alarm of a drained listener | `DrainCalled`, `SettleBegins` ... `SettleEnds` |
| none | `resume()`, `scaleUpToStatistics` | `Resume`, `ScaleUp` (only the row it inserts) |

An await is two actions where the other side changes state in between: the ledger
reserves (`LedgerReserves`) and the reply arrives (`Reserved`) or does not
(`ReserveFails`); it releases (`ReleaseAtLedger`) and the reply arrives (`Released`) or
does not (`ChainThrows`). A start request is sent by `IssueStart` in the step that has
just looked for a cancellation; the Worker then records it, refuses it or loses it
(`WorkerAnswers`), starts the runner (`WorkerStarts`, which consumes the reservation),
ends and releases it, all while the chain may have stopped waiting. `#updateOutbox`
writes by request identifier and not by the row that was read, and so does `Put`:
that is where the interleavings bite.

The ledger here is one live reservation per request, as `AutopilotControl` proves;
`LeaseExpires` is its alarm. GitHub's queue delivers the oldest message that has not been
deleted, again and again; a message offers a request or reports that it ended. The clock
is the age of a request: `fresh`, past its start deadline (`late`), past the clean-up
horizon (`aged`). Left out: the quarantine of malformed messages, the rotation stamps of
the passes, the dispatch width, `jit_config`'s content, and the session (a poll succeeds
or does not happen; `ListenerLifecycle` has it).

### ListenerLifecycle

`mode`, `session`, `recovery` and `alarm` are storage; `handler` is the one alarm handler
and `call` the operator requests in flight, each a frame as above. The handler yields at
its calls of GitHub, the ledger and the gate (`control`, `creating`, `polling`,
`refreshing`, `working`, `closing`, `deleting`, `settling`), and `stop`, `drain`, `resume`
run there and yield too, while they wait for the handler (`stopWait`, `drainWait`), delete
the session or settle the rows. A frame keeps the session identifier its code read before
the await. `server` is the session that GitHub holds, which may be one the listener never
learned of. A recovery record counts its attempts up to `MaxTries`; its pause ends at some
moment (`PauseEnds`), and it may be found too old whenever it is read. `ExitHandler` is the
handler's `finally`, which repairs the alarm from the mode it finds. Evictions, rearms and
full storages happen `MaxIntrusions` times in all. Rows and messages are one bit here,
`work`.

`AnsweredStop` adds a variable that the code does not have: whether `stop()` has answered
`stopped: true` and nobody has resumed the listener since.

### ScaleUp

What counts here is how many rows there are of each kind, so `rows` maps a stage of an outbox
row, and whether the ledger holds a live reservation for it, to a number. The stages are what
the listener's counts tell apart: `#unreservedOutboxCount` sees rows without a reservation
identifier (`waiting`, `asking`), `#activeOutboxCount` those whose state is active, the ledger
those it has reserved for, known to the row or not. The census sees the rows that contend, a
`recent` one that was released after its delivery, and takes for never spawned a `suspect`:
started, past its deadline, and its last probe answered. A row may also hold back its JIT
state from the census, so that count is any in `ContendingCounts`.

`round` is the round's await of the control status: `AskStatus` is the call, and `Allocates`,
`AllocatesNothing` or `RoundGivesUp` all that follows it in one turn. In between chains go on
(`LedgerGrants` ... `Throws`), while the other work of the loop does not (`~round.asked`).
`round.open` is no state of the code: it is the number of `reserve()` requests that the ledger
had still to answer when it gave the round its status (`Coming`). The limit is learned by
`TakesCensus` and `ObservesRefusal`, which lower it, and `ObservesDelivery`, which raises it
once the deliveries are many enough, the limit is what holds the pool back (`limited`), and it
has lasted long enough.

A message may cancel a row (`Cancels`: `#commitMessage` does, for a job that was cancelled or
that another runner completed) while its chain awaits the ledger or is past it. The row is in
no count then (`cancelled`, `dropped`), but the chain goes on, and the write of the reply or of
the JIT configuration makes it active again (`withdrawn`) until `#cancelDispatch` has released
its reservation. A `reserve()` that throws at the listener, or whose chain is evicted, may
reach the ledger later; `astray` counts such requests, which `LateRequest` answers when the
row may long be gone. A request for a row whose reservation stands is only replayed, and is
not counted.

Messages bring statistics, and now and then a job with a row of its own. Left out: the start
pace, which only delays `Launch`; and the errors of configuration, which refuse every round
until they are mended.

## 3. Checked

Every constant of a `.cfg` is a bound except the policy constants, which are scaled
down and keep the order they have in the code. Times are small integers. Every run that
is expected to pass ends with the state space exhausted.

| Run | Question | Bounds |
| --- | --- | --- |
| `ledger` | do old clock readings, or a gate that closes and opens between the halves of a call, break the ledger? can admission pass the ceiling or the approval? does every slot come back? is the ledger a lease? | 2 requests, 2 reservations for a ceiling of 1, 2 permits, 1 call, 3 clock values, 2 changes of the gate; no symmetry |
| `admission` | can two valid permits exist, or one survive a closing? does closing the gate alone end the starts? may a request hold two reservations? | 1 request, 2 reservations, 2 permits, 1 call of the ledger and 2 of the gate, 3 clock values, 2 epochs |
| `registry_rows` | is each row well formed, each lease exclusive, each deadline covered? | 1 sandbox, 1 instance, 2 tokens, 5 clock values, callers 1 tick late, 2 changes by callers |
| `registry_live` | is every deadline honoured? | 2 sandboxes, 1 cleanup at a time, no symmetry |
| `runner_cleanup` | does terminal mean destroyed, are jobs cut short, does every runner end? | 1 sandbox and 1 of a later delivery, 2 cleanups, 1 fault, 1 operator request, 1 attempt; no symmetry |
| `dispatch` | can a request be started twice, lost, started after its end, or lose its reservation? | 1 request, 2 messages, 1 redelivery, 2 reservations, 1 eviction, 1 drain with a resume |
| `dispatch_live` | is every row decided, and every reservation given back? | 1 row of scale-up, 1 reservation, 1 eviction, any number of throws |
| `lifecycle` | does a stopped listener poll, does a stop hold, is a running one armed, does it poll again or stop? | 1 operator request, 4 sessions, 1 kind of fault from outside, 2 attempts, 1 intrusion |
| `scale_up` | does a round overshoot, does a learned limit latch? | ceiling 2, width 2, 1 delivery to raise the limit, 2 reports, 1 row of a message, 1 row that outlives its reservation, is cancelled under its chain, or leaves a request behind |
| `answered_stop` | a statement of the repository that the code does not keep (section 6) | as `lifecycle` |
| `cleanup_registration`, `cleanup_refusal` | two more | as `runner_cleanup`, the second without the later delivery |

Why these bounds are enough for the questions. The ledger's capacity needs one
reservation more than the ceiling, and one that ends while another is admitted; its gate
needs a closing and an opening around a call in flight. TLC runs one call of the ledger
at a time against its transactions, its alarm and its gate; that any number may overlap
is what the theorems of section 4 add. The gate needs two calls for one request across
one closing and one opening. The registry's rows do not interact except through the
alarm, the capacity count and the limit on concurrent cleanups, which is why the row
properties run with one sandbox and the alarm's with two; two tokens give a holder and a
rival. `MaxRevision` bounds only what callers may do to a row, never the alarm or a
settlement, so that it cannot hide a stuck row.

In `RunnerCleanup` sandboxes meet only in the registration they share, so one sandbox
with its cleanups and the runner of one later delivery is the smallest instance where
that can go wrong. Two cleanups are a holder and whoever takes its claim over. One fault
is enough for every single failing call, death, or outlived lease; two in one run are not
checked. One attempt means that the first failure parks the row, which is the case that
leaves the least room; the retries it skips are the registry's (`DueRowsAreClaimed`).

Requests do not interact in `ListenerDispatch`: every table is keyed by the request,
the ledger's rows too, and the loop's frame names one request at a time. So one request
is enough, and what matters is the number of its deliveries (two, as
`MAX_REQUEST_REDELIVERIES` allows more but each repeats the step from one to the next),
of its reservations (a second one is needed for every property about a released one)
and of its messages (two offers, or an offer and the report of its end). The pass
reads a row, releases it and marks it in three turns, and one eviction may fall between
any two.

In `ListenerLifecycle` every race is between the handler and what overtakes it at an await, so
one operator request against it shows each. That requests may overtake each other, any number
of them, is what the theorems of section 4 add. `Sessions` has enough identifiers that a new
session never gets one that storage, GitHub or a frame still remembers (`Fresh`). `Faults`
names the conditions that the surroundings produce without being asked; the others arise from
the session's own conflicts and expiry, which are always on.

`ScaleUp` has a ceiling of two, the least for which a limit of one binds, and two chains, the
least for which one of them can overtake a round while the other is refused. The reports ask
for no runner, or for the whole ceiling while GitHub has an idle runner, which counts only as
long as the pool has none of its own. The approved capacity bounds the rows that hold a
reservation; `MaxLingering` bounds together the rows that outlive theirs, the chains of
cancelled rows, and the requests left behind: each of these alone is enough for what it can do
to a round or to the first limit, which is learned from rows and may lie beyond the ceiling;
more of them only make the numbers larger. The proofs have neither bound.

**Fairness.** `LiveSpec` and `RegistryLiveSpec` assume that a due alarm is delivered (the
platform retries alarms until they run) and, for the registry, that a claim's holder
does not keep it for ever without settling or dying (every executor runs under request
and alarm limits). The clock of the ledger's run passes because time does; no caller is
assumed to act.

`LiveDispatchSpec` assumes that the alarm comes back (the handler's exit invariant rearms
it, and the cron's `rearm` does when that fails), that its loop comes to the work of a
round again and again, that the passes there rotate through the rows (their stamps do
that), that each call ends with a reply or a throw, and that the ledger and the Worker's
registry, asked again and again, answer at last. It is strong fairness for these two: a
call may fail any number of times, not each time for ever. The run has no drain: a drained
listener keeps what a failed row holds until it is resumed or the ledger's horizon ends it.

`LifecycleFairness`: a due alarm is delivered, an await of the handler ends (each call has
a time limit), the pause of a recovery passes, and the outage gate, asked to close again and
again, does not refuse for ever (strong). No call is assumed to succeed but that one. Left
out is the session creation that uses up the alarm's call budget: a handler of its own
follows, with nothing changed.

`ScaleUpFairness`: the listener's loop comes round and asks for the status. Not every round
runs out of its time, launches nothing, or finds a row whose calls throw; not every start
stays unanswered; and a runner ends, or the backstop of its row and of its reservation does
(strong fairness for all of these, because each is interrupted by evictions and by the rest of
the loop). Neither deliveries nor a message that lowers the demand are assumed: the floor
alone must let a starved pool start.

`CleanupFairness`: deadlines pass, the alarm rings, a busy runner has been busy for too
long at last, and a start or a cleanup that meets no fault goes on. Operators, callbacks
and the runners themselves are not assumed to do anything. A lease lasts
`CLEANUP_CLAIM_STALE_MS` (90 s) and a destroy times out after 60 s, so a cleanup that
outlives its lease counts as a fault. Nothing is assumed of GitHub in any run.

**Where statements stop.** Three properties of `dispatch` (`OneDeliveryPerReservation`,
`ConsumedLeaseIsTracked`, `ChainKeepsItsRow`) hold until a drain is resumed (`NotResumed`).
When `resume()` comes before the drain's settlement is over, the settlement cancels and
releases rows that new chains are dispatching, and all three fail; the code says nothing of
the case. The model remembers only that a drain was resumed, not when, so the properties
also say nothing after a resume that waited. One more case is left out of them: after a late
start, the chain is still releasing the reservation of a row that has already failed
(`#recordDeadlineExceededAfterStart`, `scaleset-listener.js:4893`) when the loop releases it
first and a new message makes the row again; the mark "released" then falls on the new row.
So the first two speak of deliveries beside which no other start was recorded:
`OneDeliveryPerReservation` lets two deliveries share a reservation only if the start of a
third was recorded, and `ConsumedLeaseIsTracked` is about a request's only recorded start.
With one redelivery, as in the run, the first excuses nothing. `RunningIsArmed`
excepts the settlement of a drain that a resume overtook, and an eviction between the
handler's last two awaits; the cron's rearm mends both. `DestroyedMeansGone` excepts the
concealed refusal of section 6, and `JobsSurvive` a job taken after the cleanup's last
look, which no cleanup could have seen.

Each property of a passing run has a mutant in `PROJECT.json`: a definition of the
model changed as a slip in the code would, defined next to the original and marked
"Mutant". It makes the property fail.

## 4. Proved

`AutopilotControlProofs` proves for all constants that satisfy the module's
assumptions, with no bound on clock, generations, calls or permits beyond those named:

- `TypeCorrect`, `LedgerTypeOK`: the types.
- `GateStopsStarts`: a runner starts only while the local gate is open and from a
  reservation of the present generation.
- `TimestampsStayConsistent`: the sweep never takes a live row for a corrupt one.
- `AlarmAlwaysCovers`: each live row is covered by an alarm that comes in time.
- `OneReservation`: a request never holds two live reservations.
- `CapacityHolds`, `ApprovalHolds`: admission stays within the ceiling and the approval.
- `PermitsFundOnce`: a permit pays for at most one start, for ever.

The argument: `TypeInv`, `ClockInv`, `GateInv` and `PermitInv` are inductive.
`ClockInv` is what old clock readings need: a call's reading is never ahead of the
platform clock, so a row is never stamped in the future, and the alarm set by an old
reading is early rather than late. `GateInv` ties each live row to a generation not
above the gate's. `PermitInv` says that the reservation which spent a permit stays in
the table for as long as the permit can still be verified, because pruning waits
longer than a permit lives. Capacity is shown per admission: sweeping with an old
clock can only keep more rows, so the count is never too small.

It ends with `LedgerGrantsLeases`: the ledger implements `CapacityLease`. With the theorems
above as invariants, each step is sorted by what it does to a row: it is admitted
(`GrantRefined`: what the transaction sweeps are the leases called in, and the count it makes
of the rest is an upper bound of those held), it is consumed (`StartRefined`), or it stays or
ends (`QuietRefined`). A reader of the ledger can thus reason from a module of two variables:
whatever the clocks and permits, a lease is granted within the ceiling, one to a request,
started at most once, and never revived.

`OutageGateProofs` proves of the gate, for any number of calls, permits and epochs:

- `OnePermit`: overlapping `/permit` calls never leave a request with two valid permits.
  The strengthening is `ValidPermitHasRow`: each permit still valid is in the row of its
  request. Pruning with an old clock deletes no valid permit, and the second transaction
  inserts only where there is none.
- `ClosingEndsPermits`: no permit outlives the closing by more than its TTL. It needs
  `CallsBounded` (a call's clock reading is in the past, and it signs for at most the TTL
  from there) and `PermitsBounded`.

`AdmissionProofs` puts the two together:

- `GateIsAsAssumed`: the composition implements the ledger's specification. Each step of
  the gate is a stutter of the ledger or its `SignPermit`; that a permit is never signed
  for more than the TTL is the invariant this needs. So all theorems about the ledger
  hold of the composition.
- `ClosingDrainsStarts`: once `PERMIT_TTL_MS` have passed since the gate was closed, and the
  calls of `consume()` from before have returned, nothing starts until the gate is opened. The
  first part is `StartsWithinPermit`: a start's row is backed by a permit (`PermitInv`, through
  the refinement) that the gate signed before it closed, and the reading of its caller's clock
  lies within that permit. The second is that a call cannot be drained and come back
  (`ClockAdvances`). The condition on the calls is needed: `consume()` compares the row with
  the clock of its caller (`autopilot-control.js:944`), so a slow call may start a runner
  later than the TTL.

`RunnerRegistryProofs` proves of the registry, for any number of sandboxes, claims and
holders, and with the only relation between its delays that a caller's clock lags by less
than the retry delay:

- `RegistryTypes`, `RowsStayWellFormed`: a row is either swept by its deadline, or under a
  claim with a lease, or parked after its last attempt, or terminal; no due row is locked.
- `AlarmAlwaysCoversTables`: no deadline of the three tables is without an alarm.
- `LeaseIsExclusive`: until a lease ends, only its holder changes the row.

The inductive invariant (`RegistryInv`) adds to these what the steps rely on: nothing
recorded lies in the future (`Past`, so that an expiry can be computed from it), a sandbox
the object has not met has no row (`Unmet`), and a holder that may give a row back knows
who had asked for its cleanup (`ClaimsKnow`, without which a postponed cleanup would be
left without an asker). Each helper that writes a row keeps it well formed by a lemma of
its own, and each step but the clock's sets the alarm anew or leaves every deadline alone
(`AlarmSet`). That an earliest deadline exists is an instance of well-foundedness.

`ListenerLifecycleProofs` proves of the alarm handler, for any number of operator requests,
sessions, retries and faults:

- `LifecycleTypes`: the types.
- `PollingEnds`: once a stop or a drain has gone on, no handler uses a session behind it.
- `RunnersAreArmed`: a running listener has an alarm, or a handler that sets one.
- `StopsHold`: a deliberate stop ends only by `resume()`, or by a handler that fails while some
  `stop()` still waits for it and writes its own reason over the operator's. No rearm, drain or
  alarm ends it.

The strengthening follows the handler's way: while it may still come to a use of the
session in a listener that does not run, some request is waiting for it (`LoopInv`); in a
deliberately stopped listener nobody waits for, it can do nothing but end (`StopInv`); and
it ends as disabled only if the deployed version is (`DisabledInv`). The proofs assume that
GitHub does not run out of session identifiers, which `LifecycleAssumption` states by their
number.

`ScaleUpProofs` proves of the scale-up, for any number of rows, chains, reports and ceilings:

- `ScaleUpTypes`: the types; a count that is decremented stays a count.
- `LimitHasAFloor`: the limit never falls below `MIN_ADMISSION_LIMIT`.
- `RoundsFit`: a round adds no more than is missing, but for the requests that the ledger has
  answered since it gave its status.

Rows are counted as the cells of their table (`Cells`), so that the supply is the
cardinality of a set, and a step of a row adds and removes one cell (`Moves`). The
strengthening is `SeenOrOpen`: while a round waits, the live reservations and the requests
that may still become one are together no more than they were when it asked. Each step of a
row is sorted by whether its cell counts before and after (`RowStepKeeps`): a grant, a reply, a
failure, a cancelled chain's progress and an eviction move a request or end it, and none adds
one, because rows are launched and cancelled between rounds only. A row without a reservation
identifier is then counted by the round itself and any other live one by the ledger's answer
or among the requests answered since, and the arithmetic of `#scaleUpToStatistics` does the
rest (`AdmittedFits`, `AllocationFits`).

`ListenerDispatchProofs` proves of the way of a request, for any number of requests,
messages, redeliveries, reservations, drains and evictions:

- `DispatchTypes`: the types.
- `StartedIsRecorded`: a started row has a recorded start, of its own delivery.
- `GrantedIsKept`: a granted acquisition has its row.
- `NoStartAfterTheEnd`: no start is sent once the report of the end is committed.
- `ReservationsAreNotShared`, `ConsumedIsTracked`, `ChainsKeepTheirRows`: the three
  properties of a request whose drain nobody has resumed.

The last invariants are far from inductive, because each is about the row while four pieces
of code hold a copy of it. The invariant (`DispatchInv`) therefore says what each frame
knows. `FramesOK` gives the frames their types. `PhaseInv` says who can be in flight in which
phase, which is what makes the compaction harmless to chains. `OrderInv` says that messages
are sent and taken in order and a request's report last, and with it `EndInv` says that an
ended request is not acquired again and that what is still active of it is cancelled, so that
the check `IssueStart` makes is enough although the cancellation may since have been
compacted. The rest is per request. `Always` holds through any resume: rows and intents
(`RowInv`), the identifiers the ledger has drawn and those it has ended (`LeaseInv`), and that
a clean-up release follows a recorded start (`CleanupInv`). `Undisturbed` holds until a
resume: a chain's copy is right about the reservation and its row is active or cancelled
(`ChainInv`), an active row has its acquisition (`IntentInv`), a young row that was never
started is not marked released (`MarkInv`), the live reservation that a lone delivery sent is
the one its row holds and whoever releases releases that one (`SentInv`), and no other
delivery has sent what the row holds (`ShareInv`).

The nineteen steps of a chain are first summed up by their effect on the one request
(`ChainHasEffect`: which frame may follow which, when a row may change state, when a
reservation is drawn, when a start is sent), and the invariant is proved from that effect. The
steps of the others touch one request in a few ways; `Harmless` says which changes of a
request keep its part of the invariant, and `OneRequest` reduces a step to the request it
is about. `DispatchInv` was checked by TLC on the bounds of `dispatch` and on larger ones
before it was proved. That search is where the exception in `OneDeliveryPerReservation` comes
from (section 6).

`RunnerCleanupProofs` proves of the executors, for any number of sandboxes, redeliveries,
overlapping cleanups, faults and operators' requests:

- `CleanupTypes`: the types.
- `TerminalRowsAreGone`: a terminal row means that its sandbox was destroyed.
- `JobsAreNotCutShort`: a job that began before a cleanup's last look survives it, unless the
  runner was busy too long.

The invariant (`CleanupInv`) needs one fact for each. A row becomes terminal in three ways: a
cleanup completes it after a destroy, a postponement gives it back as the claim found it, and
the abandonment of an orphan claim restores it without asking for a token. So `RowInv` says
that the sandbox of a row is gone also while an orphan's cleanup has the row (`Settled`), and
`HolderInv` that it is gone for a cleanup that has come past its destroy or that remembers a
terminal or orphan row (`Confirmed`), even when it has lost its claim since. For the
jobs, `JobInv` says that while a job is running that no cleanup could have missed (`Began`), each
cleanup past its last look overrides it, and so did the one that left a destroy behind;
`HolderInv` adds that only a runner that was busy too long is overridden. Each step is then
reduced to what it does to one row (`OneRow`), to one cleanup (`OneCleanup`, `GoingOn`) and to
the world, and `GoesOn` puts the three together. `DestroyedMeansGone` cannot do without its
exception: `Done` counts a concealed refusal as a destroy, which is the finding of section 6.

TLC checks each of these first on the runs above, except the types of the gate and the
floor of the limit, which are only proved.

Only model-checked: all liveness (`SlotEventuallyReturns`, `DueRowsAreClaimed`,
`RunnersEnd`, `RequestsAreDecided`, `CapacityReturns`, `PollsOrStops`,
`StarvedPoolsStart`), which with ENABLED is out of the prover's reach. The theorems are about
the specifications without fairness, which the runs' specifications imply.

## 5. Abstractions and what is not modelled

- A DO method between two awaits that are not storage operations is one step: the
  platform's input gates deliver no other event during storage operations.
- Authentication, signatures, JSON and SQL types: a value is what its field means.
  Malformed requests are refused without a change of state and have no action.
- Storage failures are modelled where the code plans for them as a mode of operation, the
  listener's full storage (`StorageFull`); a throwing `setAlarm` and its compensations are
  not.
- Schema migrations, and rows written by earlier versions, are not modelled.
- The Date clock is one integer, shared; a caller's reading may be old, never ahead. The
  lifecycle and the executors have no clock, only what has passed and what has not.

Not modelled:

- the listener's start pace (`#pacePermits`, `#recordPoolRefusal`): a delay between launches
  that doubles with each refusal of a cold pool, up to `MAX_START_PACE_MS`, and is reset by an
  accepted start. It is bounded, so it only puts `Launch` off;
- in the executors: the listings and budgets by which `POST /reconcile` chooses its
  candidates, and orphans without a row or without a name, for which the orphan route only
  destroys;
- `registration-cleanup*.js`: one pass over a listing of stale registrations with a
  cursor. Its gate is the executors' (look up, compare, delete), its rest is paging;
- the scale-set client and its protocol: no state of their own; the listener's modules
  have each answer and each failure of their calls as an action;
- `runner-policy.js` and `runner-scope.js`: constants and pure validation;
- the operator scripts, which are clients of the routes; the one-shot set-up and signing
  scripts; the workflows, which are schedules of the scripts;
- the container's shell scripts: they appear as a runner that comes online, ends or never
  answers.

## 6. Findings

- **An answered stop may not hold** (`answered_stop`). `stop()` writes its deliberate reason and
  waits for the handler. A handler that meets the kill switch, an exhausted recovery or a
  message it cannot route writes `mode` and `stopped_reason` without looking whether the
  listener has been stopped meanwhile (`scaleset-listener.js:2333`, 2050, 3345). `stop()` then
  answers `stopped: true` all the same (6305), and `rearm()`, which refuses only the deliberate
  reason (6459), runs the listener again. `docs/AUTOPILOT-OPERATIONS.md:1074` says "Resume is
  the only request that can undo a deliberate stop", and line 1024 that "An external rearm
  request cannot undo this deliberate stop". What does hold is `DeliberateStopHolds`.
- **A cleanup can delete the registration of a later sandbox** (`cleanup_registration`).
  The cleanup of a sandbox gates the registration it finds at its first look, by the name
  that all deliveries of the request share, and compares its second look with that one. When
  a redelivery has already replaced the registration (`scaleset-listener.js:4540`), the gated
  one is the later sandbox's, both looks agree, and it is deleted. The comment at
  `worker.js:3367` says that the recheck is there "so a later sandbox cannot inherit this
  deletion". The later runner has no job yet at that moment (`JobsSurvive` holds), but takes
  none either.
- **A refused destroy can be reported as done** (`cleanup_refusal`). The Sandbox wrapper
  notes a refusal of the platform in the outermost `destroy()` under way. An earlier destroy
  that timed out after `DESTROY_TIMEOUT_MS` is still under way, though nobody awaits it; the
  next cleanup's destroy counts as nested in it and returns normally when the platform
  refuses. Its row becomes terminal and the runner stays up, where `runner-sandbox.js:24`
  says that `destroy()` fails "instead of reporting success".

Seen in the models, and not claimed as a disagreement:

- `abandonOrphanCleanupClaim` falls back to `settleUnownedOrphanCleanupClaim`, which asks for
  no token (`worker.js:1557`): an orphan claim can be called off by a caller that does not
  hold it.
- The attempt limit stops only cleanups that settle (`worker.js:1781`): a handler that dies
  each time is retried for ever. The comment at `worker.js:98` speaks of cleanups that fail.
- The settlement of a cleanup commits and its reply is lost (`worker.js:3472`): no later
  cleanup releases the reservation, and it ends with the ledger's horizon.
- The ledger compensates and its reply is lost (`scaleset-listener.js:3990`): the next
  dispatch reserves anew, but the failure it may end in releases the identity it read first,
  and the new reservation is left to the ledger.
- After a late start the mark "released" can fall on the row of the next delivery
  (`scaleset-listener.js:3595` writes by request identifier, and the renewed reservation at
  3955 does not clear the mark). If that delivery's start is then lost and looked up in vain,
  its row fails without a release but passes for released, the guard against redelivery
  (`scaleset-listener.js:2686`) lets the next message through, and a third start is sent on
  the same live reservation. The ledger lets only one of them consume it.
- A reconciled orphan's row counts against `MAX_ACTIVE_RUNNERS` again (`worker.js:1736`).
- A terminal registry row without an instance identifier takes the one the operator
  sends (`worker.js:1196`), where `ORPHAN-RUNBOOK.md:1034` describes a refusal.
- `rearm` deletes the exhausted recovery records of what it revives.
- The reply of a session's creation is lost: GitHub holds a session nobody knows, and each
  creation meets a conflict until it expires or the recovery is exhausted.
- Chains in flight when `drain()` sets the mode still send their starts; `drain()` only
  answers when they have ended (`AUTOPILOT-OPERATIONS.md:1038`).
- `#compact` deletes the redelivery count with the intent, so that a later offer of the
  request bears the first correlation again and the Worker answers with the first runner.
- `drain()` deletes the alarm after awaits in which `resume()` may have set it.
- A message cancels a row whose chain awaits `reserve()` (`scaleset-listener.js:2592`): the row
  leaves `#unreservedOutboxCount`, the ledger may still reserve for it after it has told a round
  its count, and that round starts one runner too many. The reply then writes the row `reserved`
  again (3963), and the chain compensates it. The same holds of a `reserve()` that throws (3941)
  and is carried out later, but that reservation is left to the ledger's horizon.
- The learned limit may exceed `MAX_ACTIVE_RUNNERS` when it is first learned: it is taken from
  rows, and a started row may outlive its reservation (`scaleset-listener.js:3687`). It then
  binds nothing until it has been lowered again.
- The census takes a row for never spawned only when its last probe answered and yet neither
  proved nor ended it, which is the case of an idle runner whose teardown threw
  (`scaleset-listener.js:4442`); the comment at `scaleset-listener.js:4416` calls such an idle
  registration "delivery evidence from GitHub itself".

## 7. Plan

In this order:

1. `ListenerDispatch`, the ledger and the start route composed: `WorkerAnswers` and
   `LeaseExpires` become `RunnerCleanup`'s and `AutopilotControl`'s.
2. An abstract request (`offered`, `starting`, `decided`) that the dispatch implements.
3. The start pace, with a clock, as a refinement of `ScaleUp`'s `Launch`.
4. `RegistrationCleanup` with its cursor and budgets.
