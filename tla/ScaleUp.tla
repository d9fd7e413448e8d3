------------------------------ MODULE ScaleUp ------------------------------
(***************************************************************************)
(* How the listener decides how many runners to start                      *)
(* (src/src/scaleset-listener.js: #scaleUpToStatistics and the learned     *)
(* admission limit).                                                       *)
(*                                                                         *)
(* Once in each round of its loop the listener compares what GitHub says   *)
(* is assigned with its supply, and adds rows to the outbox for what is    *)
(* missing.  It reads the supply from the ledger, over an await, while up  *)
(* to MAX_DISPATCH_CONCURRENCY chains are reserving, starting and failing  *)
(* rows.  The pool's refusals, and starts that never showed a runner,      *)
(* lower a learned limit on the supply; completed jobs raise it again.     *)
(*                                                                         *)
(* Rows are interchangeable here and only counted, by their stage and by   *)
(* whether the ledger holds a live reservation for them.  What a row goes  *)
(* through is ListenerDispatch's; the pace only delays Launch and is left  *)
(* out, and so are the configuration errors that refuse every round.       *)
(***************************************************************************)
EXTENDS Integers, FiniteSets

CONSTANTS
  MaxActiveRunners,        \* MAX_ACTIVE_RUNNERS
  MaxDispatchConcurrency,  \* MAX_DISPATCH_CONCURRENCY
  MinAdmissionLimit,       \* MIN_ADMISSION_LIMIT
  AdmissionProbeSuccesses, \* ADMISSION_PROBE_SUCCESSES
  ApprovedCapacity,        \* the ledger's approved capacity
  Reports,                 \* the statistics that GitHub may send
  MaxRows,                 \* bound of the rows among which messages add one
  MaxLingering             \* bound of what lingers: FewLinger

ASSUME ScaleUpConstants ==
  /\ \A n \in {MaxActiveRunners, MaxDispatchConcurrency, MinAdmissionLimit,
               AdmissionProbeSuccesses} : n \in Nat \ {0}
  /\ MinAdmissionLimit <= MaxActiveRunners
  /\ \A n \in {ApprovedCapacity, MaxRows, MaxLingering} : n \in Nat
  /\ Reports \subseteq [assigned : Nat, idle : Nat]

VARIABLES
  rows,        \* how many rows are at which stage, with or without reservation
  statistics,  \* latest_statistics
  round,       \* the round: the control status it has, and as history, how many
               \* requests the ledger had still to answer when it gave it
  astray,      \* reserve() requests at the ledger that no chain awaits
  limit,       \* admission_limit
  streak,      \* admission_success_streak
  limited      \* admission_limited

admissionVars == <<limit, streak>>
vars == <<rows, statistics, round, astray, limit, streak, limited>>

-----------------------------------------------------------------------------
(***************************************************************************)
(* The stages of an outbox row.  Rows that wait or ask have no reservation *)
(* identifier yet, though the ledger may already have reserved for them.   *)
(* asking, told and refused rows have a chain in flight.  A started row is *)
(* delivered (spawn_observed), unproven, or a suspect: unproven, past its  *)
(* START_DEADLINE_MS, and its last liveness probe answered.  recent:       *)
(* released after it was delivered, within the hour of the census.  gone:  *)
(* no row that any count sees.                                             *)
(*                                                                         *)
(* A message may cancel a row under its chain, which goes on: cancelled,   *)
(* while it awaits the ledger; dropped, when it has its reservation.  What *)
(* it then writes makes the row count again: withdrawn, until the row's    *)
(* reservation is compensated, by this chain or a later one.               *)
(***************************************************************************)
Stages == {"waiting", "asking", "told", "parked", "refused", "delivered",
           "unproven", "suspect", "recent", "gone",
           "cancelled", "dropped", "withdrawn"}
Untold == {"waiting", "asking"}
Started == {"delivered", "unproven", "suspect"}
InFlight == {"asking", "told", "refused", "cancelled", "dropped"}
Trying == {"told", "parked", "withdrawn"}
Contending == Trying \cup {"refused"} \cup Started

Count(S, held) == Cardinality(UNION {{k} \X (1 .. rows[k]) : k \in S \X held})
In(S) == Count(S, BOOLEAN)

Unreserved == In(Untold)                    \* #unreservedOutboxCount
Active == In(Untold \cup Trying \cup {"refused"})
LiveReservations == Count(Stages, {TRUE})   \* the ledger's count
Supply == Unreserved + Count(Stages \ Untold, {TRUE})

\* The requests that the ledger may still grant: of chains that ask, ask again
\* for a reservation that is over, or ask for a row that is cancelled; and
\* those that no chain awaits any more.
Coming == Count({"asking", "told", "cancelled"}, {FALSE}) + astray

Least(a, b) == IF a <= b THEN a ELSE b
Positive(n) == IF n > 0 THEN n ELSE 0

\* Rows that outlive their reservation, cancelled rows whose chain goes on, and
\* requests that no chain awaits
FewLinger ==
  Count(Contending \cup {"recent"}, {FALSE}) + In({"cancelled", "dropped"}) + astray
    <= MaxLingering

\* One row goes from a stage to another; the last one is not counted.
Becomes(s, h, t, g) ==
  LET left == [rows EXCEPT ![<<s, h>>] = @ - 1]
  IN  /\ rows[<<s, h>>] > 0
      /\ rows' = IF t = "gone" /\ ~g THEN left
                 ELSE [left EXCEPT ![<<t, g>>] = @ + 1]

Unlimited == -1
Unasked == [asked |-> FALSE, live |-> 0, open |-> 0]

-----------------------------------------------------------------------------
(* The learned limit. *)

\* A refusal or a failed start can only lower it; either ends the streak.
LowersTo(observed) ==
  LET next == IF limit = Unlimited THEN observed ELSE Least(limit, observed)
  IN  limit' = next /\ streak' = 0

\* Mutant: the floor of one delivery probe is forgotten.
Unfloored(n) == Positive(n)

\* The floor always leaves one delivery probe.
Floored(n) == IF n < MinAdmissionLimit THEN MinAdmissionLimit ELSE n

\* How many rows contend: one that is trying does so unless it is at its JIT
\* configuration (jit-requested, jit-ready).
ContendingCounts == In(Contending \ Trying) .. In(Contending)

\* #neverSpawnedCensus and #observeNeverSpawnedCensus
TakesCensus ==
  IF In({"suspect"}) = 0 THEN UNCHANGED admissionVars
  ELSE \E n \in ContendingCounts :
         LowersTo(Floored(n + In({"recent"}) - In({"suspect"})))

\* #observeCapacityRefusal; the refused row contends itself
ObservesRefusal ==
  \E n \in ContendingCounts : n > In(Contending \ Trying) /\ LowersTo(Floored(n - 1))

\* Mutant: the streak of deliveries is not capped.
CountsForEver ==
  IF limit = Unlimited THEN UNCHANGED admissionVars
  ELSE streak' = streak + 1 /\ UNCHANGED limit

\* #observeVerifiedDelivery; what the limit had to last before it may rise,
\* ADMISSION_PROBE_MIN_INTERVAL_MS, is over or not
ObservesDelivery ==
  LET next == Least(streak + 1, AdmissionProbeSuccesses)
      mayRaise == /\ next >= AdmissionProbeSuccesses /\ limited
                  /\ limit < MaxActiveRunners
  IN  IF limit = Unlimited THEN UNCHANGED admissionVars
      ELSE \/ mayRaise /\ limit' = limit + 1 /\ streak' = 0
           \/ streak' = next /\ UNCHANGED limit

ResetAdmission ==
  /\ limit' = Unlimited /\ streak' = 0 /\ limited' = FALSE
  /\ UNCHANGED <<rows, statistics, round, astray>>

-----------------------------------------------------------------------------
(* The round. *)

\* desiredRunnerCount: what GitHub assigned, less the idle runners that are
\* not this pool's own supply, up to the approved capacity;
\* MIN_RUNNERS is 0
Desired(live) ==
  LET unowned == Positive(statistics.idle - live)
  IN  Least(Least(MaxActiveRunners, ApprovedCapacity),
            Positive(statistics.assigned - unowned))

\* A message brings statistics.  Those that refuse every round (none, not
\* readable, or of more registrations than MAX_ACTIVE_RUNNERS, which shows
\* that they leak) count as no job assigned.
Message ==
  /\ ~round.asked
  /\ statistics' \in Reports
  /\ UNCHANGED <<rows, round, astray, limit, streak, limited>>

\* ... or jobs of its own, each with a row.
Acquires ==
  /\ ~round.asked
  /\ In(Stages) < MaxRows
  /\ rows' = [rows EXCEPT ![<<"waiting", FALSE>>] = @ + 1]
  /\ UNCHANGED <<statistics, round, astray, limit, streak, limited>>

\* #commitMessage: a job was cancelled, or completed by another runner.  Its row
\* is cancelled unless it may have started; a chain that has it goes on.
Cancels ==
  /\ ~round.asked
  /\ \E h \in BOOLEAN :
       \/ Becomes("asking", h, "cancelled", h)
       \/ Becomes("told", h, "dropped", h)
       \/ \E s \in {"waiting", "parked"} : Becomes(s, h, "gone", h)
  /\ UNCHANGED <<statistics, round, astray, limit, streak, limited>>
  /\ FewLinger'

\* The ledger answers #controlStatus.
AskStatus ==
  /\ ~round.asked
  /\ statistics.assigned > 0
  /\ round' = [asked |-> TRUE, live |-> LiveReservations, open |-> Coming]
  /\ UNCHANGED <<rows, statistics, astray, limit, streak, limited>>

\* The status throws, or comes when the round's time is over.
RoundGivesUp ==
  /\ round.asked
  /\ round' = Unasked
  /\ UNCHANGED <<rows, statistics, astray, limit, streak, limited>>

\* Mutant: a row without a reservation is not seen as supply.
ReservedOnly == round.live

LiveSupply == round.live + Unreserved

Shortfall == Positive(Desired(LiveSupply) - LiveSupply)
Headroom == IF limit' = Unlimited THEN Shortfall ELSE Positive(limit' - LiveSupply)
Width == MaxDispatchConcurrency - Active
Admitted == Least(Least(Shortfall, Positive(Width)), Headroom)

\* The status has come: all the rest of the round is one turn.
Evaluates ==
  /\ round.asked
  /\ TakesCensus
  /\ limited' = (limit' # Unlimited /\ Headroom < Shortfall /\ Headroom <= Width)
  /\ round' = Unasked
  /\ UNCHANGED <<statistics, astray>>

Allocates ==
  /\ Evaluates
  /\ rows' = [rows EXCEPT ![<<"waiting", FALSE>>] = @ + Admitted]

\* The round's time is over before the allocation.
AllocatesNothing == Evaluates /\ UNCHANGED rows

-----------------------------------------------------------------------------
(* The rows. *)

RowStep == UNCHANGED <<statistics, limited, round>>
Unlearned == RowStep /\ UNCHANGED admissionVars
Unnoticed == Unlearned /\ UNCHANGED astray

\* #dispatchOutbox takes up a row that no chain has.
Launch ==
  /\ ~round.asked
  /\ In(InFlight) < MaxDispatchConcurrency
  /\ \E h \in BOOLEAN :
       Becomes("waiting", h, "asking", h) \/ Becomes("parked", h, "told", h)
  /\ Unnoticed

\* The ledger reserves; for a row it has reserved for before, it replays.
LedgerGrants ==
  /\ LiveReservations < ApprovedCapacity
  /\ \E s \in {"asking", "cancelled"} : Becomes(s, FALSE, s, TRUE)
  /\ Unnoticed

\* A chain ends without the answer of up to n requests, which the ledger may
\* still grant.
LeavesBehind(n) ==
  /\ astray' \in astray .. astray + n
  /\ astray' = astray \/ FewLinger'

\* The ledger answers such a request: it refuses it, or reserves for a row that
\* asks or asked, which may be gone.
LateRequest ==
  /\ astray > 0 /\ astray' = astray - 1
  /\ \/ UNCHANGED rows
     \/ /\ LiveReservations < ApprovedCapacity
        /\ \/ \E s \in Untold \cup Trying \cup InFlight : Becomes(s, FALSE, s, TRUE)
           \/ rows' = [rows EXCEPT ![<<"gone", TRUE>>] = @ + 1]
  /\ Unlearned

\* Its reply reaches the row, which leaves the count of the unreserved; the
\* write does not heed that the row is cancelled.
ReplyArrives ==
  /\ \/ Becomes("asking", TRUE, "told", TRUE)
     \/ Becomes("cancelled", TRUE, "withdrawn", TRUE)
  /\ Unnoticed

\* The start is accepted, found to have been accepted, or refused by the
\* account's ceiling.
StartAccepted ==
  /\ \E h \in BOOLEAN : Becomes("told", h, "delivered", h)
  /\ Unnoticed
StartRecovered ==
  /\ \E h \in BOOLEAN : Becomes("told", h, "unproven", h)
  /\ Unnoticed
StartRefused ==
  /\ \E h \in BOOLEAN : Becomes("told", h, "refused", h)
  /\ ObservesRefusal
  /\ RowStep /\ UNCHANGED astray

\* A row whose reservation is over asks again: it is given another one, fails
\* for that, and releases the one it knew.
Replaced ==
  /\ LiveReservations < ApprovedCapacity
  /\ Becomes("told", FALSE, "gone", TRUE)
  /\ Unnoticed

\* #failDispatch, and the compensation of what the row knows of; an
\* ambiguous start keeps its reservation.  When reserve() throws, its request
\* may still be on its way; where the reservation stands, it is replayed.
Fails ==
  /\ \E h, g \in BOOLEAN :
       \/ /\ \/ \E s \in {"asking", "cancelled"} : g = h /\ Becomes(s, h, "gone", g)
             \/ (g => h) /\ Becomes("told", h, "gone", g)
          /\ LeavesBehind(IF g THEN 0 ELSE 1)
       \/ Becomes("refused", h, "gone", FALSE) /\ LeavesBehind(0)
  /\ Unlearned

\* The chain of a cancelled row has its reservation.  It may write its progress
\* before it looks; then #cancelDispatch compensates.  When that throws, a row
\* that is active again is left to a later chain, any other one to the ledger.
Withdraws ==
  /\ \E h \in BOOLEAN :
       \/ Becomes("dropped", h, "withdrawn", h)
       \/ \E g \in BOOLEAN : (g => h) /\ Becomes("dropped", h, "gone", g)
       \/ Becomes("withdrawn", h, "gone", FALSE)
  /\ Unnoticed

\* A call of the chain throws.
Throws ==
  /\ \E h \in BOOLEAN :
       \/ Becomes("asking", h, "waiting", h)
       \/ \E s \in {"told", "refused"} : Becomes(s, h, "parked", h)
  /\ Unnoticed

\* Evicted: the loop and every chain end.
Evict ==
  /\ rows' = [k \in DOMAIN rows |->
                CASE k[1] = "waiting" -> rows[k] + rows[<<"asking", k[2]>>]
                  [] k[1] = "parked" -> rows[k] + rows[<<"told", k[2]>>]
                                                + rows[<<"refused", k[2]>>]
                  [] k = <<"gone", TRUE>> -> rows[k] + rows[<<"cancelled", TRUE>>]
                                                     + rows[<<"dropped", TRUE>>]
                  [] k[1] \in InFlight -> 0
                  [] OTHER -> rows[k]]
  /\ round' = Unasked
  /\ LeavesBehind(Count({"asking", "told", "cancelled"}, {FALSE}))
  /\ UNCHANGED <<statistics, limit, streak, limited>>

\* The liveness probe of a row that is not proven: its runner is busy; it is
\* idle and the lookup for its teardown throws; or the probe itself throws.
Probes ==
  /\ ~round.asked
  /\ \E h \in BOOLEAN :
       \/ \E s \in {"unproven", "suspect"} :
            Becomes(s, h, "delivered", h) \/ Becomes(s, h, "suspect", h)
       \/ Becomes("suspect", h, "unproven", h)
  /\ Unnoticed

\* A started row is released: a probe finds its runner gone or idle, the
\* hour of the backstop passes, or its request is cancelled.  The row may end
\* and the call that frees its reservation throw.
Releases ==
  /\ ~round.asked
  /\ \E h \in BOOLEAN :
       \/ \E s \in Started, g \in BOOLEAN : (g => h) /\ Becomes(s, h, "gone", g)
       \/ Becomes("delivered", h, "recent", FALSE)
  /\ Unnoticed
  /\ FewLinger'

\* A message says that a runner has completed its job, which its row may not
\* know to be started.
JobCompleted ==
  /\ ~round.asked
  /\ \E h \in BOOLEAN :
       \/ Becomes("delivered", h, "recent", FALSE)
       \/ \E s \in {"unproven", "suspect"} : Becomes(s, h, "gone", FALSE)
       \/ \E s \in {"told", "parked", "gone"} : Becomes(s, h, s, FALSE)
  /\ ObservesDelivery
  /\ RowStep /\ UNCHANGED astray
  /\ FewLinger'

\* The ledger frees a reservation: its sandbox is destroyed, or it expires.
LedgerFrees ==
  /\ \E s \in Stages \ {"asking", "cancelled", "recent"} : Becomes(s, TRUE, s, FALSE)
  /\ Unnoticed
  /\ FewLinger'

\* An hour after its release, the census no longer counts a row.
Ages ==
  /\ Becomes("recent", FALSE, "gone", FALSE)
  /\ Unnoticed

-----------------------------------------------------------------------------
ScaleUpInit ==
  /\ rows = [k \in Stages \X BOOLEAN |-> 0]
  /\ statistics = [assigned |-> 0, idle |-> 0]
  /\ round = Unasked
  /\ astray = 0
  /\ limit = Unlimited /\ streak = 0 /\ limited = FALSE

Chain ==
  LedgerGrants \/ ReplyArrives \/ StartAccepted \/ StartRecovered
    \/ StartRefused \/ Replaced \/ Fails \/ Withdraws \/ Throws

ScaleUpNext ==
  \/ Message \/ Acquires \/ Cancels \/ AskStatus \/ RoundGivesUp
  \/ Allocates \/ AllocatesNothing
  \/ Launch \/ Chain \/ LateRequest \/ Evict
  \/ Probes \/ Releases \/ JobCompleted \/ LedgerFrees \/ Ages
  \/ ResetAdmission

ScaleUpSpec == ScaleUpInit /\ [][ScaleUpNext]_vars

-----------------------------------------------------------------------------
\* Every variable has its type.  The limit may exceed MAX_ACTIVE_RUNNERS: the
\* first one is learned from rows, some of which outlive their reservation.
ScaleUpTypeOK ==
  /\ rows \in [Stages \X BOOLEAN -> Nat]
  /\ statistics \in [assigned : Nat, idle : Nat]
  /\ round \in [asked : BOOLEAN, live : Nat, open : Nat]
  /\ astray \in Nat
  /\ limit \in Nat \cup {Unlimited}
  /\ streak \in 0 .. AdmissionProbeSuccesses
  /\ limited \in BOOLEAN

\* What the ledger has answered since it gave the round its status
Answered == round.open - Coming

\* A round adds no more than is missing.  Its view of the supply is old when
\* it is used, and no count is taken in one turn with another: a row leaves the
\* count of the unreserved when it learns of its reservation, when it fails, or
\* when it is cancelled while its chain still asks.  But all that a round can
\* overlook are reservations that the ledger gave after its status, and so no
\* more of them than requests that it had still to answer then.
RoundsOvershootNothing ==
  [][ Allocates /\ Supply' > Supply
      => /\ Supply' <= Desired(LiveSupply) + Answered
         /\ limit' # Unlimited => Supply' <= limit' + Answered ]_vars

\* GitHub has assigned more than the pool supplies.
Starved ==
  /\ statistics.assigned > 0
  /\ Desired(Supply) > Supply

\* The learned limit never latches: whatever was refused, never spawned or
\* timed out, and whatever else a row still holds, a pool that is short of
\* runners comes to start one more.
StarvedPoolsStart == Starved ~> (~Starved \/ Unreserved > 0)

\* The loop comes round, and not every round runs out of time; no row throws
\* for ever; a runner ends, or the backstop of its row and reservation does.
ScaleUpFairness ==
  /\ WF_vars(AskStatus) /\ SF_vars(Allocates) /\ SF_vars(Launch)
  /\ SF_vars(StartAccepted \/ StartRecovered \/ Fails) /\ SF_vars(Withdraws)
  /\ SF_vars(Releases) /\ SF_vars(LedgerFrees)

LiveScaleUpSpec == ScaleUpSpec /\ ScaleUpFairness
=============================================================================
