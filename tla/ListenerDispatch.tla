-------------------------- MODULE ListenerDispatch --------------------------
(***************************************************************************)
(* The way of a runner request through the ScaleSetListener Durable Object *)
(* (src/src/scaleset-listener.js): a message commits it, an acquisition    *)
(* grants it, and a dispatch chain reserves capacity, registers a just in  *)
(* time runner and asks the Worker to start it.                            *)
(*                                                                         *)
(* Four actors share the listener's tables and interleave at every await:  *)
(* the dispatch chain of a request (at most one, dispatchInFlight), the    *)
(* alarm handler's loop, which polls messages and runs the maintenance     *)
(* passes, the settlement of a drain, and the operator.  A chain carries a *)
(* copy of the row it read; the frames below keep what it kept.            *)
(*                                                                         *)
(* The ledger (AutopilotControl), the Worker and GitHub are modelled by    *)
(* what this code sees of them.  AutopilotControl proves what the ledger   *)
(* promises here: one live reservation per request, consumed at most once. *)
(***************************************************************************)
EXTENDS Integers, FiniteSets

CONSTANTS
  Requests,         \* runner request identifiers GitHub offers
  Surplus,          \* identifiers scale-up draws from its own sequence
  Messages,         \* message identifiers, 1 .. n, in the order of the queue
  MaxRedeliveries,  \* MAX_REQUEST_REDELIVERIES
  MaxLeases,        \* bound of the drains and a request's reservations together
  MaxEvictions,     \* bound of the drains and the evictions together
  MaxDrains         \* bound of the drains

ASSUME ConstantsAssumption ==
  /\ Requests \cap Surplus = {}
  /\ Messages \subseteq Nat \ {0}
  /\ MaxRedeliveries \in Nat
  /\ MaxLeases \in Nat \ {0}
  /\ MaxEvictions \in Nat /\ MaxDrains \in Nat

Ids == Requests \cup Surplus
Deliveries == 0 .. MaxRedeliveries

VARIABLES
  \* the tables of the Durable Object
  mode,        \* listener_state.mode
  inbox,       \* inbox, by message
  intent,      \* acquisition_intents, by request
  cancelled,   \* cancellations
  row,         \* dispatch_outbox, by request
  \* its memory, lost by an eviction
  chain,       \* the dispatch chains, dispatchInFlight
  phase,       \* where the alarm handler is
  loop,        \* the call its loop awaits
  drain,       \* the settlement of a drain
  \* its surroundings
  queue,       \* GitHub's message queue, and what each message says
  age,         \* how old the current delivery of a request is
  lease,       \* the ledger: the live reservation of each request
  drawn,       \* the ledger: how many reservations a request has had
  run,         \* the Worker: what became of each start request
  evictions, drains

tables == <<mode, inbox, intent, cancelled, row>>
memory == <<chain, phase, loop, drain>>
world == <<queue, age, lease, drawn, run>>
vars == <<tables, memory, world, evictions, drains>>

ActiveStates == {"pending", "reserved", "jit-requested", "jit-ready",
                 "start-requested"}
TerminalStates == {"started", "failed", "cancelled"}
Cancellable == {"pending", "reserved", "jit-requested", "jit-ready"}

NoId == 0

NoRow == [state |-> "absent", res |-> NoId, released |-> FALSE,
          jit |-> FALSE, named |-> FALSE, spawned |-> FALSE, del |-> 0]
NewRow(state, del) == [NoRow EXCEPT !.state = state, !.del = del]

NoIntent == [state |-> "none", msg |-> 0, del |-> 0]
NoLease == [id |-> NoId, used |-> FALSE]
NoRun == [state |-> "none", res |-> NoId]
Idle == [pc |-> "idle"]

Active(r) == row[r].state \in ActiveStates
Terminal(r) == row[r].state \in TerminalStates
Unreleased(r) == row[r].res # NoId /\ ~row[r].released
Late(r) == age[r] # "fresh"
IsCancelled(r) == r \in cancelled

(***************************************************************************)
(* The ledger's side of compensate(): it ends the reservation it is given, *)
(* and answers reservation-not-found for any other.                        *)
(***************************************************************************)
LedgerEnds(r, id) ==
  lease' = [lease EXCEPT ![r] = IF @.id = id THEN NoLease ELSE @]

-----------------------------------------------------------------------------
(***************************************************************************)
(* Pieces the handlers share.  Put is #updateOutbox: it writes by request  *)
(* identifier, whatever row is there now.                                  *)
(***************************************************************************)
Put(r, rec) == row' = [row EXCEPT ![r] = IF @ = NoRow THEN NoRow ELSE rec]

CleansUp(frame) ==
  frame.pc \in {"release", "released"} /\ frame.after = "cleanup"

ChainGoes(r, frame) == chain' = [chain EXCEPT ![r] = frame]
ChainEnds(r) == ChainGoes(r, Idle)

CancelledRow(rec) == [rec EXCEPT !.state = "cancelled", !.jit = FALSE]
FailedRow(rec) == [rec EXCEPT !.state = "failed", !.jit = FALSE]
StartedRow(rec) == [rec EXCEPT !.state = "started", !.jit = FALSE]

IntentCancelled(r) ==
  intent' = [intent EXCEPT ![r] = IF @ = NoIntent THEN @
                                  ELSE [@ EXCEPT !.state = "cancelled"]]

\* #compensateReservation first, when the row it was given holds one
AwaitRelease(r, rec, id, after) ==
  /\ Put(r, rec)
  /\ ChainGoes(r, [pc |-> "release", id |-> id, after |-> after])
  /\ UNCHANGED intent

\* #cancelDispatch and #failDispatch; id is the reservation of the copy they
\* were given, rec the row as the caller left it
CancelDispatch(r, rec, id) ==
  IF id # NoId THEN AwaitRelease(r, rec, id, "cancelled")
  ELSE Put(r, CancelledRow(rec)) /\ IntentCancelled(r) /\ ChainEnds(r)

FailDispatch(r, rec, id) ==
  IF id # NoId THEN AwaitRelease(r, rec, id, "failed")
  ELSE Put(r, FailedRow(rec)) /\ ChainEnds(r) /\ UNCHANGED intent

-----------------------------------------------------------------------------
(***************************************************************************)
(* #dispatchOutbox and #dispatchOne: the pass takes an active row no chain *)
(* holds.                                                                  *)
(***************************************************************************)
Free(r) == chain[r] = Idle

\* Mutant: only the start deadline of the chain itself is looked at.
DispatchOneUntimed(r) ==
  /\ phase = "working" /\ loop = Idle
  /\ Active(r) /\ Free(r)
  /\ \/ /\ IsCancelled(r)
        /\ CancelDispatch(r, row[r], row[r].res)
     \/ /\ ~IsCancelled(r)
        /\ ChainGoes(r, [pc |-> "permit", copy |-> row[r]])
        /\ UNCHANGED <<row, intent>>
  /\ UNCHANGED <<mode, inbox, cancelled, phase, loop, drain, world, evictions,
                 drains>>

DispatchOne(r) ==
  /\ phase = "working" /\ loop = Idle
  /\ Active(r) /\ Free(r)
  /\ \/ /\ IsCancelled(r)
        /\ CancelDispatch(r, row[r], row[r].res)
     \/ /\ ~IsCancelled(r) /\ Late(r)
        /\ FailDispatch(r, row[r], row[r].res)
     \/ /\ ~IsCancelled(r) /\ ~Late(r)
        /\ ChainGoes(r, [pc |-> "permit", copy |-> row[r]])
        /\ UNCHANGED <<row, intent>>
  /\ UNCHANGED <<mode, inbox, cancelled, phase, loop, drain, world, evictions,
                 drains>>

\* The rest of what a chain step leaves alone
ChainFrame == UNCHANGED <<mode, inbox, cancelled, phase, loop, drain, queue,
                          age, drawn, evictions, drains>>

(***************************************************************************)
(* #reserveDispatch: the outage permit, then the ledger.                   *)
(***************************************************************************)
PermitRefused(r) ==
  /\ chain[r].pc = "permit"
  /\ FailDispatch(r, row[r], chain[r].copy.res)
  /\ ChainFrame /\ UNCHANGED <<lease, run>>

\* The ledger replays the live reservation of the request or draws one.
LedgerReserves(r) ==
  /\ chain[r].pc = "permit"
  /\ \/ lease[r] # NoLease /\ UNCHANGED <<lease, drawn>>
     \/ /\ lease[r] = NoLease /\ ~Late(r) /\ drawn[r] + drains < MaxLeases
        /\ drawn' = [drawn EXCEPT ![r] = @ + 1]
        /\ lease' = [lease EXCEPT ![r] = [id |-> drawn'[r], used |-> FALSE]]
  /\ ChainGoes(r, [pc |-> "reserved", copy |-> chain[r].copy,
                   id |-> lease'[r].id])
  /\ UNCHANGED <<tables, phase, loop, drain, queue, age, run, evictions,
                 drains>>

\* "reservation-error" after the ledger's work, or its refusal before it
ReserveFails(r) ==
  /\ chain[r].pc \in {"permit", "reserved"}
  /\ FailDispatch(r, row[r], chain[r].copy.res)
  /\ ChainFrame /\ UNCHANGED <<lease, run>>

\* The reply, and the chain up to its next await: prepareForJit's lookup of
\* the registration, or the control status before the start
Reserved(r) ==
  LET copy == chain[r].copy
      id   == chain[r].id
      rec  == [row[r] EXCEPT !.state = IF copy.state = "pending"
                                         THEN "reserved" ELSE copy.state,
                             !.res = id]
  IN
  /\ chain[r].pc = "reserved"
  /\ \/ \* reservation-identity-changed
        /\ copy.state # "pending" /\ copy.res \notin {NoId, id}
        /\ FailDispatch(r, rec, copy.res)
     \/ /\ ~(copy.state # "pending" /\ copy.res \notin {NoId, id})
        /\ IF IsCancelled(r) THEN CancelDispatch(r, rec, id)
           ELSE IF rec.state \notin {"jit-ready", "start-requested"}
             THEN /\ Put(r, [rec EXCEPT !.named = TRUE])
                  /\ ChainGoes(r, [pc |-> "register"])
                  /\ UNCHANGED intent
           ELSE IF Late(r) THEN FailDispatch(r, rec, id)
           ELSE /\ Put(r, rec)
                /\ ChainGoes(r, [pc |-> "control", copy |-> rec, id |-> id])
                /\ UNCHANGED intent
  /\ ChainFrame /\ UNCHANGED <<lease, run>>

(***************************************************************************)
(* #prepareForJit and #generateJit.  An idle registration of the name is   *)
(* removed within the same step.                                           *)
(***************************************************************************)
RegistrationBusy(r) ==
  /\ chain[r].pc = "register"
  /\ FailDispatch(r, row[r], row[r].res)
  /\ ChainFrame /\ UNCHANGED <<lease, run>>

RegistrationAbsent(r) ==
  /\ chain[r].pc = "register"
  /\ IF IsCancelled(r) THEN CancelDispatch(r, row[r], row[r].res)
     ELSE /\ Put(r, [row[r] EXCEPT !.state = "jit-requested"])
          /\ ChainGoes(r, [pc |-> "jit"])
          /\ UNCHANGED intent
  /\ ChainFrame /\ UNCHANGED <<lease, run>>

\* A lost reply ends the chain and leaves the row jit-requested.
JitAmbiguous(r) ==
  /\ chain[r].pc = "jit"
  /\ ChainEnds(r)
  /\ ChainFrame /\ UNCHANGED <<intent, row, lease, run>>

JitMismatch(r) ==
  /\ chain[r].pc = "jit"
  /\ FailDispatch(r, row[r], row[r].res)
  /\ ChainFrame /\ UNCHANGED <<lease, run>>

JitGenerated(r) ==
  LET rec == [row[r] EXCEPT !.state = "jit-ready", !.jit = TRUE] IN
  /\ chain[r].pc = "jit"
  /\ IF IsCancelled(r) THEN CancelDispatch(r, rec, rec.res)
     ELSE IF Late(r) THEN FailDispatch(r, rec, rec.res)
     ELSE /\ Put(r, rec)
          /\ ChainGoes(r, [pc |-> "control", copy |-> rec, id |-> rec.res])
          /\ UNCHANGED intent
  /\ ChainFrame /\ UNCHANGED <<lease, run>>

(***************************************************************************)
(* The control status, and #issueStart.  The request carries the reserva-  *)
(* tion of the reply and is sent in the step that checks the cancellation. *)
(* Every start request of a delivery bears the same correlation, so the    *)
(* Worker sees a repeat; run keeps what the deliveries' requests carried.  *)
(***************************************************************************)
GateClosed(r) ==
  /\ chain[r].pc = "control"
  /\ FailDispatch(r, row[r], chain[r].copy.res)
  /\ ChainFrame /\ UNCHANGED <<lease, run>>

Send(r, del, id) ==
  run' = [run EXCEPT ![r][del] =
            IF @.state \in {"none", "refused"}
              THEN [state |-> "flying", res |-> id] ELSE @]

\* Mutant: the cancellation is only looked for before the control status.
IssueStartUnchecked(r) ==
  LET copy == chain[r].copy IN
  /\ chain[r].pc = "control"
  /\ IF Late(r)
       THEN FailDispatch(r, row[r], copy.res) /\ UNCHANGED run
     ELSE IF ~copy.jit
       THEN /\ ChainGoes(r, [pc |-> "lookup", after |-> "missing"])
            /\ UNCHANGED <<intent, row, run>>
     ELSE /\ Put(r, [row[r] EXCEPT !.state = "start-requested"])
          /\ Send(r, row[r].del, chain[r].id)
          /\ ChainGoes(r, [pc |-> "start"])
          /\ UNCHANGED intent
  /\ ChainFrame /\ UNCHANGED lease

IssueStart(r) ==
  LET copy == chain[r].copy IN
  /\ chain[r].pc = "control"
  /\ IF IsCancelled(r)
       THEN CancelDispatch(r, row[r], copy.res) /\ UNCHANGED run
     ELSE IF Late(r)
       THEN FailDispatch(r, row[r], copy.res) /\ UNCHANGED run
     ELSE IF ~copy.jit
       THEN /\ ChainGoes(r, [pc |-> "lookup", after |-> "missing"])
            /\ UNCHANGED <<intent, row, run>>
     ELSE /\ Put(r, [row[r] EXCEPT !.state = "start-requested"])
          /\ Send(r, row[r].del, chain[r].id)
          /\ ChainGoes(r, [pc |-> "start"])
          /\ UNCHANGED intent
  /\ ChainFrame /\ UNCHANGED lease

\* #recordDeadlineExceededAfterStart
DeadlineExceeded(r, rec) ==
  IF rec.res # NoId THEN AwaitRelease(r, FailedRow(rec), rec.res, "cleanup")
  ELSE Put(r, FailedRow(rec)) /\ ChainEnds(r) /\ UNCHANGED intent

Recorded(r, del) == run[r][del].state \in {"recorded", "live", "undelivered",
                                          "ended"}

Started(r) ==
  LET rec == [StartedRow(row[r]) EXCEPT !.spawned = TRUE] IN
  /\ chain[r].pc = "start" /\ Recorded(r, row[r].del)
  /\ IF Late(r) THEN DeadlineExceeded(r, rec)
     ELSE Put(r, rec) /\ ChainEnds(r) /\ UNCHANGED intent
  /\ ChainFrame /\ UNCHANGED <<lease, run>>

StartRefused(r) ==
  /\ chain[r].pc = "start"
  /\ run[r][row[r].del].state \in {"refused", "undelivered"}
  /\ FailDispatch(r, [row[r] EXCEPT !.jit = FALSE], row[r].res)
  /\ ChainFrame /\ UNCHANGED <<lease, run>>

\* No answer within the deadline: #reconcileLostStart looks the start up.
StartAmbiguous(r) ==
  /\ chain[r].pc = "start"
  /\ Put(r, [row[r] EXCEPT !.jit = FALSE])
  /\ ChainGoes(r, [pc |-> "lookup", after |-> "ambiguous"])
  /\ ChainFrame /\ UNCHANGED <<intent, lease, run>>

StartAbsent(r) ==
  /\ chain[r].pc = "lookup" /\ ~Recorded(r, row[r].del)
  /\ FailDispatch(r, row[r], NoId)
  /\ ChainFrame /\ UNCHANGED <<lease, run>>

\* Mutant: the lookup finds the start of any delivery of the request.
StartFoundByRequest(r) ==
  LET rec == StartedRow(row[r]) IN
  /\ chain[r].pc = "lookup" /\ \E d \in Deliveries : Recorded(r, d)
  /\ IF chain[r].after = "ambiguous" /\ Late(r) THEN DeadlineExceeded(r, rec)
     ELSE Put(r, rec) /\ ChainEnds(r) /\ UNCHANGED intent
  /\ ChainFrame /\ UNCHANGED <<lease, run>>

StartFound(r) ==
  LET rec == StartedRow(row[r]) IN
  /\ chain[r].pc = "lookup" /\ Recorded(r, row[r].del)
  /\ IF chain[r].after = "ambiguous" /\ Late(r) THEN DeadlineExceeded(r, rec)
     ELSE Put(r, rec) /\ ChainEnds(r) /\ UNCHANGED intent
  /\ ChainFrame /\ UNCHANGED <<lease, run>>

(***************************************************************************)
(* #compensateReservation: the ledger ends the reservation, its reply      *)
(* comes later, and the row of that request, as it is then, is marked.     *)
(***************************************************************************)
ReleaseAtLedger(r) ==
  /\ chain[r].pc = "release"
  /\ LedgerEnds(r, chain[r].id)
  /\ ChainGoes(r, [chain[r] EXCEPT !.pc = "released"])
  /\ ChainFrame /\ UNCHANGED <<intent, row, run>>

Released(r) ==
  LET rec == [row[r] EXCEPT !.released = TRUE]
      after == chain[r].after
  IN
  /\ chain[r].pc = "released"
  /\ Put(r, CASE after = "cancelled" -> CancelledRow(rec)
              [] after = "failed"    -> FailedRow(rec)
              [] after = "cleanup"   -> rec)
  /\ IF after = "cancelled" THEN IntentCancelled(r) ELSE UNCHANGED intent
  /\ ChainEnds(r)
  /\ ChainFrame /\ UNCHANGED <<lease, run>>

\* A call that throws ends the chain and leaves the row as it is; the pass
\* finds it again.  (A failing start is StartAmbiguous.)
ChainThrows(r) ==
  /\ chain[r].pc \in {"permit", "register", "jit", "control", "lookup",
                      "release", "released"}
  /\ ChainEnds(r)
  /\ ChainFrame /\ UNCHANGED <<intent, row, lease, run>>

-----------------------------------------------------------------------------
(***************************************************************************)
(* #commitMessage: one transaction.  A message offers a request or reports *)
(* its end; queue[m] is what GitHub's message m says.  GitHub sends the    *)
(* oldest message it still holds.                                          *)
(***************************************************************************)
\* Mutant: a failed start may be retried while it still holds capacity.
RedeliverableUnreleased(r, m) ==
  /\ intent[r].msg # m /\ intent[r].del < MaxRedeliveries
  /\ ~IsCancelled(r)
  /\ intent[r].state # "intended"
  /\ row[r].state \in {"absent", "failed"}

\* Mutant: any request without capacity may be offered again.
RedeliverableActive(r, m) ==
  /\ intent[r].msg # m /\ intent[r].del < MaxRedeliveries
  /\ ~IsCancelled(r)
  /\ intent[r].state # "intended"
  /\ ~Unreleased(r)

\* The refusals of a redelivered request, in their order
Redeliverable(r, m) ==
  /\ intent[r].msg # m /\ intent[r].del < MaxRedeliveries
  /\ ~IsCancelled(r)
  /\ intent[r].state # "intended"
  /\ row[r].state \in {"absent", "failed"}
  /\ ~Unreleased(r)

CommitOffer(r, m) ==
  /\ UNCHANGED cancelled
  /\ IF intent[r] = NoIntent
       THEN /\ intent' = [intent EXCEPT ![r] =
                 [state |-> IF IsCancelled(r) THEN "cancelled" ELSE "intended",
                  msg |-> m, del |-> 0]]
            /\ age' = [age EXCEPT ![r] = "fresh"]
            /\ UNCHANGED row
     ELSE IF Redeliverable(r, m)
       THEN /\ row' = [row EXCEPT ![r] = NoRow]
            /\ intent' = [intent EXCEPT ![r] =
                 [state |-> "intended", msg |-> m, del |-> @.del + 1]]
            /\ age' = [age EXCEPT ![r] = "fresh"]
     ELSE UNCHANGED <<intent, row, age>>

CommitEnd(r) ==
  /\ cancelled' = cancelled \cup {r}
  /\ intent' = [intent EXCEPT ![r].state =
                  IF @ \in {"intended", "granted"} THEN "cancelled" ELSE @]
  /\ row' = [row EXCEPT ![r] =
               IF @.state \in Cancellable THEN CancelledRow(@) ELSE @]
  /\ UNCHANGED age

(***************************************************************************)
(* #processMessage: commit, delete the message at GitHub, acknowledge,     *)
(* release what a cancelled request holds, acquire what was offered.       *)
(***************************************************************************)
LoopGoes(frame) == loop' = frame
LoopFrame == UNCHANGED <<mode, chain, phase, drain, drawn, run, evictions,
                         drains>>

\* From the acknowledgement to the next await; it reads no row before that.
AfterAcknowledgement(m) ==
  LET r == queue[m].req IN
  LoopGoes(IF queue[m].kind = "end"
             THEN IF row'[r].res # NoId
                    THEN [pc |-> "release", req |-> r, id |-> row'[r].res,
                          after |-> "message"]
                    ELSE Idle
             ELSE IF intent'[r].state = "intended" /\ intent'[r].msg = m
                    THEN [pc |-> "gate", req |-> r]
                    ELSE Idle)

PollMessage(m) ==
  /\ phase = "polling" /\ loop = Idle
  /\ queue[m].held
  /\ \A n \in Messages : queue[n].held => m <= n
  /\ IF queue[m].kind = "offer" THEN CommitOffer(queue[m].req, m)
                                 ELSE CommitEnd(queue[m].req)
  /\ inbox' = [inbox EXCEPT ![m] = IF @ = "none" THEN "stored" ELSE @]
  /\ LoopGoes([pc |-> "delete", msg |-> m])
  /\ phase' = "polled"
  /\ UNCHANGED <<mode, chain, drain, queue, drawn, lease, run, evictions,
                 drains>>

MessageDeleted ==
  /\ loop.pc = "delete"
  /\ inbox' = [inbox EXCEPT ![loop.msg] = "acknowledged"]
  /\ queue' = [queue EXCEPT ![loop.msg].held = FALSE]
  /\ UNCHANGED <<intent, row>>
  /\ AfterAcknowledgement(loop.msg)
  /\ LoopFrame /\ UNCHANGED <<cancelled, age, lease>>

(***************************************************************************)
(* #acquireForMessage: the control status, AcquireJobs, and the result.    *)
(* The frame keeps the delivery number of the rows it selected.            *)
(***************************************************************************)
GateOpen ==
  /\ loop.pc = "gate"
  /\ LoopGoes([pc |-> "acquire", req |-> loop.req, del |-> intent[loop.req].del])
  /\ LoopFrame /\ UNCHANGED <<inbox, intent, cancelled, row, queue, age, lease>>

Answered(state) ==
  LET r == loop.req IN
  intent' = [intent EXCEPT ![r].state = IF @ = "intended" THEN state ELSE @]

\* Mutant: the row counts the delivery once more.
GrantedCountedTwice ==
  LET r == loop.req IN
  /\ loop.pc = "acquire"
  /\ Answered("granted")
  /\ row' = [row EXCEPT ![r] =
               IF @ # NoRow THEN @
               ELSE NewRow(IF IsCancelled(r) THEN "cancelled" ELSE "pending",
                           loop.del + 1)]
  /\ LoopGoes(Idle)
  /\ LoopFrame /\ UNCHANGED <<inbox, cancelled, queue, age, lease>>

Granted ==
  LET r == loop.req IN
  /\ loop.pc = "acquire"
  /\ Answered("granted")
  /\ row' = [row EXCEPT ![r] =
               IF @ # NoRow THEN @
               ELSE NewRow(IF IsCancelled(r) THEN "cancelled" ELSE "pending",
                           loop.del)]
  /\ LoopGoes(Idle)
  /\ LoopFrame /\ UNCHANGED <<inbox, cancelled, queue, age, lease>>

NotGranted(state) ==
  /\ loop.pc = "acquire"
  /\ Answered(state)
  /\ LoopGoes(Idle)
  /\ LoopFrame /\ UNCHANGED <<inbox, cancelled, row, queue, age, lease>>

\* #resumeIntendedAcquisition, after a failed AcquireJobs or an eviction
ResumeIntended(r) ==
  /\ phase = "working" /\ loop = Idle
  /\ intent[r].state = "intended"
  /\ LoopGoes([pc |-> "gate", req |-> r])
  /\ LoopFrame
  /\ UNCHANGED <<inbox, intent, cancelled, row, queue, age, lease>>

-----------------------------------------------------------------------------
(***************************************************************************)
(* The maintenance passes of the loop.  Each works on a row it selected    *)
(* and releases that row's reservation.                                    *)
(***************************************************************************)
Maintains == UNCHANGED <<inbox, intent, cancelled, queue, age, lease>>

LoopReleases(r, after) ==
  LoopGoes([pc |-> "release", req |-> r, id |-> row[r].res, after |-> after])

\* #releaseCompletedRunnerReservations: a message names the runner that ended
RunnerCompleted(r) ==
  /\ phase = "polling" /\ loop = Idle
  /\ row[r].named /\ Unreleased(r)
  /\ \E d \in Deliveries : run[r][d].state = "ended"
  /\ LoopReleases(r, "completed")
  /\ phase' = "polled"
  /\ UNCHANGED <<tables, chain, drain, world, evictions, drains>>

\* Mutant: only started rows are settled.
SettleExpiredStarted(r) ==
  /\ phase = "working" /\ loop = Idle
  /\ Unreleased(r) /\ age[r] = "aged" /\ row[r].state = "started"
  /\ LoopReleases(r, "settled")
  /\ LoopFrame /\ Maintains /\ UNCHANGED row

\* #settleExpiredReservations: the one-hour backstop, for any row state
SettleExpired(r) ==
  /\ phase = "working" /\ loop = Idle
  /\ Unreleased(r) /\ age[r] = "aged"
  /\ LoopReleases(r, "settled")
  /\ LoopFrame /\ Maintains /\ UNCHANGED row

Probed(r) ==
  /\ phase = "working" /\ loop = Idle
  /\ row[r].state = "started" /\ Unreleased(r) /\ Late(r)

\* #reclaimUndeliveredRunnerReservations
ReclaimUndelivered(r) ==
  /\ Probed(r)
  /\ run[r][row[r].del].state = "undelivered"
  /\ LoopReleases(r, "undelivered")
  /\ LoopFrame /\ Maintains /\ UNCHANGED row

\* #releaseDeregisteredRunnerReservations, by what GitHub answers
ProbeAbsent(r) ==
  /\ Probed(r)
  /\ \A d \in Deliveries : run[r][d].state # "live"
  /\ LoopReleases(r, "deregistered")
  /\ LoopFrame /\ Maintains /\ UNCHANGED row

ProbeBusy(r) ==
  /\ Probed(r)
  /\ \E d \in Deliveries : run[r][d].state = "live"
  /\ row' = [row EXCEPT ![r].spawned = TRUE]
  /\ LoopFrame /\ Maintains /\ UNCHANGED loop

ProbeIdle(r) ==
  /\ Probed(r)
  /\ row' = [row EXCEPT ![r] = FailedRow(@)]
  /\ LoopReleases(r, "unassigned")
  /\ LoopFrame /\ Maintains

\* The compensation of any of these, as in the chain
LoopReleaseAtLedger ==
  /\ loop.pc = "release"
  /\ LedgerEnds(loop.req, loop.id)
  /\ LoopGoes([loop EXCEPT !.pc = "released"])
  /\ LoopFrame /\ UNCHANGED <<inbox, intent, cancelled, row, queue, age>>

LoopReleased ==
  /\ loop.pc = "released"
  /\ Put(loop.req, [row[loop.req] EXCEPT !.released = TRUE])
  /\ LoopGoes(Idle)
  /\ LoopFrame /\ Maintains

\* Most of them catch what a call throws; the others end the handler.
Caught == {"completed", "settled", "deregistered", "unassigned"}

LoopThrows ==
  /\ loop # Idle
  /\ LoopGoes(Idle)
  /\ phase' = IF loop.pc \in {"release", "released"} /\ loop.after \in Caught
                THEN phase ELSE "closing"
  /\ queue' \in {queue, IF loop.pc = "delete"
                          THEN [queue EXCEPT ![loop.msg].held = FALSE]
                          ELSE queue}
  /\ UNCHANGED <<tables, chain, drain, age, lease, drawn, run, evictions,
                 drains>>

(***************************************************************************)
(* scaleUpToStatistics, as far as dispatch sees it: a fresh identifier and *)
(* a pending row with no acquisition behind it.                            *)
(***************************************************************************)
ScaleUp(r) ==
  /\ phase = "working" /\ loop = Idle
  /\ age[r] = "unborn"
  /\ row' = [row EXCEPT ![r] = NewRow("pending", 0)]
  /\ age' = [age EXCEPT ![r] = "fresh"]
  /\ UNCHANGED <<mode, inbox, intent, cancelled, memory, queue, lease, drawn,
                 run, evictions, drains>>

-----------------------------------------------------------------------------
(***************************************************************************)
(* #compact: by age at each alarm; forced after a drain, and at the alarm  *)
(* that follows a write for which the disk was full.                       *)
(***************************************************************************)
\* Mutant: a finished row goes although it holds capacity.
KeptUnlessTerminal(r, forced) ==
  \/ row[r].state \notin TerminalStates
  \/ ~forced /\ age[r] # "aged"

Kept(r, forced) ==
  \/ row[r].state \notin TerminalStates
  \/ Unreleased(r)
  \/ ~forced /\ age[r] # "aged"

\* Mutant: the intents of deleted rows stay.
CompactRows(forced) ==
  /\ row' = [r \in Ids |-> IF Kept(r, forced) THEN row[r] ELSE NoRow]
  /\ intent' = [r \in Ids |->
       IF intent[r].state \in {"not-granted", "cancelled"}
         THEN NoIntent ELSE intent[r]]
  /\ cancelled' = {r \in cancelled :
       \/ ~forced /\ age[r] # "aged"
       \/ intent'[r].state \in {"intended", "granted", "ambiguous"}
       \/ row'[r].state \in ActiveStates}
  /\ inbox' = inbox

\* Mutant: the cancellations go at every compaction.
CompactForgetting(forced) ==
  /\ row' = [r \in Ids |-> IF Kept(r, forced) THEN row[r] ELSE NoRow]
  /\ intent' = [r \in Ids |->
       IF \/ intent[r].state \in {"not-granted", "cancelled"}
          \/ intent[r].state = "granted" /\ row'[r] = NoRow
         THEN NoIntent ELSE intent[r]]
  /\ cancelled' = {}
  /\ inbox' = inbox

Compact(forced) ==
  /\ row' = [r \in Ids |-> IF Kept(r, forced) THEN row[r] ELSE NoRow]
  /\ intent' = [r \in Ids |->
       IF \/ intent[r].state \in {"not-granted", "cancelled"}
          \/ intent[r].state = "granted" /\ row'[r] = NoRow
         THEN NoIntent ELSE intent[r]]
  /\ cancelled' = {r \in cancelled :
       \/ ~forced /\ age[r] # "aged"
       \/ intent'[r].state \in {"intended", "granted", "ambiguous"}
       \/ row'[r].state \in ActiveStates}
  /\ inbox' = inbox

(***************************************************************************)
(* The alarm handler: it compacts, then passes of one poll and one round   *)
(* of work while the mode is running, and it awaits its chains before it   *)
(* returns.  The mode is read between the two halves of a pass only.  The  *)
(* disk may have been full before any alarm (sqlite_full).                 *)
(***************************************************************************)
HandlerStarts ==
  /\ phase = "none" /\ \E forced \in BOOLEAN : Compact(forced)
  /\ IF mode = "running" THEN phase' = "polling"
                         ELSE drain = Idle /\ phase' = "settling"
  /\ UNCHANGED <<mode, chain, loop, drain, world, evictions, drains>>

HandlerMoves(from, to) ==
  /\ phase = from /\ loop = Idle
  /\ phase' = IF mode = "running" THEN to ELSE "closing"
  /\ UNCHANGED <<tables, chain, loop, drain, world, evictions, drains>>

HandlerCloses ==
  /\ phase \in {"polling", "polled", "working"} /\ loop = Idle
  /\ phase' = "closing"
  /\ UNCHANGED <<tables, chain, loop, drain, world, evictions, drains>>

\* #drainDispatchChains
HandlerEnds ==
  /\ phase = "closing" /\ \A r \in Ids : chain[r] = Idle
  /\ phase' = "none"
  /\ UNCHANGED <<tables, chain, loop, drain, world, evictions, drains>>

(***************************************************************************)
(* drain(), and the alarm of a drained listener: the operator's call waits *)
(* for everything in flight; then the waiting acquisitions are cancelled   *)
(* and the active rows settled one by one.  resume() may come in between.  *)
(* Bound: one settlement at a time.                                        *)
(***************************************************************************)
DrainGoes(frame) == drain' = frame
DrainFrame == UNCHANGED <<inbox, cancelled, chain, loop, queue, age, drawn, run,
                          evictions, drains>>

\* Nothing but the settlement itself is in flight.
Quiet == /\ phase \in {"none", "settling"}
         /\ loop = Idle /\ \A r \in Ids : chain[r] = Idle

\* The settlement ends, and the alarm handler with it if it was its own.
SettlementOver ==
  /\ DrainGoes(Idle)
  /\ phase' = IF phase = "settling" THEN "none" ELSE phase

DrainCalled ==
  /\ drain = Idle /\ phase # "settling"
  /\ drains < MaxDrains /\ evictions + drains < MaxEvictions
  /\ \A r \in Ids : drawn[r] < MaxLeases
  /\ drains' = drains + 1
  /\ mode' = "drained"
  /\ DrainGoes([pc |-> "waiting"])
  /\ UNCHANGED <<inbox, intent, cancelled, row, chain, phase, loop, world,
                 evictions>>

\* #acknowledgeStoredMessages and #cancelDrainAcquisitions
SettleBegins ==
  /\ \/ drain.pc = "waiting" /\ Quiet
     \/ drain = Idle /\ phase = "settling"
  /\ LET stored == {m \in Messages : inbox[m] = "stored"} IN
     /\ inbox' = [m \in Messages |->
                    IF m \in stored THEN "acknowledged" ELSE inbox[m]]
     /\ queue' = [m \in Messages |->
                    IF m \in stored THEN [queue[m] EXCEPT !.held = FALSE]
                    ELSE queue[m]]
  /\ intent' = [r \in Ids |->
       IF intent[r].state \in {"intended", "ambiguous"}
         THEN [intent[r] EXCEPT !.state = "cancelled"] ELSE intent[r]]
  /\ DrainGoes([pc |-> "settling", todo |-> {r \in Ids : Active(r)}])
  /\ UNCHANGED <<mode, cancelled, row, chain, phase, loop, age, lease, drawn,
                 run, evictions, drains>>

\* #settleDrainOutbox, one row
Settle(r) ==
  LET rest == drain.todo \ {r} IN
  /\ drain.pc = "settling" /\ r \in drain.todo
  /\ CASE ~Active(r) \/ (row[r].state = "start-requested" /\ ~Late(r)) ->
             /\ DrainGoes([drain EXCEPT !.todo = rest])
             /\ UNCHANGED <<intent, row>>
       [] Active(r) /\ row[r].state = "start-requested" /\ Late(r) ->
             /\ DrainGoes([pc |-> "lookup", req |-> r, todo |-> rest])
             /\ UNCHANGED <<intent, row>>
       [] row[r].state \in Cancellable /\ row[r].res # NoId ->
             /\ DrainGoes([pc |-> "release", req |-> r, id |-> row[r].res,
                           after |-> "cancelled", todo |-> rest])
             /\ UNCHANGED <<intent, row>>
       [] row[r].state \in Cancellable /\ row[r].res = NoId ->
             /\ row' = [row EXCEPT ![r] = CancelledRow(@)]
             /\ IntentCancelled(r)
             /\ DrainGoes([drain EXCEPT !.todo = rest])
  /\ DrainFrame /\ UNCHANGED <<mode, phase, lease>>

\* The start of a row past its deadline is looked up: recorded, it fails and
\* is released; absent, it fails and keeps its reservation.
SettleLookup ==
  LET r == drain.req
      rest == [pc |-> "settling", todo |-> drain.todo]
  IN
  /\ drain.pc = "lookup"
  /\ Put(r, FailedRow(row[r]))
  /\ DrainGoes(IF Recorded(r, row[r].del) /\ row[r].res # NoId
                 THEN [pc |-> "release", req |-> r, id |-> row[r].res,
                       after |-> "cleanup", todo |-> drain.todo]
                 ELSE rest)
  /\ DrainFrame /\ UNCHANGED <<mode, intent, phase, lease>>

SettleReleaseAtLedger ==
  /\ drain.pc = "release"
  /\ LedgerEnds(drain.req, drain.id)
  /\ DrainGoes([drain EXCEPT !.pc = "released"])
  /\ DrainFrame /\ UNCHANGED <<mode, intent, row, phase>>

SettleReleased ==
  LET r == drain.req
      rec == [row[r] EXCEPT !.released = TRUE]
  IN
  /\ drain.pc = "released"
  /\ IF drain.after = "cancelled"
       THEN Put(r, CancelledRow(rec)) /\ IntentCancelled(r)
       ELSE Put(r, rec) /\ UNCHANGED intent
  /\ DrainGoes([pc |-> "settling", todo |-> drain.todo])
  /\ DrainFrame /\ UNCHANGED <<mode, phase, lease>>

Drained ==
  /\ Quiet
  /\ \A r \in Ids : ~Active(r)
  /\ \A m \in Messages : inbox[m] # "stored"
  /\ \A r \in Ids : intent[r].state \notin {"intended", "ambiguous"}
  /\ \A r \in Ids, d \in Deliveries : run[r][d].state \notin {"recorded", "live"}

\* #drainStatus: a complete drain compacts everything at once.
SettleEnds ==
  /\ drain.pc = "settling" /\ drain.todo = {}
  /\ IF Drained THEN Compact(TRUE)
                 ELSE UNCHANGED <<inbox, intent, cancelled, row>>
  /\ SettlementOver
  /\ UNCHANGED <<mode, chain, loop, world, evictions, drains>>

DrainThrows ==
  /\ drain # Idle
  /\ SettlementOver
  /\ DrainFrame /\ UNCHANGED <<mode, intent, row, lease>>

Resume ==
  /\ mode = "drained"
  /\ mode' = "running"
  /\ UNCHANGED <<inbox, intent, cancelled, row, memory, world, evictions,
                 drains>>

-----------------------------------------------------------------------------
(***************************************************************************)
(* The surroundings.                                                       *)
(***************************************************************************)
Outside == UNCHANGED <<tables, memory, evictions, drains>>

\* GitHub may offer a request again until it reports its end.
GitHubSends(m, kind, r) ==
  /\ queue[m].kind = "unsent"
  /\ \A n \in Messages : queue[n].kind = "unsent" => m <= n
  /\ ~ \E n \in Messages : queue[n].kind = "end" /\ queue[n].req = r
  /\ kind = "end" => \E n \in Messages : queue[n].req = r
  /\ queue' = [queue EXCEPT ![m] = [kind |-> kind, req |-> r, held |-> TRUE]]
  /\ Outside /\ UNCHANGED <<age, lease, drawn, run>>

\* START_DEADLINE_MS passes since the intent, then the hour of the backstop,
\* which outlasts every call in flight.
GrowsLate(r) ==
  /\ age[r] = "fresh"
  /\ age' = [age EXCEPT ![r] = "late"]
  /\ Outside /\ UNCHANGED <<queue, lease, drawn, run>>

GrowsOld(r) ==
  /\ age[r] = "late" /\ row[r] # NoRow
  /\ chain[r] = Idle /\ loop = Idle /\ drain.pc \in {"idle", "waiting"}
  /\ \A d \in Deliveries : run[r][d].state \notin {"flying", "recorded"}
  /\ age' = [age EXCEPT ![r] = "aged"]
  /\ Outside /\ UNCHANGED <<queue, lease, drawn, run>>

LeaseExpires(r) ==
  /\ lease[r] # NoLease
  /\ IF lease[r].used THEN age[r] = "aged" ELSE Late(r)
  /\ lease' = [lease EXCEPT ![r] = NoLease]
  /\ Outside /\ UNCHANGED <<queue, age, drawn, run>>

WorkerAnswers(r, d, state) ==
  /\ run[r][d].state = "flying"
  /\ run' = [run EXCEPT ![r][d].state = state]
  /\ Outside /\ UNCHANGED <<queue, age, lease, drawn>>

\* The ledger still has the reservation a start request carried.
Holds(r, d) == lease[r] # NoLease /\ lease[r].id = run[r][d].res

\* consume() decides; the start may fail after it as well.
WorkerStarts(r, d) ==
  /\ run[r][d].state = "recorded"
  /\ \/ /\ Holds(r, d) /\ ~lease[r].used
        /\ lease' = [lease EXCEPT ![r].used = TRUE]
        /\ \E state \in {"live", "undelivered"} :
             run' = [run EXCEPT ![r][d].state = state]
     \/ /\ ~(Holds(r, d) /\ ~lease[r].used)
        /\ UNCHANGED lease
        /\ run' = [run EXCEPT ![r][d].state = "undelivered"]
  /\ Outside /\ UNCHANGED <<queue, age, drawn>>

RunnerEnds(r, d) ==
  /\ run[r][d].state = "live"
  /\ run' = [run EXCEPT ![r][d].state = "ended"]
  /\ Outside /\ UNCHANGED <<queue, age, lease, drawn>>

\* releaseBySandbox, once the Worker has destroyed the sandbox
WorkerReleases(r, d) ==
  /\ run[r][d].state \in {"ended", "undelivered"}
  /\ Holds(r, d)
  /\ lease' = [lease EXCEPT ![r] = NoLease]
  /\ Outside /\ UNCHANGED <<queue, age, drawn, run>>

\* The object is evicted: its memory is gone, its tables stay.
EvictListener ==
  /\ evictions + drains < MaxEvictions
  /\ evictions' = evictions + 1
  /\ chain' = [r \in Ids |-> Idle]
  /\ phase' = "none" /\ loop' = Idle /\ drain' = Idle
  /\ UNCHANGED <<tables, world, drains>>

-----------------------------------------------------------------------------
DispatchInit ==
  /\ mode = "running"
  /\ inbox = [m \in Messages |-> "none"]
  /\ intent = [r \in Ids |-> NoIntent]
  /\ cancelled = {}
  /\ row = [r \in Ids |-> NoRow]
  /\ chain = [r \in Ids |-> Idle]
  /\ phase = "none" /\ loop = Idle /\ drain = Idle
  /\ queue = [m \in Messages |-> [kind |-> "unsent", req |-> NoId,
                                  held |-> FALSE]]
  /\ age = [r \in Ids |-> IF r \in Surplus THEN "unborn" ELSE "fresh"]
  /\ lease = [r \in Ids |-> NoLease]
  /\ drawn = [r \in Ids |-> 0]
  /\ run = [r \in Ids |-> [d \in Deliveries |-> NoRun]]
  /\ evictions = 0 /\ drains = 0

ChainStep(r) ==
  \/ PermitRefused(r) \/ LedgerReserves(r) \/ ReserveFails(r) \/ Reserved(r)
  \/ RegistrationBusy(r) \/ RegistrationAbsent(r)
  \/ JitAmbiguous(r) \/ JitMismatch(r) \/ JitGenerated(r)
  \/ GateClosed(r) \/ IssueStart(r)
  \/ Started(r) \/ StartRefused(r) \/ StartAmbiguous(r)
  \/ StartAbsent(r) \/ StartFound(r)
  \/ ReleaseAtLedger(r) \/ Released(r) \/ ChainThrows(r)

MessageStep ==
  \/ \E m \in Messages : PollMessage(m)
  \/ MessageDeleted \/ GateOpen \/ Granted
  \/ NotGranted("not-granted") \/ NotGranted("ambiguous")

PassStep ==
  \/ \E r \in Requests : ResumeIntended(r)
  \/ \E r \in Ids :
       \/ RunnerCompleted(r) \/ SettleExpired(r) \/ ReclaimUndelivered(r)
       \/ ProbeAbsent(r) \/ ProbeBusy(r) \/ ProbeIdle(r)
  \/ LoopReleaseAtLedger \/ LoopReleased \/ LoopThrows
  \/ \E r \in Surplus : ScaleUp(r)
  \/ \E r \in Ids : DispatchOne(r)
  \/ HandlerStarts
  \/ HandlerMoves("polling", "working") \/ HandlerMoves("polled", "working")
  \/ HandlerMoves("working", "polling")
  \/ HandlerCloses \/ HandlerEnds

DrainStep ==
  \/ DrainCalled \/ SettleBegins \/ \E r \in Ids : Settle(r)
  \/ SettleLookup \/ SettleReleaseAtLedger \/ SettleReleased \/ SettleEnds
  \/ DrainThrows \/ Resume

WorldStep ==
  \/ \E m \in Messages, kind \in {"offer", "end"}, r \in Requests :
        GitHubSends(m, kind, r)
  \/ \E r \in Ids : GrowsLate(r) \/ GrowsOld(r) \/ LeaseExpires(r)
  \/ \E r \in Ids, d \in Deliveries :
       \/ WorkerAnswers(r, d, "recorded") \/ WorkerAnswers(r, d, "refused")
       \/ WorkerStarts(r, d) \/ RunnerEnds(r, d) \/ WorkerReleases(r, d)

DispatchNext ==
  \/ \E r \in Ids : ChainStep(r)
  \/ MessageStep
  \/ PassStep
  \/ DrainStep
  \/ WorldStep
  \/ EvictListener

DispatchSpec == DispatchInit /\ [][DispatchNext]_vars

(***************************************************************************)
(* Fairness.  The alarm comes back (the exit invariant rearms it) and its  *)
(* loop reaches the work of a round again and again; the passes there      *)
(* rotate through the rows; every call ends, with a reply or a throw;      *)
(* clocks go on; and the ledger and the Worker's registry, asked again and *)
(* again, answer at last.                                                  *)
(***************************************************************************)
LoopStep ==
  \/ MessageDeleted \/ GateOpen \/ Granted
  \/ NotGranted("not-granted") \/ NotGranted("ambiguous")
  \/ LoopReleaseAtLedger \/ LoopReleased \/ LoopThrows

Releasing(r) == loop.pc \in {"release", "released"} /\ loop.req = r

Work == HandlerMoves("polling", "working") \/ HandlerMoves("polled", "working")

DispatchFairness ==
  /\ WF_vars(HandlerStarts) /\ WF_vars(HandlerEnds) /\ SF_vars(Work)
  /\ WF_vars(LoopStep)
  /\ \A r \in Ids :
       /\ SF_vars(DispatchOne(r)) /\ SF_vars(SettleExpired(r))
       /\ WF_vars(ChainStep(r))
       /\ SF_vars(StartAbsent(r) \/ StartFound(r))
       /\ SF_vars(ReleaseAtLedger(r)) /\ SF_vars(Released(r))
       /\ SF_vars(Releasing(r) /\ LoopReleaseAtLedger)
       /\ SF_vars(Releasing(r) /\ LoopReleased)
       /\ WF_vars(GrowsLate(r)) /\ SF_vars(GrowsOld(r))
       /\ \A d \in Deliveries :
            /\ WF_vars(WorkerAnswers(r, d, "recorded") \/
                       WorkerAnswers(r, d, "refused"))
            /\ WF_vars(WorkerStarts(r, d))

LiveDispatchSpec == DispatchSpec /\ DispatchFairness

-----------------------------------------------------------------------------
(***************************************************************************)
(* Properties.                                                             *)
(***************************************************************************)
RowType ==
  [state : ActiveStates \cup TerminalStates \cup {"absent"},
   res : 0 .. MaxLeases, released : BOOLEAN, jit : BOOLEAN, named : BOOLEAN,
   spawned : BOOLEAN, del : Deliveries]

IntentType ==
  [state : {"none", "intended", "granted", "not-granted", "ambiguous",
            "cancelled"},
   msg : Messages \cup {0}, del : Deliveries]

RunType ==
  [state : {"none", "flying", "refused", "recorded", "live", "undelivered",
            "ended"}, res : 0 .. MaxLeases]

\* The tables and the surroundings keep their types.
DispatchTypeOK ==
  /\ mode \in {"running", "drained"}
  /\ inbox \in [Messages -> {"none", "stored", "acknowledged"}]
  /\ intent \in [Ids -> IntentType]
  /\ cancelled \subseteq Requests
  /\ row \in [Ids -> RowType]
  /\ phase \in {"none", "polling", "polled", "working", "closing", "settling"}
  /\ age \in [Ids -> {"unborn", "fresh", "late", "aged"}]
  /\ lease \in [Ids -> [id : 0 .. MaxLeases, used : BOOLEAN]]
  /\ run \in [Ids -> [Deliveries -> RunType]]

\* Once GitHub's report that a request has ended is committed, no start of it
\* is sent, wherever the report falls between the awaits of the chain, and
\* although the cancellation that holds the start back is compacted later.
NoStartOnceEnded ==
  [][ \A r \in Ids, d \in Deliveries :
        run'[r][d].state = "flying" /\ run[r][d].state # "flying"
          => ~ \E m \in Messages : /\ queue[m].kind = "end"
                                  /\ queue[m].req = r /\ inbox[m] # "none" ]_vars

\* No resume has let chains in beside the settlement of a drain, which does not
\* expect them; the three properties below exclude that.
NotResumed == drains = 0 \/ (drains = 1 /\ mode = "drained")

\* Two deliveries of a request send starts on one reservation only when the
\* start of a third one was recorded: a failed start gives its reservation
\* back before the request is tried again.  (The chain of that third one, in
\* #recordDeadlineExceededAfterStart, may mark the row of its successor, which
\* then seems to hold nothing when it is tried again.)
OneDeliveryPerReservation ==
  NotResumed => \A r \in Ids : \A d, e \in Deliveries :
    d # e /\ run[r][d].res # NoId /\ run[r][d].res = run[r][e].res
      => \E c \in Deliveries \ {d, e} : Recorded(r, c)

\* The capacity of the only runner of a request is never out of the listener's
\* reach: the consumed reservation is the one its row will release.
ConsumedLeaseIsTracked ==
  NotResumed => \A r \in Ids, d \in Deliveries :
    /\ lease[r].used /\ run[r][d].res = lease[r].id
    /\ \A c \in Deliveries \ {d} : ~Recorded(r, c)
    => row[r].res = lease[r].id /\ ~row[r].released

\* Every request is decided: a row does not stay active for ever, although
\* every call may throw, each time, and the object be evicted.
RequestsAreDecided == \A r \in Ids : Active(r) ~> ~Active(r)

\* Every reservation a row holds is given back in the end, whatever was lost.
CapacityReturns == \A r \in Ids : Unreleased(r) ~> ~Unreleased(r)

\* A row is only started when the Worker has recorded the start of that very
\* delivery, although replies are lost and rows are made again.
StartedMeansRecorded ==
  \A r \in Ids : row[r].state = "started" => Recorded(r, row[r].del)

\* A granted job is never lost: it has a row until that row is finished.
GrantedHasRow ==
  \A r \in Ids : intent[r].state = "granted" => row[r] # NoRow

\* A chain that is to decide the fate of a row has that row: nothing deletes
\* it or makes it again meanwhile.  (The release after a late start, which
\* #recordDeadlineExceededAfterStart awaits on a failed row, decides nothing.)
ChainKeepsItsRow ==
  [][ NotResumed' => \A r \in Ids :
        chain[r] # Idle /\ chain'[r] # Idle /\ ~CleansUp(chain[r])
          => row'[r] # NoRow /\ row'[r].del = row[r].del ]_vars
=============================================================================
