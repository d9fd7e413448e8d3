-------------------------- MODULE ListenerLifecycle --------------------------
(***************************************************************************)
(* The life of a ScaleSetListener (src/src/scaleset-listener.js): its mode, *)
(* its alarm, the message session it holds with GitHub, the recovery       *)
(* records, and the operator's stop, drain, resume and rearm.              *)
(*                                                                         *)
(* The alarm handler is one long asynchronous function.  It yields at each *)
(* await of GitHub, the ledger, the registry or the outage gate, and the   *)
(* operator's requests run there.  A request awaits too: the end of the    *)
(* work in flight (#waitForInFlight) and the deletion of the session.  The *)
(* frames keep what each invocation read before its await.  Storage and    *)
(* alarm calls do not yield to other events.                               *)
(*                                                                         *)
(* What a poll brings, and the dispatch of it, is ListenerDispatch; here   *)
(* it is whether work is outstanding.  Time is abstracted: an alarm that is *)
(* set can fire, the pause of a recovery ends at some moment, and a record *)
(* may be found older than RECOVERY_MAX_ELAPSED_MS whenever it is read.    *)
(***************************************************************************)
EXTENDS Integers, FiniteSets

CONSTANTS
  Calls,         \* concurrent operator requests
  Sessions,      \* message session identifiers
  NoSession,     \* SQL NULL, and GitHub holding none
  Faults,        \* the recovery conditions the surroundings can provoke
  MaxTries,      \* RECOVERY_MAX_ATTEMPTS
  MaxIntrusions  \* bound of the evictions, rearms and full storages

Conditions == {"session-conflict", "session-expired", "github-rate-limit",
               "scale-set-not-found", "alarm-failure"}

ASSUME LifecycleAssumption ==
  /\ NoSession \notin Sessions
  /\ Faults \subseteq Conditions
  /\ MaxTries \in Nat \ {0}
  /\ MaxIntrusions \in Nat
  \* GitHub has always an identifier that storage and the requests forgot.
  /\ \A used \in [Calls -> Sessions \cup {NoSession}],
        s \in Sessions \cup {NoSession} :
       \E fresh \in Sessions \ {s} : \A c \in Calls : used[c] # fresh

VARIABLES
  \* storage
  mode,       \* listener_state.mode, with the prefix of stopped_reason
  session,    \* the persisted session; whole when its queue is known
  recovery,   \* the recovery table, by condition
  alarm,      \* whether an alarm is scheduled
  \* memory, lost by an eviction
  handler,    \* the alarm handler
  call,       \* the operator's requests in flight
  \* surroundings
  enabled,    \* AUTOPILOT_ENABLED of the deployed version
  server,     \* the session GitHub holds for this scale set
  work,       \* whether rows, messages or runners are outstanding
  intrusions,
  \* history
  disarmed    \* what deleted the alarm of a running listener

storage == <<mode, session, recovery, alarm>>
world == <<enabled, server, work, intrusions>>
vars == <<storage, handler, call, world, disarmed>>

Idle == [pc |-> "idle"]
Blank == [id |-> NoSession, whole |-> FALSE]
Whole(s) == [id |-> s, whole |-> TRUE]
NoRecord == [tries |-> 0, due |-> FALSE, done |-> FALSE]

Stopped == mode \in {"deliberate", "failed"}
HasSession == session.id # NoSession

Exit(out) == [pc |-> "exit", out |-> out]
Deleting(next, out) ==
  [pc |-> "deleting", id |-> session.id, next |-> next, out |-> out]

\* An identifier GitHub has not used for anyone who could remember it.
Remembered ==
  {session.id, server}
    \cup {f.id : f \in {g \in {handler} \cup {call[c] : c \in Calls} :
                          g.pc \in {"deleting", "polling", "refreshing"}}}
Fresh == CHOOSE s \in Sessions : s \notin Remembered

-----------------------------------------------------------------------------
(***************************************************************************)
(* Recovery.                                                               *)
(***************************************************************************)
\* #clearRecovery
Without(table, conditions) ==
  [c \in Conditions |-> IF c \in conditions THEN NoRecord ELSE table[c]]

\* Outcomes that may leave a stopped listener's alarm as it is
Ends(exhausted, from) ==
  CASE from = "conflict" -> IF Stopped THEN "alarmless" ELSE "other"
    [] exhausted         -> "alarmless"
    [] OTHER             -> "other"

\* Mutant: the failures are counted beyond the last retry.
TriesAfterUncapped(row) == row.tries + 1

TriesAfter(row) == IF row.tries < MaxTries THEN row.tries + 1 ELSE row.tries

\* #recordRecoveryFailure; from is the caller, to which a failure of the
\* closing of the gate returns
Record(c, from) ==
  LET row   == recovery[c]
      tries == TriesAfter(row)
  IN
  /\ alarm' = TRUE
  /\ IF row.done
       THEN /\ handler' = Exit(Ends(TRUE, from))
            /\ UNCHANGED recovery
       ELSE /\ recovery' = [recovery EXCEPT
                 ![c] = [tries |-> tries, due |-> FALSE, done |-> FALSE]]
            /\ \/ handler' = [pc |-> "closing", cond |-> c, from |-> from]
               \/ /\ tries < MaxTries
                  /\ handler' = Exit(Ends(FALSE, from))

\* #recoverAlarmError after a throw of this kind, when s is what is persisted
Recovers(kind, s) ==
  IF kind = "alarm-failure" /\ s.id # NoSession
    THEN /\ handler' = [pc |-> "deleting", id |-> s.id, next |-> "failure",
                        out |-> "other"]
         /\ UNCHANGED <<recovery, alarm>>
    ELSE Record(kind, "recover")

\* A call of GitHub, the ledger or the registry that throws
Throwable == {"alarm-failure", "github-rate-limit"} \cap Faults

Throws == \E kind \in Throwable : Recovers(kind, session)

\* #exhaustRecovery once the gate is closed: the update finds no row when a
\* rearm deleted it
Exhausts(c, from) ==
  /\ recovery' = [recovery EXCEPT ![c].done = @ \/ recovery[c].tries > 0]
  /\ mode' = "failed"
  /\ IF HasSession
       THEN /\ handler' = Deleting("exhausted", from)
            /\ UNCHANGED alarm
       ELSE /\ handler' = Exit("alarmless")
            /\ alarm' = FALSE

GateCloses ==
  /\ handler.pc = "closing"
  /\ Exhausts(handler.cond, handler.from)
  /\ UNCHANGED <<session, call, world, disarmed>>

\* The throw of #closeStartGate: #recoverAlarmError has nothing left but its
\* last resort, the other two callers are inside the try of the handler.
GateStaysOpen ==
  /\ handler.pc = "closing"
  /\ IF handler.from = "recover"
       THEN /\ alarm' = TRUE
            /\ handler' = Exit("other")
            /\ UNCHANGED recovery
       ELSE Recovers("alarm-failure", session)
  /\ UNCHANGED <<mode, session, call, world, disarmed>>

PauseEnds(c) ==
  /\ recovery[c].tries > 0 /\ ~recovery[c].due /\ ~recovery[c].done
  /\ recovery' = [recovery EXCEPT ![c].due = TRUE]
  /\ UNCHANGED <<mode, session, alarm, handler, call, world, disarmed>>

-----------------------------------------------------------------------------
(***************************************************************************)
(* The alarm handler.                                                      *)
(***************************************************************************)
\* #attemptShutdownSessionDeletion and the deletion of the alarm
ShutsDown(out) ==
  IF HasSession
    THEN handler' = Deleting("shutdown", out) /\ alarm' = TRUE
    ELSE handler' = Exit(out) /\ alarm' = FALSE

\* #deferActiveRecovery: a record too old is exhausted before any pause is
\* looked at, since the records are read by the time of their first failure
Defers ==
  \E c \in Conditions :
    /\ recovery[c].tries > 0 /\ ~recovery[c].done
    /\ \/ handler' = [pc |-> "closing", cond |-> c, from |-> "defer"]
       \/ /\ ~recovery[c].due
          /\ handler' = Exit("other")

Paused == \E c \in Conditions :
            recovery[c].tries > 0 /\ ~recovery[c].due /\ ~recovery[c].done

\* #entryRearm and #runAlarm up to the first await
AlarmFires ==
  /\ alarm /\ handler = Idle
  /\ IF Stopped THEN ShutsDown("alarmless")
     ELSE IF ~enabled THEN ShutsDown("disabled")
     ELSE /\ alarm' = TRUE
          /\ \/ Defers
             \/ /\ ~Paused
                /\ handler' = IF mode = "drained" THEN [pc |-> "settling"]
                              ELSE [pc |-> "control", first |-> TRUE]
  /\ UNCHANGED <<mode, session, recovery, call, world, disarmed>>

\* The handoff, when the loop is left
HandsOff(table) ==
  /\ handler' = Exit("other")
  /\ recovery' = Without(table, {"alarm-failure"})

\* The head of the poll loop while the alarm's budget of time lasts
Proceeds(table) ==
  IF mode = "running"
    THEN /\ handler' = [pc |-> "control", first |-> FALSE]
         /\ recovery' = table
    ELSE HandsOff(table)

\* The head of the poll loop after something that takes time
LoopHead(table) == Proceeds(table) \/ HandsOff(table)

\* #killSwitchShutdown
KillSwitch ==
  /\ handler.pc = "control"
  /\ mode' = "failed"
  /\ IF HasSession
       THEN /\ handler' = Deleting("kill", "alarmless")
            /\ UNCHANGED alarm
       ELSE handler' = Exit("alarmless") /\ alarm' = FALSE
  /\ UNCHANGED <<session, recovery, call, world, disarmed>>

\* The gate is open: #ensureSession, or the poll
ControlOpen ==
  /\ handler.pc = "control"
  /\ IF handler.first
       THEN IF session.whole THEN Proceeds(recovery) /\ UNCHANGED alarm
            ELSE /\ handler' = IF HasSession THEN Deleting("replace", "other")
                               ELSE [pc |-> "creating"]
                 /\ UNCHANGED <<alarm, recovery>>
       ELSE IF session.whole
              THEN /\ handler' = [pc |-> "polling", id |-> session.id,
                                  again |-> FALSE]
                   /\ UNCHANGED <<alarm, recovery>>
              ELSE Recovers("alarm-failure", session)
  /\ UNCHANGED <<mode, session, call, world, disarmed>>

ControlThrows ==
  /\ handler.pc = "control"
  /\ Throws
  /\ UNCHANGED <<mode, session, call, world, disarmed>>

(***************************************************************************)
(* #createSession.                                                         *)
(***************************************************************************)
\* Mutant: a new session ends every recovery.
EndedByCreationAll == Conditions

EndedByCreation == {"session-conflict", "session-expired", "github-rate-limit"}

SessionCreated ==
  /\ handler.pc = "creating" /\ server = NoSession
  /\ server' = Fresh
  /\ session' = Whole(Fresh)
  /\ Proceeds(Without(recovery, EndedByCreation))
  /\ UNCHANGED <<mode, alarm, call, enabled, work, intrusions, disarmed>>

\* The reply names a session but no queue: #persistCreatedSessionIdentity
\* keeps the name and #persistSession throws.
SessionMalformed ==
  /\ handler.pc = "creating" /\ server = NoSession
  /\ server' = Fresh
  /\ session' = [id |-> Fresh, whole |-> FALSE]
  /\ Recovers("alarm-failure", session')
  /\ UNCHANGED <<mode, call, enabled, work, intrusions, disarmed>>

\* The reply is lost: GitHub holds a session nobody knows.
SessionReplyLost ==
  /\ handler.pc = "creating" /\ server = NoSession
  /\ server' = Fresh
  /\ Throws
  /\ UNCHANGED <<mode, session, call, enabled, work, intrusions, disarmed>>

SessionRefused ==
  /\ handler.pc = "creating"
  /\ \E kind \in Throwable \cup ({"scale-set-not-found"} \cap Faults) :
       Recovers(kind, session)
  /\ UNCHANGED <<mode, session, call, world, disarmed>>

\* #handleSessionConflict: the session GitHub holds is not one this object
\* remembers, so there is nothing it can delete.
SessionConflict ==
  /\ handler.pc = "creating" /\ server # NoSession
  /\ Record("session-conflict", "conflict")
  /\ UNCHANGED <<mode, session, call, world, disarmed>>

(***************************************************************************)
(* #runSessionOperation: the poll.                                         *)
(***************************************************************************)
\* #dropExpiredSession clears whatever is persisted now
Expired ==
  /\ session' = Blank
  /\ Recovers("session-expired", Blank)
  /\ UNCHANGED <<mode, call, world, disarmed>>

\* A message, none, or the abort of stop() or drain()
PollReturns ==
  /\ handler.pc = "polling" /\ server = handler.id
  /\ IF session.whole
       THEN /\ handler' = [pc |-> "working"]
            /\ recovery' = Without(recovery, {"github-rate-limit"})
       ELSE /\ handler' = Exit("other")
            /\ recovery' = Without(recovery, {"github-rate-limit",
                                              "alarm-failure"})
  /\ work' \in {work, TRUE}
  /\ UNCHANGED <<mode, session, alarm, call, enabled, server,
                 intrusions, disarmed>>

PollExpired ==
  /\ handler.pc \in {"polling", "refreshing"} /\ server # handler.id
  /\ Expired

\* The queue token expired: once it is refreshed, twice ends the session.  A
\* session that a request cleared meanwhile can be neither.
TokenExpired ==
  /\ handler.pc = "polling"
  /\ IF HasSession
       THEN /\ handler' = IF handler.again THEN Deleting("terminal", "other")
                          ELSE [pc |-> "refreshing", id |-> session.id]
            /\ UNCHANGED <<recovery, alarm>>
       ELSE Recovers("alarm-failure", session)
  /\ UNCHANGED <<mode, session, call, world, disarmed>>

\* #refreshPersistedSession persists the session it was asked for, though a
\* request may have cleared it meanwhile.
Refreshed ==
  /\ handler.pc = "refreshing" /\ server = handler.id
  /\ session' = Whole(handler.id)
  /\ handler' = [pc |-> "polling", id |-> handler.id, again |-> TRUE]
  /\ UNCHANGED <<mode, recovery, alarm, call, world, disarmed>>

PollThrows ==
  /\ handler.pc \in {"polling", "refreshing"}
  /\ Throws
  /\ UNCHANGED <<mode, session, call, world, disarmed>>

(***************************************************************************)
(* The rest of the loop's body: the message, the maintenance and dispatch. *)
(***************************************************************************)
PassEnds ==
  /\ handler.pc = "working"
  /\ LoopHead(recovery)
  /\ UNCHANGED <<mode, session, alarm, call, world, disarmed>>

PassThrows ==
  /\ handler.pc = "working"
  /\ \/ Throws /\ UNCHANGED <<mode, session, call, world, disarmed>>
     \/ server # session.id /\ Expired

\* #stopForRoutingSemantics
RoutingStops ==
  /\ handler.pc = "working"
  /\ mode' = "failed"
  /\ handler' = [pc |-> "routing"]
  /\ UNCHANGED <<session, recovery, alarm, call, world, disarmed>>

RoutingGateCloses ==
  /\ handler.pc = "routing"
  /\ IF HasSession
       THEN /\ handler' = Deleting("routing", "other")
            /\ UNCHANGED <<alarm, recovery>>
       ELSE /\ alarm' = FALSE
            /\ LoopHead(recovery)
  /\ UNCHANGED <<mode, session, call, world, disarmed>>

RoutingGateStaysOpen ==
  /\ handler.pc = "routing"
  /\ Recovers("alarm-failure", session)
  /\ UNCHANGED <<mode, session, call, world, disarmed>>

(***************************************************************************)
(* #deletePersistedSession: it deletes the session it read and then clears *)
(* the one that is persisted when the reply comes.                         *)
(***************************************************************************)
Gone(id) == IF server = id THEN NoSession ELSE server

SessionDeleted ==
  /\ handler.pc = "deleting"
  /\ server' = Gone(handler.id)
  /\ session' = Blank
  /\ CASE handler.next \in {"shutdown", "kill", "exhausted"} ->
            /\ alarm' = FALSE
            /\ handler' = Exit(IF handler.next = "exhausted"
                                 THEN Ends(TRUE, handler.out)
                                 ELSE handler.out)
            /\ UNCHANGED recovery
       [] handler.next = "settled" ->
            /\ alarm' = FALSE
            /\ handler' = Exit("other")
            /\ recovery' = Without(recovery, {"alarm-failure"})
       [] handler.next = "routing" ->
            /\ alarm' = FALSE
            /\ LoopHead(recovery)
       [] handler.next = "replace" ->
            /\ handler' = [pc |-> "creating"]
            /\ UNCHANGED <<alarm, recovery>>
       [] OTHER -> Record("alarm-failure", "recover")
  /\ UNCHANGED <<mode, call, enabled, work, intrusions, disarmed>>

\* The deletion throws, whether GitHub carried it out or not.
DeletionThrows ==
  /\ handler.pc = "deleting"
  /\ server' \in {server, Gone(handler.id)}
  /\ CASE handler.next \in {"shutdown", "exhausted"} ->
            /\ alarm' = FALSE
            /\ handler' = Exit(IF handler.next = "exhausted"
                                 THEN Ends(TRUE, handler.out)
                                 ELSE handler.out)
            /\ UNCHANGED recovery
       [] handler.next = "failure" ->
            Record("alarm-failure", "recover")
       [] OTHER -> Throws
  /\ UNCHANGED <<mode, session, call, enabled, work, intrusions, disarmed>>

(***************************************************************************)
(* #runDrainedAlarm, #settleDrain.                                         *)
(***************************************************************************)
Quiet == ~work

AlarmSettles ==
  /\ handler.pc = "settling"
  /\ IF Quiet /\ HasSession
       THEN /\ handler' = Deleting("settled", "other")
            /\ UNCHANGED <<alarm, recovery>>
       ELSE /\ alarm' = ~Quiet
            /\ handler' = Exit("other")
            /\ recovery' = Without(recovery, {"alarm-failure"})
  /\ UNCHANGED <<mode, session, call, world, disarmed>>

\* The registry gives no inventory, which counts as outstanding work.
AlarmCannotSettle ==
  /\ handler.pc = "settling"
  /\ alarm' = TRUE
  /\ handler' = Exit("other")
  /\ recovery' = Without(recovery, {"alarm-failure"})
  /\ UNCHANGED <<mode, session, call, world, disarmed>>

SettlingThrows ==
  /\ handler.pc = "settling"
  /\ \/ Throws /\ UNCHANGED <<mode, session, call, world, disarmed>>
     \/ session.whole /\ server # session.id /\ Expired

\* SQLITE_FULL, where a write may meet it: #handleSqliteFull only retries, and
\* the session GitHub may just have created is not persisted.
StorageFull ==
  /\ \/ handler.pc \in {"control", "creating", "polling", "refreshing",
                       "working", "settling"}
     \/ handler.pc = "deleting" /\ handler.next \in {"replace", "terminal"}
  /\ intrusions < MaxIntrusions
  /\ intrusions' = intrusions + 1
  /\ server' \in IF handler.pc = "creating" /\ server = NoSession
                   THEN {NoSession, Fresh} ELSE {server}
  /\ alarm' = TRUE
  /\ handler' = Exit("other")
  /\ UNCHANGED <<mode, session, recovery, call, enabled, work, disarmed>>

\* Mutant: a missing alarm is not repaired.
ExitAlarmKept == alarm /\ (Stopped => handler.out # "other")

\* #enforceAlarmExitInvariant
ExitAlarm == IF Stopped THEN alarm /\ handler.out # "other"
             ELSE alarm \/ handler.out # "disabled"

\* The end of the alarm, after the dispatch chains have ended
ExitHandler ==
  /\ handler.pc = "exit"
  /\ alarm' = ExitAlarm
  /\ handler' = Idle
  /\ UNCHANGED <<mode, session, recovery, call, world, disarmed>>

-----------------------------------------------------------------------------
(***************************************************************************)
(* The operator's requests.                                                *)
(***************************************************************************)
Returns(c) == call' = [call EXCEPT ![c] = Idle]
Awaits(c, pc) == call' = [call EXCEPT ![c] = [pc |-> pc]]
AwaitsDeletion(c, op) ==
  call' = [call EXCEPT ![c] = [pc |-> "deleting", op |-> op, id |-> session.id]]

\* stop(): a stop that stands is only repeated
Stop(c) ==
  /\ call[c] = Idle
  /\ mode' = "deliberate"
  /\ alarm' = FALSE
  /\ IF mode # "deliberate" THEN Awaits(c, "stopWait")
     ELSE IF HasSession THEN AwaitsDeletion(c, "stop")
     ELSE UNCHANGED call
  /\ UNCHANGED <<session, recovery, handler, world, disarmed>>

\* Mutant: stop() and drain() do not wait.
InFlightEndedAlways == TRUE

\* #waitForInFlight: the only tracked work is the handler's
InFlightEnded == handler = Idle

StopWaited(c) ==
  /\ call[c].pc = "stopWait" /\ InFlightEnded
  /\ IF HasSession THEN AwaitsDeletion(c, "stop") ELSE Returns(c)
  /\ UNCHANGED <<storage, handler, world, disarmed>>

Resumes ==
  /\ mode' = "running"
  /\ recovery' = [c \in Conditions |-> NoRecord]
  /\ alarm' = TRUE
  /\ disarmed' = "no"

\* resume(): a running listener is only armed
Resume(c) ==
  /\ call[c] = Idle
  /\ IF mode = "running"
       THEN /\ alarm' = TRUE /\ disarmed' = "no"
            /\ UNCHANGED <<mode, recovery, call>>
       ELSE IF HasSession
         THEN AwaitsDeletion(c, "resume")
              /\ UNCHANGED <<mode, recovery, alarm, disarmed>>
         ELSE Resumes /\ UNCHANGED call
  /\ UNCHANGED <<session, handler, world>>

\* Mutant: a timer restarts whatever is stopped.
RearmableAlways == TRUE

Rearmable == mode # "deliberate"

\* rearm(): a timer cannot undo an operator's decision
Rearm ==
  /\ Rearmable /\ intrusions < MaxIntrusions
  /\ intrusions' = intrusions + 1
  /\ mode' = "running"
  /\ recovery' = [c \in Conditions |-> NoRecord]
  /\ alarm' = TRUE
  /\ disarmed' = "no"
  /\ UNCHANGED <<session, handler, call, enabled, server, work>>

\* drain(): refused while stopped
Drain(c) ==
  /\ call[c] = Idle /\ ~Stopped
  /\ mode' = "drained"
  /\ Awaits(c, "drainWait")
  /\ UNCHANGED <<session, recovery, alarm, handler, world, disarmed>>

DrainWaited(c) ==
  /\ call[c].pc = "drainWait" /\ InFlightEnded
  /\ Awaits(c, "settling")
  /\ UNCHANGED <<storage, handler, world, disarmed>>

\* A running listener loses its alarm to the settlement of a drain
DrainDisarms ==
  /\ alarm' = FALSE
  /\ disarmed' = IF mode = "running" /\ alarm THEN "drain" ELSE disarmed

\* #settleDrain: nothing outstanding, and no handler or poll in flight
DrainSettles(c) ==
  /\ call[c].pc = "settling"
  /\ IF Quiet /\ handler = Idle
       THEN IF HasSession
              THEN AwaitsDeletion(c, "drain") /\ UNCHANGED <<alarm, disarmed>>
              ELSE Returns(c) /\ DrainDisarms
       ELSE Returns(c) /\ alarm' = TRUE /\ UNCHANGED disarmed
  /\ UNCHANGED <<mode, session, recovery, handler, world>>

\* The inventory is missing, or the settlement throws: the stored messages
\* may find the session expired.
DrainGivesUp(c) ==
  /\ call[c].pc = "settling"
  /\ Returns(c)
  /\ \/ alarm' = TRUE /\ UNCHANGED session
     \/ UNCHANGED <<alarm, session>>
     \/ session.whole /\ server # session.id
        /\ session' = Blank /\ UNCHANGED alarm
  /\ UNCHANGED <<mode, recovery, handler, world, disarmed>>

\* The reply of a deletion: stop and resume go on when it failed, drain throws
CallDeletes(c) ==
  /\ call[c].pc = "deleting"
  /\ Returns(c)
  /\ \/ session' = Blank /\ server' = Gone(call[c].id)
     \/ UNCHANGED session /\ server' \in {server, Gone(call[c].id)}
        /\ call[c].op # "drain"
  /\ CASE call[c].op = "resume" -> Resumes
       [] call[c].op = "drain"  -> DrainDisarms
                                   /\ UNCHANGED <<mode, recovery>>
       [] OTHER -> UNCHANGED <<mode, recovery, alarm, disarmed>>
  /\ UNCHANGED <<handler, enabled, work, intrusions>>

DrainDeletionThrows(c) ==
  /\ call[c].pc = "deleting" /\ call[c].op = "drain"
  /\ Returns(c)
  /\ server' \in {server, Gone(call[c].id)}
  /\ UNCHANGED <<storage, handler, enabled, work, intrusions, disarmed>>

-----------------------------------------------------------------------------
(***************************************************************************)
(* The surroundings.                                                       *)
(***************************************************************************)
\* GitHub ends a session nobody polls.
ServerExpires ==
  /\ server # NoSession
  /\ server' = NoSession
  /\ UNCHANGED <<storage, handler, call, enabled, work, intrusions, disarmed>>

\* Runners end, rows are settled.
WorkEnds ==
  /\ work
  /\ work' = FALSE
  /\ UNCHANGED <<storage, handler, call, enabled, server, intrusions, disarmed>>

\* An eviction, or a deployment that may disable the listener.  The alarm in
\* delivery is retried unless the handler had deleted it.
Evict ==
  /\ intrusions < MaxIntrusions
  /\ intrusions' = intrusions + 1
  /\ handler' = Idle
  /\ call' = [c \in Calls |-> Idle]
  /\ enabled' \in {enabled, FALSE}
  /\ alarm' \in IF handler = Idle THEN {alarm} ELSE {alarm, TRUE}
  /\ disarmed' = IF mode = "running" /\ ~alarm' /\ handler # Idle
                   THEN "eviction" ELSE disarmed
  /\ UNCHANGED <<mode, session, recovery, server, work>>

-----------------------------------------------------------------------------
LifecycleInit ==
  /\ mode = "running" /\ session = Blank
  /\ recovery = [c \in Conditions |-> NoRecord]
  /\ alarm = TRUE
  /\ handler = Idle /\ call = [c \in Calls |-> Idle]
  /\ enabled = TRUE /\ server = NoSession /\ work = FALSE
  /\ intrusions = 0
  /\ disarmed = "no"

HandlerStep ==
  \/ GateCloses \/ GateStaysOpen
  \/ KillSwitch \/ ControlOpen \/ ControlThrows
  \/ SessionCreated \/ SessionMalformed \/ SessionReplyLost
  \/ SessionRefused \/ SessionConflict
  \/ PollReturns \/ PollExpired \/ TokenExpired \/ Refreshed \/ PollThrows
  \/ PassEnds \/ PassThrows
  \/ RoutingStops \/ RoutingGateCloses \/ RoutingGateStaysOpen
  \/ SessionDeleted \/ DeletionThrows
  \/ AlarmSettles \/ AlarmCannotSettle \/ SettlingThrows
  \/ StorageFull \/ ExitHandler

CallStep(c) ==
  \/ Stop(c) \/ StopWaited(c)
  \/ Resume(c)
  \/ Drain(c) \/ DrainWaited(c) \/ DrainSettles(c) \/ DrainGivesUp(c)
  \/ CallDeletes(c) \/ DrainDeletionThrows(c)

LifecycleNext ==
  \/ AlarmFires
  \/ HandlerStep
  \/ \E c \in Calls : CallStep(c)
  \/ Rearm
  \/ \E c \in Conditions : PauseEnds(c)
  \/ ServerExpires \/ WorkEnds \/ Evict

LifecycleSpec == LifecycleInit /\ [][LifecycleNext]_vars

(***************************************************************************)
(* A due alarm is delivered, an await ends, a pause passes, and the outage *)
(* gate does not refuse to close for ever.                                 *)
(***************************************************************************)
LifecycleFairness ==
  /\ WF_vars(AlarmFires) /\ WF_vars(HandlerStep) /\ SF_vars(GateCloses)
  /\ \A c \in Conditions : WF_vars(PauseEnds(c))

LiveLifecycleSpec == LifecycleSpec /\ LifecycleFairness

-----------------------------------------------------------------------------
(***************************************************************************)
(* Properties.                                                             *)
(***************************************************************************)
Frames ==
  {Idle} \cup [pc : {"control"}, first : BOOLEAN]
  \cup [pc : {"creating", "working", "routing", "settling"}]
  \cup [pc : {"polling"}, id : Sessions, again : BOOLEAN]
  \cup [pc : {"refreshing"}, id : Sessions]
  \cup [pc : {"closing"}, cond : Conditions,
        from : {"recover", "conflict", "defer"}]
  \cup [pc : {"deleting"}, id : Sessions, next : {"exhausted"},
        out : {"recover", "conflict", "defer"}]
  \cup [pc : {"deleting"}, id : Sessions,
        next : {"shutdown", "kill", "settled", "routing", "replace",
                "failure", "terminal"},
        out : {"alarmless", "disabled", "other"}]
  \cup [pc : {"exit"}, out : {"alarmless", "disabled", "other"}]

CallFrames ==
  {Idle} \cup [pc : {"stopWait", "drainWait", "settling"}]
  \cup [pc : {"deleting"}, op : {"stop", "resume", "drain"}, id : Sessions]

\* The variables keep their types; a recovery record never counts further
\* than it may be retried.
LifecycleTypeOK ==
  /\ mode \in {"running", "drained", "deliberate", "failed"}
  /\ session \in [id : Sessions \cup {NoSession}, whole : BOOLEAN]
  /\ recovery \in [Conditions -> [tries : 0 .. MaxTries, due : BOOLEAN,
                                  done : BOOLEAN]]
  /\ alarm \in BOOLEAN
  /\ handler \in Frames /\ call \in [Calls -> CallFrames]
  /\ enabled \in BOOLEAN /\ server \in Sessions \cup {NoSession}
  /\ work \in BOOLEAN /\ intrusions \in 0 .. MaxIntrusions
  /\ disarmed \in {"no", "drain", "eviction"}

UsesSession == handler.pc \in {"creating", "polling", "refreshing", "working"}

\* A listener that was stopped or drained still polls only while the request
\* that did it is waiting: once stop() or drain() has gone on, no handler
\* polls, takes a message or creates a session behind its back.
PollsOnlyWhileAwaited ==
  UsesSession /\ mode # "running" =>
    \E c \in Calls : call[c].pc \in {"stopWait", "drainWait"}

ResumeEnds(c) == Resume(c) \/ (CallDeletes(c) /\ call[c].op = "resume")

\* A deliberate stop is ended by resume(), never by a rearm, a drain or an
\* alarm that fires: but a handler that fails while stop() still waits for it
\* writes its own reason over the operator's (AnsweredStop says what comes of
\* that).
DeliberateStopHolds ==
  [][ mode = "deliberate" /\ mode' # mode =>
        \/ \E c \in Calls : ResumeEnds(c)
        \/ /\ mode' = "failed" /\ handler # Idle
           /\ \E c \in Calls : call[c].pc = "stopWait" ]_vars

\* Nothing but the settlement of a drain that a resume overtook, or an
\* eviction between the last two awaits of the handler, leaves a running
\* listener without an alarm.
RunningIsArmed ==
  mode = "running" /\ enabled /\ handler = Idle /\ disarmed = "no" => alarm

\* A running listener polls again or stops, whatever GitHub and the ledger
\* answer and whichever session it lost, unless the gate refuses for ever to
\* close or the storage is full again and again: no recovery loops for ever.
PollsOrStops ==
  (mode = "running" /\ enabled /\ disarmed = "no") ~>
    (handler.pc = "polling" \/ mode # "running" \/ ~enabled
       \/ disarmed # "no")
=============================================================================
