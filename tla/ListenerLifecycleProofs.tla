---------------------- MODULE ListenerLifecycleProofs ----------------------
(***************************************************************************)
(* Proofs about the life of the listener, for any number of requests,      *)
(* sessions, retries and intrusions.                                       *)
(***************************************************************************)
EXTENDS ListenerLifecycle, TLAPS

-----------------------------------------------------------------------------
(***************************************************************************)
(* The invariants.                                                         *)
(***************************************************************************)
\* The handler is on its way to, in, or behind a call that uses the session
\* and may come to the next one.
InLoop(frame) ==
  \/ frame.pc \in {"control", "creating", "polling", "refreshing", "working"}
  \/ frame.pc = "deleting" /\ frame.next = "replace"

\* The handler can do nothing but end.
Quitting(frame) ==
  \/ frame.pc \in {"idle", "exit"}
  \/ frame.pc = "deleting" /\ frame.next = "shutdown"

\* The handler ends because the deployed version is disabled.
Disabling(frame) ==
  frame.pc \in {"deleting", "exit"} /\ frame.out = "disabled"

Awaited == \E c \in Calls : call[c].pc \in {"stopWait", "drainWait"}

LoopInv == InLoop(handler) /\ mode # "running" => Awaited
StopInv ==
  mode = "deliberate" =>
    Quitting(handler) \/ \E c \in Calls : call[c].pc = "stopWait"
DisabledInv == Disabling(handler) => ~enabled

-----------------------------------------------------------------------------
(***************************************************************************)
(* The frames.                                                             *)
(***************************************************************************)
Causes == {"recover", "conflict", "defer"}
Outcomes == {"alarmless", "disabled", "other"}
Nexts == {"shutdown", "kill", "exhausted", "settled", "routing", "replace",
          "failure", "terminal"}
OutcomesOf(next) == IF next = "exhausted" THEN Causes ELSE Outcomes
Table == [Conditions -> [tries : 0 .. MaxTries, due : BOOLEAN,
                         done : BOOLEAN]]

LEMMA ExitFrame ==
  ASSUME NEW out \in Outcomes
  PROVE  Exit(out) \in Frames
BY DEF Exit, Frames, Outcomes

LEMMA DeletingFrame ==
  ASSUME NEW id \in Sessions, NEW next \in Nexts,
         NEW out \in OutcomesOf(next)
  PROVE  [pc |-> "deleting", id |-> id, next |-> next, out |-> out] \in Frames
BY DEF Frames, Nexts, Causes, Outcomes, OutcomesOf

LEMMA ClosingFrame ==
  ASSUME NEW c \in Conditions, NEW from \in Causes
  PROVE  [pc |-> "closing", cond |-> c, from |-> from] \in Frames
BY DEF Frames, Causes

LEMMA SimpleFrames ==
  /\ Idle \in Frames
  /\ [pc |-> "creating"] \in Frames /\ [pc |-> "working"] \in Frames
  /\ [pc |-> "routing"] \in Frames /\ [pc |-> "settling"] \in Frames
  /\ \A first \in BOOLEAN : [pc |-> "control", first |-> first] \in Frames
  /\ \A id \in Sessions, again \in BOOLEAN :
       [pc |-> "polling", id |-> id, again |-> again] \in Frames
  /\ \A id \in Sessions : [pc |-> "refreshing", id |-> id] \in Frames
BY DEF Frames, Idle

\* What the fields of a frame may hold.
LEMMA FrameFields ==
  ASSUME NEW f \in Frames
  PROVE  /\ f.pc \in {"polling", "refreshing", "deleting"} => f.id \in Sessions
         /\ f.pc = "closing" => f.cond \in Conditions /\ f.from \in Causes
         /\ f.pc = "deleting" => /\ f.next \in Nexts
                                 /\ f.out \in OutcomesOf(f.next)
         /\ f.pc = "exit" => f.out \in Outcomes
         /\ f.pc = "control" => f.first \in BOOLEAN
         /\ f.pc = "idle" => f = Idle
BY DEF Frames, Idle, Causes, Nexts, Outcomes, OutcomesOf

LEMMA CallFrameFields ==
  ASSUME NEW f \in CallFrames
  PROVE  /\ f.pc = "deleting" => f.id \in Sessions
                                 /\ f.op \in {"stop", "resume", "drain"}
         /\ f.pc = "idle" => f = Idle
BY DEF CallFrames, Idle

LEMMA CallFramesMade ==
  /\ Idle \in CallFrames
  /\ \A pc \in {"stopWait", "drainWait", "settling"} : [pc |-> pc] \in CallFrames
  /\ \A id \in Sessions, op \in {"stop", "resume", "drain"} :
       [pc |-> "deleting", op |-> op, id |-> id] \in CallFrames
BY DEF CallFrames, Idle

\* GitHub's next identifier is one, while the handler creates a session.
LEMMA FreshType ==
  ASSUME LifecycleTypeOK, handler.pc = "creating", server = NoSession
  PROVE  Fresh \in Sessions /\ Fresh # NoSession
<1> DEFINE used == [c \in Calls |-> IF call[c].pc = "deleting"
                                      THEN call[c].id ELSE NoSession]
<1>1. used \in [Calls -> Sessions \cup {NoSession}]
  <2>1. \A c \in Calls : call[c] \in CallFrames
    BY DEF LifecycleTypeOK
  <2> QED
    BY <2>1, CallFrameFields
<1>2. session.id \in Sessions \cup {NoSession}
  BY DEF LifecycleTypeOK
<1>3. PICK fresh \in Sessions \ {session.id} : \A c \in Calls : used[c] # fresh
  BY <1>1, <1>2, LifecycleAssumption
<1>4. \A c \in Calls : call[c].pc \in {"idle", "stopWait", "drainWait",
                                       "settling", "deleting"}
  BY DEF LifecycleTypeOK, CallFrames, Idle
<1>5. fresh # NoSession
  BY LifecycleAssumption
<1>6. fresh \notin Remembered
  BY <1>3, <1>4, <1>5 DEF Remembered
<1>7. \E s \in Sessions : s \notin Remembered
  BY <1>6
<1>8. Fresh \in Sessions
  BY <1>7 DEF Fresh
<1> QED
  BY <1>8, LifecycleAssumption

-----------------------------------------------------------------------------
(***************************************************************************)
(* What a step of the handler does.                                        *)
(***************************************************************************)
Retyped ==
  /\ handler' \in Frames /\ recovery' \in Table /\ alarm' \in BOOLEAN

\* The handler goes on to leave its loop.
Leaves ==
  /\ Retyped
  /\ handler' # Idle /\ ~InLoop(handler') /\ ~Disabling(handler')

\* The handler may come back to the head of its loop.
Loops ==
  /\ handler' \in Frames /\ recovery' \in Table
  /\ handler' # Idle /\ ~Disabling(handler')
  /\ InLoop(handler') => mode = "running"

LEMMA EndsOutcome ==
  ASSUME NEW exhausted \in BOOLEAN, NEW from
  PROVE  Ends(exhausted, from) \in {"alarmless", "other"}
BY DEF Ends

LEMMA WithoutType ==
  ASSUME NEW table \in Table, NEW S
  PROVE  Without(table, S) \in Table
BY LifecycleAssumption DEF Table, Without, NoRecord

LEMMA ExitLeaves ==
  ASSUME NEW out \in {"alarmless", "other"}, handler' = Exit(out)
  PROVE  /\ handler' \in Frames /\ handler' # Idle
         /\ ~InLoop(handler') /\ ~Disabling(handler')
<1>1. handler' \in Frames
  BY ExitFrame DEF Outcomes
<1> QED
  BY <1>1 DEF Exit, Idle, InLoop, Disabling

LEMMA DeletingLeaves ==
  ASSUME NEW id \in Sessions, NEW next \in Nexts \ {"replace"},
         NEW out \in OutcomesOf(next) \ {"disabled"},
         handler' = [pc |-> "deleting", id |-> id, next |-> next, out |-> out]
  PROVE  /\ handler' \in Frames /\ handler' # Idle
         /\ ~InLoop(handler') /\ ~Disabling(handler')
<1>1. handler' \in Frames
  BY DeletingFrame
<1> QED
  BY <1>1 DEF Idle, InLoop, Disabling, Causes

LEMMA RecordLeaves ==
  ASSUME recovery \in Table, NEW c \in Conditions, NEW from \in Causes,
         Record(c, from)
  PROVE  Leaves
<1> DEFINE tries == TriesAfter(recovery[c])
<1>1. tries \in 0 .. MaxTries
  BY LifecycleAssumption DEF TriesAfter, Table
<1>2. recovery' \in Table
  <2>1. [tries |-> tries, due |-> FALSE, done |-> FALSE]
          \in [tries : 0 .. MaxTries, due : BOOLEAN, done : BOOLEAN]
    BY <1>1
  <2>2. \/ recovery' = recovery
        \/ recovery' = [recovery EXCEPT
             ![c] = [tries |-> tries, due |-> FALSE, done |-> FALSE]]
    BY DEF Record
  <2> QED
    BY <2>1, <2>2 DEF Table
<1>3. alarm' \in BOOLEAN
  BY DEF Record
<1>4. CASE handler' = [pc |-> "closing", cond |-> c, from |-> from]
  <2>1. handler' \in Frames
    BY <1>4, ClosingFrame
  <2> QED
    BY <1>2, <1>3, <1>4, <2>1 DEF Leaves, Retyped, Idle, InLoop, Disabling
<1>5. CASE \E out \in {"alarmless", "other"} : handler' = Exit(out)
  BY <1>2, <1>3, <1>5, ExitLeaves DEF Leaves, Retyped
<1> QED
  BY <1>4, <1>5, EndsOutcome DEF Record

LEMMA RecoversLeaves ==
  ASSUME LifecycleTypeOK, NEW kind \in Conditions, NEW s,
         s.id \in Sessions \cup {NoSession}, Recovers(kind, s)
  PROVE  Leaves
<1>1. recovery \in Table /\ alarm \in BOOLEAN
  BY DEF LifecycleTypeOK, Table
<1>2. CASE kind = "alarm-failure" /\ s.id # NoSession
  <2>1. handler' \in Frames /\ handler' # Idle
        /\ ~InLoop(handler') /\ ~Disabling(handler')
    BY <1>2, DeletingLeaves DEF Recovers, Nexts, Outcomes, OutcomesOf
  <2> QED
    BY <1>1, <1>2, <2>1 DEF Recovers, Leaves, Retyped
<1>3. CASE ~(kind = "alarm-failure" /\ s.id # NoSession)
  BY <1>1, <1>3, RecordLeaves DEF Recovers, Causes
<1> QED
  BY <1>2, <1>3

LEMMA ThrowsLeaves ==
  ASSUME LifecycleTypeOK, Throws
  PROVE  Leaves
<1>1. session.id \in Sessions \cup {NoSession}
  BY DEF LifecycleTypeOK
<1> QED
  BY <1>1, RecoversLeaves DEF Throws, Throwable, Conditions

LEMMA LoopHeadLoops ==
  ASSUME NEW table \in Table, LoopHead(table)
  PROVE  Loops
<1>1. CASE HandsOff(table)
  BY <1>1, ExitLeaves, WithoutType DEF HandsOff, Loops
<1>2. CASE mode = "running" /\ handler' = [pc |-> "control", first |-> FALSE]
           /\ recovery' = table
  <2>1. handler' \in Frames
    BY <1>2, SimpleFrames
  <2> QED
    BY <1>2, <2>1 DEF Loops, Idle, Disabling
<1> QED
  BY <1>1, <1>2 DEF LoopHead, Proceeds

LEMMA ProceedsLoops ==
  ASSUME NEW table \in Table, Proceeds(table)
  PROVE  Loops
BY LoopHeadLoops DEF LoopHead

\* The types, and that a session whose queue is known has a name.
Typed == LifecycleTypeOK /\ (session.whole => HasSession)

\* What any step of the handler leaves alone, does to the mode, and where it
\* can take the handler.
Steps ==
  /\ Typed'
  /\ UNCHANGED <<call, enabled, disarmed>>
  /\ mode' # mode => mode' = "failed" /\ ~Quitting(handler)
  /\ InLoop(handler') => mode' = mode /\ (InLoop(handler) \/ mode = "running")
  /\ Quitting(handler) => Quitting(handler')
  /\ Disabling(handler') => Disabling(handler)
  /\ handler' = Idle => mode' = mode /\ handler.pc = "exit" /\ alarm' = ExitAlarm

Rest ==
  /\ mode' \in {"running", "drained", "deliberate", "failed"}
  /\ session' \in [id : Sessions \cup {NoSession}, whole : BOOLEAN]
  /\ session'.whole => session'.id # NoSession
  /\ server' \in Sessions \cup {NoSession}
  /\ work' \in BOOLEAN /\ intrusions' \in 0 .. MaxIntrusions
  /\ UNCHANGED <<call, enabled, disarmed>>

LEMMA RetypedType ==
  ASSUME LifecycleTypeOK, Retyped, Rest
  PROVE  Typed'
BY DEF Typed, HasSession, LifecycleTypeOK, Retyped, Rest, Table

LEMMA LeavingSteps ==
  ASSUME LifecycleTypeOK, Leaves, Rest, ~Quitting(handler),
         mode' # mode => mode' = "failed"
  PROVE  Steps
BY RetypedType DEF Leaves, Rest, Steps

LEMMA LoopingSteps ==
  ASSUME LifecycleTypeOK, Loops, Rest, alarm' \in BOOLEAN, mode' = mode,
         ~Quitting(handler)
  PROVE  Steps
BY RetypedType DEF Loops, Rest, Steps, Retyped

LEMMA ExpiredLeaves ==
  ASSUME Typed, Expired
  PROVE  Leaves /\ Rest /\ mode' = mode
<1>1. Leaves
  BY RecoversLeaves DEF Typed, Expired, Blank, Conditions
<1>2. Rest /\ mode' = mode
  BY DEF Typed, LifecycleTypeOK, Expired, Blank, Rest, world
<1> QED
  BY <1>1, <1>2

\* The handler has tried to delete a session and has nothing left to do.
LEMMA EndingSteps ==
  ASSUME LifecycleTypeOK, Rest, mode' = mode, handler.pc = "deleting",
         handler.next \in {"shutdown", "kill", "exhausted"},
         handler.out \in OutcomesOf(handler.next),
         alarm' = FALSE, UNCHANGED recovery,
         handler' = Exit(IF handler.next = "exhausted"
                           THEN Ends(TRUE, handler.out) ELSE handler.out)
  PROVE  Steps
<1>1. handler' \in Frames /\ handler' # Idle /\ Quitting(handler')
      /\ ~InLoop(handler')
  <2>1. CASE handler.next = "exhausted"
    BY <2>1, EndsOutcome, ExitLeaves DEF Exit, Quitting
  <2>2. CASE handler.next # "exhausted"
    BY <2>2, ExitFrame DEF OutcomesOf, Exit, Idle, Quitting, InLoop
  <2> QED
    BY <2>1, <2>2
<1>2. Disabling(handler') => Disabling(handler)
  BY EndsOutcome DEF Exit, Disabling
<1> QED
  BY <1>1, <1>2, RetypedType DEF LifecycleTypeOK, Table, Rest, Retyped, Steps

LEMMA HandlerSteps ==
  ASSUME Typed, HandlerStep
  PROVE  Steps
<1>0. /\ LifecycleTypeOK /\ recovery \in Table /\ alarm \in BOOLEAN /\ handler \in Frames
      /\ session \in [id : Sessions \cup {NoSession}, whole : BOOLEAN]
      /\ server \in Sessions \cup {NoSession} /\ work \in BOOLEAN
      /\ mode \in {"running", "drained", "deliberate", "failed"}
      /\ intrusions \in 0 .. MaxIntrusions
      /\ session.whole => session.id # NoSession
  BY DEF Typed, HasSession, LifecycleTypeOK, Table
<1>a. CASE GateCloses
  <2>1. handler.pc = "closing" /\ handler.from \in Causes
        /\ handler.cond \in Conditions
    BY <1>0, <1>a, FrameFields DEF GateCloses
  <2>2. recovery' \in Table /\ alarm' \in BOOLEAN
    BY <1>0, <1>a, <2>1 DEF GateCloses, Exhausts, Table
  <2>3. ASSUME HasSession PROVE Leaves
    <3>1. handler' = [pc |-> "deleting", id |-> session.id,
                      next |-> "exhausted", out |-> handler.from]
      BY <1>a, <2>3 DEF GateCloses, Exhausts, Deleting
    <3>2. session.id \in Sessions
      BY <1>0, <2>3 DEF HasSession
    <3> QED
      BY <2>1, <2>2, <3>1, <3>2, DeletingLeaves
         DEF Leaves, Retyped, Nexts, Causes, OutcomesOf
  <2>4. ASSUME ~HasSession PROVE Leaves
    <3>1. handler' = Exit("alarmless")
      BY <1>a, <2>4 DEF GateCloses, Exhausts
    <3> QED
      BY <2>2, <3>1, ExitLeaves DEF Leaves, Retyped
  <2>5. Rest /\ mode' = "failed" /\ ~Quitting(handler)
    BY <1>0, <1>a, <2>1 DEF GateCloses, Exhausts, Rest, Quitting, world
  <2> QED
    BY <1>0, <2>3, <2>4, <2>5, LeavingSteps
<1>b. CASE GateStaysOpen
  <2>1. Leaves
    BY <1>0, <1>b, ExitLeaves, RecoversLeaves
       DEF GateStaysOpen, Conditions, Leaves, Retyped
  <2>2. Rest /\ mode' = mode /\ ~Quitting(handler)
    BY <1>0, <1>b DEF GateStaysOpen, Rest, Quitting, world
  <2> QED
    BY <1>0, <2>1, <2>2, LeavingSteps
<1>c. CASE KillSwitch
  <2>1. handler' \in Frames /\ handler' # Idle
        /\ ~InLoop(handler') /\ ~Disabling(handler')
    BY <1>0, <1>c, ExitLeaves, DeletingLeaves
       DEF KillSwitch, Deleting, HasSession, Nexts, Outcomes, OutcomesOf
  <2>2. recovery' \in Table /\ alarm' \in BOOLEAN
    BY <1>0, <1>c DEF KillSwitch
  <2>3. Rest /\ mode' = "failed" /\ ~Quitting(handler)
    BY <1>0, <1>c DEF KillSwitch, Rest, Quitting, world
  <2> QED
    BY <1>0, <2>1, <2>2, <2>3, LeavingSteps DEF Leaves, Retyped
<1>d. CASE ControlOpen
  <2>1. Rest /\ mode' = mode /\ InLoop(handler) /\ ~Quitting(handler)
    BY <1>0, <1>d DEF ControlOpen, Rest, Quitting, InLoop, world
  <2>2. CASE Proceeds(recovery) /\ UNCHANGED alarm
    BY <1>0, <2>1, <2>2, ProceedsLoops, LoopingSteps
  <2>3. CASE Recovers("alarm-failure", session)
    BY <1>0, <2>1, <2>3, RecoversLeaves, LeavingSteps DEF Conditions
  <2>4. CASE UNCHANGED <<alarm, recovery>>
             /\ \/ handler' = Deleting("replace", "other") /\ HasSession
                \/ handler' = [pc |-> "creating"]
                \/ handler' = [pc |-> "polling", id |-> session.id,
                               again |-> FALSE] /\ session.whole
    <3>1. handler' \in Frames
      BY <1>0, <2>4, DeletingFrame, SimpleFrames
         DEF Deleting, HasSession, Nexts, Outcomes, OutcomesOf
    <3>2. handler' # Idle /\ ~Disabling(handler')
      BY <2>4 DEF Deleting, Idle, Disabling
    <3> QED
      BY <1>0, <2>1, <2>4, <3>1, <3>2, RetypedType DEF Steps, Rest, Retyped
  <2> QED
    BY <1>d, <2>2, <2>3, <2>4 DEF ControlOpen
<1>e. CASE ControlThrows
  <2>1. Rest /\ mode' = mode /\ ~Quitting(handler)
    BY <1>0, <1>e DEF ControlThrows, Rest, Quitting, world
  <2> QED
    BY <1>0, <1>e, <2>1, ThrowsLeaves, LeavingSteps DEF ControlThrows
<1>f. CASE SessionCreated
  <2>1. Fresh \in Sessions /\ Fresh # NoSession
    BY <1>0, <1>f, FreshType DEF SessionCreated
  <2>2. Rest /\ mode' = mode /\ ~Quitting(handler) /\ alarm' = alarm
    BY <1>0, <1>f, <2>1 DEF SessionCreated, Whole, Rest, Quitting
  <2>3. Loops
    BY <1>0, <1>f, ProceedsLoops, WithoutType DEF SessionCreated
  <2> QED
    BY <1>0, <2>2, <2>3, LoopingSteps
<1>g. CASE SessionMalformed
  <2>1. Fresh \in Sessions /\ Fresh # NoSession
    BY <1>0, <1>g, FreshType DEF SessionMalformed
  <2>2. Rest /\ mode' = mode /\ ~Quitting(handler)
    BY <1>0, <1>g, <2>1 DEF SessionMalformed, Rest, Quitting
  <2>3. Recovers("alarm-failure", [id |-> Fresh, whole |-> FALSE])
    BY <1>g DEF SessionMalformed
  <2>4. Leaves
    BY <1>0, <2>1, <2>3, RecoversLeaves DEF Conditions
  <2> QED
    BY <1>0, <2>2, <2>4, LeavingSteps
<1>h. CASE SessionReplyLost
  <2>1. Fresh \in Sessions
    BY <1>0, <1>h, FreshType DEF SessionReplyLost
  <2>2. Rest /\ mode' = mode /\ ~Quitting(handler)
    BY <1>0, <1>h, <2>1 DEF SessionReplyLost, Rest, Quitting
  <2> QED
    BY <1>0, <1>h, <2>2, ThrowsLeaves, LeavingSteps DEF SessionReplyLost
<1>i. CASE SessionRefused
  <2>1. Rest /\ mode' = mode /\ ~Quitting(handler)
    BY <1>0, <1>i DEF SessionRefused, Rest, Quitting, world
  <2>2. Leaves
    BY <1>0, <1>i, RecoversLeaves DEF SessionRefused, Throwable, Conditions
  <2> QED
    BY <1>0, <2>1, <2>2, LeavingSteps
<1>j. CASE SessionConflict
  <2>1. Rest /\ mode' = mode /\ ~Quitting(handler)
    BY <1>0, <1>j DEF SessionConflict, Rest, Quitting, world
  <2>2. Leaves
    BY <1>0, <1>j, RecordLeaves DEF SessionConflict, Conditions, Causes
  <2> QED
    BY <1>0, <2>1, <2>2, LeavingSteps
<1>k. CASE PollReturns
  <2>1. Rest /\ mode' = mode /\ InLoop(handler) /\ ~Quitting(handler)
        /\ alarm' = alarm
    BY <1>0, <1>k DEF PollReturns, Rest, Quitting, InLoop
  <2>2. recovery' \in Table
    BY <1>0, <1>k, WithoutType DEF PollReturns
  <2>3. handler' \in Frames /\ handler' # Idle /\ ~Disabling(handler')
    BY <1>k, SimpleFrames, ExitLeaves DEF PollReturns, Idle, Disabling
  <2> QED
    BY <1>0, <2>1, <2>2, <2>3, RetypedType DEF Steps, Rest, Retyped
<1>l. CASE PollExpired
  <2>1. Leaves /\ Rest /\ mode' = mode
    BY <1>0, <1>l, ExpiredLeaves DEF PollExpired
  <2>2. ~Quitting(handler)
    BY <1>l DEF PollExpired, Quitting
  <2> QED
    BY <1>0, <2>1, <2>2, LeavingSteps
<1>m. CASE TokenExpired
  <2>1. Rest /\ mode' = mode /\ InLoop(handler) /\ ~Quitting(handler)
    BY <1>0, <1>m DEF TokenExpired, Rest, Quitting, InLoop, world
  <2>2. CASE ~HasSession
    <3>1. Leaves
      BY <1>0, <1>m, <2>2, RecoversLeaves DEF TokenExpired, Conditions
    <3> QED
      BY <1>0, <2>1, <3>1, LeavingSteps
  <2>3. CASE HasSession
    <3>1. session.id \in Sessions
      BY <1>0, <2>3 DEF HasSession
    <3>2. /\ handler' \in {[pc |-> "refreshing", id |-> session.id],
                           Deleting("terminal", "other")}
          /\ UNCHANGED <<recovery, alarm>>
      BY <1>m, <2>3 DEF TokenExpired
    <3>3. handler' \in Frames
      BY <3>1, <3>2, SimpleFrames, DeletingFrame DEF Deleting, Nexts, Outcomes, OutcomesOf
    <3>4. handler' # Idle /\ ~Disabling(handler')
      BY <3>2 DEF Idle, Deleting, Disabling
    <3> QED
      BY <1>0, <2>1, <3>2, <3>3, <3>4, RetypedType DEF Steps, Rest, Retyped
  <2> QED
    BY <2>2, <2>3
<1>n. CASE Refreshed
  <2>1. handler.id \in Sessions
    BY <1>0, <1>n, FrameFields DEF Refreshed
  <2>2. handler.id # NoSession
    BY <2>1, LifecycleAssumption
  <2>3. Rest /\ mode' = mode /\ InLoop(handler) /\ ~Quitting(handler)
        /\ UNCHANGED <<recovery, alarm>>
    BY <1>0, <1>n, <2>1, <2>2
       DEF Refreshed, Whole, Rest, Quitting, InLoop, world
  <2>4. handler' \in Frames /\ handler' # Idle /\ ~Disabling(handler')
    BY <1>n, <2>1, SimpleFrames DEF Refreshed, Idle, Disabling
  <2> QED
    BY <1>0, <2>3, <2>4, RetypedType DEF Steps, Rest, Retyped
<1>o. CASE PollThrows
  <2>1. Rest /\ mode' = mode /\ ~Quitting(handler)
    BY <1>0, <1>o DEF PollThrows, Rest, Quitting, world
  <2> QED
    BY <1>0, <1>o, <2>1, ThrowsLeaves, LeavingSteps DEF PollThrows
<1>p. CASE PassEnds
  <2>1. Rest /\ mode' = mode /\ ~Quitting(handler) /\ alarm' = alarm
    BY <1>0, <1>p DEF PassEnds, Rest, Quitting, world
  <2> QED
    BY <1>0, <1>p, <2>1, LoopHeadLoops, LoopingSteps DEF PassEnds
<1>q. CASE PassThrows
  <2>1. ~Quitting(handler)
    BY <1>q DEF PassThrows, Quitting
  <2>2. CASE Throws /\ UNCHANGED <<mode, session, call, world, disarmed>>
    <3>1. Rest /\ mode' = mode
      BY <1>0, <2>2 DEF Rest, world
    <3> QED
      BY <1>0, <2>1, <2>2, <3>1, ThrowsLeaves, LeavingSteps
  <2>3. CASE Expired
    BY <1>0, <2>1, <2>3, ExpiredLeaves, LeavingSteps
  <2> QED
    BY <1>q, <2>2, <2>3 DEF PassThrows
<1>r. CASE RoutingStops
  <2>1. Rest /\ mode' = "failed" /\ ~Quitting(handler)
        /\ UNCHANGED <<recovery, alarm>>
    BY <1>0, <1>r DEF RoutingStops, Rest, Quitting, world
  <2>2. handler' \in Frames /\ handler' # Idle
        /\ ~InLoop(handler') /\ ~Disabling(handler')
    BY <1>r, SimpleFrames DEF RoutingStops, Idle, InLoop, Disabling
  <2> QED
    BY <1>0, <2>1, <2>2, LeavingSteps DEF Leaves, Retyped
<1>s. CASE RoutingGateCloses
  <2>1. Rest /\ mode' = mode /\ ~Quitting(handler)
    BY <1>0, <1>s DEF RoutingGateCloses, Rest, Quitting, world
  <2>2. CASE HasSession
    <3>1. session.id \in Sessions
      BY <1>0, <2>2 DEF HasSession
    <3>2. handler' = Deleting("routing", "other")
          /\ UNCHANGED <<alarm, recovery>>
      BY <1>s, <2>2 DEF RoutingGateCloses
    <3>3. Leaves
      BY <1>0, <3>1, <3>2, DeletingLeaves
         DEF Deleting, Leaves, Retyped, Nexts, Outcomes, OutcomesOf
    <3> QED
      BY <1>0, <2>1, <3>3, LeavingSteps
  <2>3. CASE ~HasSession
    BY <1>0, <1>s, <2>1, <2>3, LoopHeadLoops, LoopingSteps
       DEF RoutingGateCloses
  <2> QED
    BY <2>2, <2>3
<1>t. CASE RoutingGateStaysOpen
  <2>1. Leaves
    BY <1>0, <1>t, RecoversLeaves DEF RoutingGateStaysOpen, Conditions
  <2>2. Rest /\ mode' = mode /\ ~Quitting(handler)
    BY <1>0, <1>t DEF RoutingGateStaysOpen, Rest, Quitting, world
  <2> QED
    BY <1>0, <2>1, <2>2, LeavingSteps
<1>u. CASE SessionDeleted
  <2>1. Rest /\ mode' = mode /\ handler.pc = "deleting"
        /\ handler.next \in Nexts /\ handler.out \in OutcomesOf(handler.next)
    BY <1>0, <1>u, FrameFields DEF SessionDeleted, Rest, Gone, Blank
  <2>2. CASE handler.next = "shutdown"
    BY <1>0, <1>u, <2>1, <2>2, EndingSteps DEF SessionDeleted
  <2>3. CASE handler.next \in {"kill", "exhausted"}
    BY <1>0, <1>u, <2>1, <2>3, EndingSteps DEF SessionDeleted
  <2>4. CASE handler.next = "settled"
    <3>1. handler' = Exit("other") /\ alarm' = FALSE
          /\ recovery' = Without(recovery, {"alarm-failure"})
      BY <1>u, <2>4 DEF SessionDeleted
    <3>2. Leaves
      BY <1>0, <3>1, ExitLeaves, WithoutType DEF Leaves, Retyped
    <3> QED
      BY <1>0, <2>1, <2>4, <3>2, LeavingSteps DEF Quitting
  <2>5. CASE handler.next = "routing"
    <3>1. LoopHead(recovery) /\ alarm' = FALSE
      BY <1>u, <2>5 DEF SessionDeleted
    <3> QED
      BY <1>0, <2>1, <2>5, <3>1, LoopHeadLoops, LoopingSteps DEF Quitting
  <2>6. CASE handler.next = "replace"
    <3>1. handler' = [pc |-> "creating"] /\ UNCHANGED <<alarm, recovery>>
      BY <1>u, <2>6 DEF SessionDeleted
    <3>2. handler' \in Frames /\ handler' # Idle /\ ~Disabling(handler')
      BY <3>1, SimpleFrames DEF Idle, Disabling
    <3>3. InLoop(handler) /\ ~Quitting(handler)
      BY <2>1, <2>6 DEF InLoop, Quitting
    <3> QED
      BY <1>0, <2>1, <3>1, <3>2, <3>3, RetypedType DEF Steps, Rest, Retyped
  <2>7. CASE handler.next \in {"failure", "terminal"}
    <3>1. Record("alarm-failure", "recover")
      BY <1>u, <2>7 DEF SessionDeleted
    <3>2. Leaves
      BY <1>0, <3>1, RecordLeaves DEF Conditions, Causes
    <3> QED
      BY <1>0, <2>1, <2>7, <3>2, LeavingSteps DEF Quitting
  <2> QED
    BY <2>1, <2>2, <2>3, <2>4, <2>5, <2>6, <2>7 DEF Nexts
<1>v. CASE DeletionThrows
  <2>1. Rest /\ mode' = mode /\ handler.pc = "deleting"
        /\ handler.next \in Nexts /\ handler.out \in OutcomesOf(handler.next)
    BY <1>0, <1>v, FrameFields DEF DeletionThrows, Rest, Gone
  <2>2. CASE handler.next \in {"shutdown", "exhausted"}
    BY <1>0, <1>v, <2>1, <2>2, EndingSteps DEF DeletionThrows
  <2>3. CASE handler.next \notin {"shutdown", "exhausted"}
    <3>1. Throws \/ Record("alarm-failure", "recover")
      BY <1>v, <2>3 DEF DeletionThrows
    <3>2. Leaves
      BY <1>0, <3>1, ThrowsLeaves, RecordLeaves DEF Conditions, Causes
    <3> QED
      BY <1>0, <2>1, <2>3, <3>2, LeavingSteps DEF Quitting
  <2> QED
    BY <2>2, <2>3
<1>w. CASE AlarmSettles
  <2>1. Rest /\ mode' = mode /\ ~Quitting(handler)
    BY <1>0, <1>w DEF AlarmSettles, Rest, Quitting, world
  <2>2. CASE Quiet /\ HasSession
    <3>1. session.id \in Sessions
      BY <1>0, <2>2 DEF HasSession
    <3>2. handler' = Deleting("settled", "other")
          /\ UNCHANGED <<alarm, recovery>>
      BY <1>w, <2>2 DEF AlarmSettles
    <3>3. Leaves
      BY <1>0, <3>1, <3>2, DeletingLeaves
         DEF Deleting, Leaves, Retyped, Nexts, Outcomes, OutcomesOf
    <3> QED
      BY <1>0, <2>1, <3>3, LeavingSteps
  <2>3. CASE ~(Quiet /\ HasSession)
    <3>1. Leaves
      BY <1>0, <1>w, <2>3, ExitLeaves, WithoutType
         DEF AlarmSettles, Quiet, Leaves, Retyped
    <3> QED
      BY <1>0, <2>1, <3>1, LeavingSteps
  <2> QED
    BY <2>2, <2>3
<1>x. CASE AlarmCannotSettle
  <2>1. Rest /\ mode' = mode /\ ~Quitting(handler)
    BY <1>0, <1>x DEF AlarmCannotSettle, Rest, Quitting, world
  <2>2. Leaves
    BY <1>0, <1>x, ExitLeaves, WithoutType
       DEF AlarmCannotSettle, Leaves, Retyped
  <2> QED
    BY <1>0, <2>1, <2>2, LeavingSteps
<1>y. CASE SettlingThrows
  <2>1. ~Quitting(handler)
    BY <1>y DEF SettlingThrows, Quitting
  <2>2. CASE Throws /\ UNCHANGED <<mode, session, call, world, disarmed>>
    <3>1. Rest /\ mode' = mode
      BY <1>0, <2>2 DEF Rest, world
    <3> QED
      BY <1>0, <2>1, <2>2, <3>1, ThrowsLeaves, LeavingSteps
  <2>3. CASE Expired
    BY <1>0, <2>1, <2>3, ExpiredLeaves, LeavingSteps
  <2> QED
    BY <1>y, <2>2, <2>3 DEF SettlingThrows
<1>z. CASE StorageFull
  <2>1. server' \in Sessions \cup {NoSession}
    BY <1>0, <1>z, FreshType DEF StorageFull
  <2>2. intrusions' \in 0 .. MaxIntrusions
    BY <1>0, <1>z, LifecycleAssumption DEF StorageFull
  <2>3. Rest /\ mode' = mode /\ ~Quitting(handler)
    BY <1>0, <1>z, <2>1, <2>2 DEF StorageFull, Rest, Quitting
  <2>4. Leaves
    BY <1>0, <1>z, ExitLeaves DEF StorageFull, Leaves, Retyped
  <2> QED
    BY <1>0, <2>3, <2>4, LeavingSteps
<1>aa. CASE ExitHandler
  <2>1. Rest /\ mode' = mode /\ Quitting(handler) /\ recovery' = recovery
        /\ handler.pc = "exit" /\ handler' = Idle /\ alarm' = ExitAlarm
    BY <1>0, <1>aa DEF ExitHandler, Rest, Quitting, world
  <2>2. alarm' \in BOOLEAN
    BY <1>0, <2>1 DEF ExitAlarm
  <2>3. Idle \in Frames /\ Quitting(Idle) /\ ~InLoop(Idle) /\ ~Disabling(Idle)
    BY SimpleFrames DEF Idle, Quitting, InLoop, Disabling
  <2> QED
    BY <1>0, <2>1, <2>2, <2>3, RetypedType DEF Steps, Rest, Retyped
<1> QED
  BY <1>a, <1>b, <1>c, <1>d, <1>e, <1>f, <1>g, <1>h, <1>i, <1>j, <1>k, <1>l,
     <1>m, <1>n, <1>o, <1>p, <1>q, <1>r, <1>s, <1>t, <1>u, <1>v, <1>w, <1>x,
     <1>y, <1>z, <1>aa DEF HandlerStep

-----------------------------------------------------------------------------
(***************************************************************************)
(* The other steps.                                                        *)
(***************************************************************************)
\* An alarm begins a loop only in a running listener, and once the listener is
\* stopped or disabled it only deletes the session.
LEMMA AlarmSteps ==
  ASSUME Typed, AlarmFires
  PROVE  /\ Typed' /\ handler = Idle
         /\ UNCHANGED <<mode, call, enabled, disarmed>>
         /\ handler' # Idle
         /\ InLoop(handler') => mode = "running"
         /\ Stopped => Quitting(handler')
         /\ Disabling(handler') => ~enabled
<1>0. /\ LifecycleTypeOK /\ recovery \in Table
      /\ session \in [id : Sessions \cup {NoSession}, whole : BOOLEAN]
      /\ mode \in {"running", "drained", "deliberate", "failed"}
  BY DEF Typed, LifecycleTypeOK, Table
<1>1. Rest /\ UNCHANGED <<mode, recovery>> /\ handler = Idle
  BY DEF AlarmFires, Typed, HasSession, LifecycleTypeOK, Rest, world
<1>2. ASSUME NEW out \in {"alarmless", "disabled"}, ShutsDown(out)
      PROVE  /\ Retyped /\ Quitting(handler') /\ ~InLoop(handler')
             /\ handler' # Idle
             /\ Disabling(handler') => out = "disabled"
  <2>1. CASE HasSession
    <3>1. session.id \in Sessions
      BY <1>0, <2>1 DEF HasSession
    <3>2. handler' = Deleting("shutdown", out) /\ alarm' = TRUE
      BY <1>2, <2>1 DEF ShutsDown
    <3>3. handler' \in Frames
      BY <3>1, <3>2, DeletingFrame
         DEF Deleting, Nexts, Outcomes, OutcomesOf
    <3> QED
      BY <1>0, <1>1, <3>2, <3>3
         DEF Deleting, Retyped, Quitting, InLoop, Disabling, Idle
  <2>2. CASE ~HasSession
    <3>1. handler' = Exit(out) /\ alarm' = FALSE
      BY <1>2, <2>2 DEF ShutsDown
    <3>2. handler' \in Frames
      BY <3>1, ExitFrame DEF Outcomes
    <3> QED
      BY <1>0, <1>1, <3>1, <3>2
         DEF Exit, Retyped, Quitting, InLoop, Disabling, Idle
  <2> QED
    BY <2>1, <2>2
<1>3. CASE Stopped /\ ShutsDown("alarmless")
  BY <1>0, <1>1, <1>2, <1>3, RetypedType DEF Rest
<1>4. CASE ~Stopped /\ ~enabled /\ ShutsDown("disabled")
  BY <1>0, <1>1, <1>2, <1>4, RetypedType DEF Rest, Stopped
<1>5. CASE /\ ~Stopped /\ alarm' = TRUE
           /\ \/ Defers
              \/ handler' = IF mode = "drained" THEN [pc |-> "settling"]
                            ELSE [pc |-> "control", first |-> TRUE]
  <2>1. /\ handler' \in Frames /\ handler' # Idle /\ ~Disabling(handler')
        /\ InLoop(handler') => mode = "running"
    <3>1. CASE Defers
      <4>1. CASE \E c \in Conditions :
                   handler' = [pc |-> "closing", cond |-> c, from |-> "defer"]
        <5>1. PICK c \in Conditions :
                handler' = [pc |-> "closing", cond |-> c, from |-> "defer"]
          BY <4>1
        <5>2. handler' \in Frames
          BY <5>1, ClosingFrame DEF Causes
        <5> QED
          BY <5>1, <5>2 DEF Idle, InLoop, Disabling
      <4>2. CASE handler' = Exit("other")
        BY <4>2, ExitLeaves
      <4> QED
        BY <3>1, <4>1, <4>2 DEF Defers
    <3>2. CASE handler' = [pc |-> "settling"]
      BY <3>2, SimpleFrames DEF Idle, InLoop, Disabling
    <3>3. CASE mode = "running" /\ handler' = [pc |-> "control", first |-> TRUE]
      BY <3>3, SimpleFrames DEF Idle, Disabling
    <3> QED
      BY <1>0, <1>5, <3>1, <3>2, <3>3 DEF Stopped
  <2> QED
    BY <1>0, <1>1, <1>5, <2>1, RetypedType DEF Rest, Retyped
<1> QED
  BY <1>3, <1>4, <1>5 DEF AlarmFires

\* The part of a request's step that concerns the types.
CallTyped(c) ==
  /\ mode' \in {"running", "drained", "deliberate", "failed"}
  /\ recovery' \in Table /\ alarm' \in BOOLEAN
  /\ session' \in {session, Blank}
  /\ server' \in {server, NoSession}
  /\ disarmed' \in {"no", "drain", "eviction"}
  /\ UNCHANGED <<handler, enabled, work, intrusions>>
  /\ \/ UNCHANGED call
     \/ \E f \in CallFrames : call' = [call EXCEPT ![c] = f]

LEMMA CallTypedType ==
  ASSUME Typed, NEW c \in Calls, CallTyped(c)
  PROVE  Typed'
<1>1. /\ session' \in [id : Sessions \cup {NoSession}, whole : BOOLEAN]
      /\ session'.whole => session'.id # NoSession
      /\ server' \in Sessions \cup {NoSession}
  <2>1. session' = session \/ session' = [id |-> NoSession, whole |-> FALSE]
    BY DEF CallTyped, Blank
  <2>2. server' = server \/ server' = NoSession
    BY DEF CallTyped
  <2>3. /\ session \in [id : Sessions \cup {NoSession}, whole : BOOLEAN]
        /\ session.whole => session.id # NoSession
        /\ server \in Sessions \cup {NoSession}
    BY DEF Typed, LifecycleTypeOK, HasSession
  <2>4. CASE session' = session
    BY <2>2, <2>3, <2>4
  <2>5. CASE session' = [id |-> NoSession, whole |-> FALSE]
    BY <2>2, <2>3, <2>5
  <2> QED
    BY <2>1, <2>4, <2>5
<1>2. call' \in [Calls -> CallFrames]
  BY DEF Typed, LifecycleTypeOK, CallTyped
<1> QED
  BY <1>1, <1>2 DEF Typed, LifecycleTypeOK, HasSession, CallTyped, Table

LEMMA ResumesRunning ==
  ASSUME Resumes
  PROVE  mode' = "running" /\ alarm' = TRUE /\ recovery' \in Table
         /\ disarmed' = "no"
BY LifecycleAssumption DEF Resumes, Table, NoRecord

\* A request changes the mode only as its operator asked, waits where it says
\* so, and no one goes on waiting but while the handler runs.
LEMMA CallSteps ==
  ASSUME Typed, NEW c \in Calls, CallStep(c)
  PROVE  /\ Typed' /\ UNCHANGED <<handler, enabled>>
         /\ handler # Idle =>
              \A d \in Calls : call[d].pc \in {"stopWait", "drainWait"}
                                 => call'[d] = call[d]
         /\ mode' # mode =>
              \/ mode' = "running"
              \/ mode' = "deliberate" /\ call'[c].pc = "stopWait"
              \/ mode' = "drained" /\ ~Stopped /\ call'[c].pc = "drainWait"
         /\ mode' # mode /\ mode = "deliberate" =>
              ResumeEnds(c)
         /\ mode' = "running" => \/ alarm' = TRUE
                                 \/ mode = "running" /\ alarm' = alarm
                                      /\ disarmed' = disarmed
                                 \/ mode = "running" /\ DrainDisarms
<1>0. /\ recovery \in Table /\ alarm \in BOOLEAN
      /\ session \in [id : Sessions \cup {NoSession}, whole : BOOLEAN]
      /\ session.whole => session.id # NoSession
      /\ server \in Sessions \cup {NoSession}
      /\ mode \in {"running", "drained", "deliberate", "failed"}
      /\ call \in [Calls -> CallFrames]
      /\ disarmed \in {"no", "drain", "eviction"}
      /\ HasSession => session.id \in Sessions
  BY DEF Typed, LifecycleTypeOK, HasSession, Table
<1>f. /\ Idle \in CallFrames
      /\ \A pc \in {"stopWait", "drainWait", "settling"} :
           [pc |-> pc] \in CallFrames
      /\ \A op \in {"stop", "resume", "drain"} : HasSession =>
           [pc |-> "deleting", op |-> op, id |-> session.id] \in CallFrames
  BY <1>0, CallFramesMade
<1>1. CASE Stop(c)
  <2>1. CallTyped(c)
    BY <1>0, <1>1, <1>f DEF Stop, Awaits, AwaitsDeletion, CallTyped, world
  <2>2. \A d \in Calls : call[d].pc \in {"stopWait", "drainWait"}
                           => call'[d] = call[d]
    BY <1>0, <1>1 DEF Stop, Awaits, AwaitsDeletion, Idle
  <2>3. mode' = "deliberate"
        /\ (mode' # mode => call'[c].pc = "stopWait")
    BY <1>0, <1>1 DEF Stop, Awaits
  <2> QED
    BY <2>1, <2>2, <2>3, CallTypedType DEF CallTyped
<1>2. CASE StopWaited(c)
  <2>1. CallTyped(c) /\ handler = Idle /\ UNCHANGED <<storage, disarmed>>
    BY <1>0, <1>2, <1>f DEF StopWaited, Returns, AwaitsDeletion, CallTyped,
                            InFlightEnded, storage, world
  <2> QED
    BY <2>1, CallTypedType DEF CallTyped, storage
<1>3. CASE Resume(c)
  <2>1. CallTyped(c)
    BY <1>0, <1>3, <1>f, ResumesRunning
       DEF Resume, AwaitsDeletion, CallTyped, world
  <2>2. \A d \in Calls : call[d].pc \in {"stopWait", "drainWait"}
                           => call'[d] = call[d]
    BY <1>0, <1>3 DEF Resume, AwaitsDeletion, Idle
  <2>3. /\ mode' # mode => mode' = "running"
        /\ mode' = "running" => alarm' = TRUE
    BY <1>3, ResumesRunning DEF Resume
  <2> QED
    BY <1>3, <2>1, <2>2, <2>3, CallTypedType DEF CallTyped, ResumeEnds
<1>4. CASE Drain(c)
  <2>1. CallTyped(c)
    BY <1>0, <1>4, <1>f DEF Drain, Awaits, CallTyped, world
  <2>2. /\ \A d \in Calls : call[d].pc \in {"stopWait", "drainWait"}
                              => call'[d] = call[d]
        /\ mode' = "drained" /\ ~Stopped /\ call'[c].pc = "drainWait"
    BY <1>0, <1>4 DEF Drain, Awaits, Idle
  <2>3. mode # "deliberate"
    BY <2>2 DEF Stopped
  <2> QED
    BY <2>1, <2>2, <2>3, CallTypedType DEF CallTyped
<1>5. CASE DrainWaited(c)
  <2>1. CallTyped(c) /\ handler = Idle /\ UNCHANGED <<storage, disarmed>>
    BY <1>0, <1>5, <1>f DEF DrainWaited, Awaits, CallTyped, InFlightEnded,
                            storage, world
  <2> QED
    BY <2>1, CallTypedType DEF CallTyped, storage
<1>6. CASE DrainSettles(c)
  <2>1. CallTyped(c)
    BY <1>0, <1>6, <1>f DEF DrainSettles, DrainDisarms, Returns,
                            AwaitsDeletion, CallTyped, world
  <2>2. /\ \A d \in Calls : call[d].pc \in {"stopWait", "drainWait"}
                              => call'[d] = call[d]
        /\ mode' = mode
        /\ alarm' = TRUE \/ UNCHANGED <<alarm, disarmed>> \/ DrainDisarms
    BY <1>0, <1>6 DEF DrainSettles, Returns, AwaitsDeletion
  <2> QED
    BY <2>1, <2>2, CallTypedType DEF CallTyped
<1>7. CASE DrainGivesUp(c)
  <2>1. CallTyped(c)
    BY <1>0, <1>7, <1>f DEF DrainGivesUp, Returns, CallTyped, world
  <2>2. /\ \A d \in Calls : call[d].pc \in {"stopWait", "drainWait"}
                              => call'[d] = call[d]
        /\ mode' = mode /\ disarmed' = disarmed
        /\ alarm' = TRUE \/ alarm' = alarm
    BY <1>0, <1>7 DEF DrainGivesUp, Returns
  <2> QED
    BY <2>1, <2>2, CallTypedType DEF CallTyped
<1>8. CASE CallDeletes(c)
  <2>1. CallTyped(c)
    BY <1>0, <1>8, <1>f, ResumesRunning
       DEF CallDeletes, DrainDisarms, Returns, Gone, CallTyped
  <2>2. /\ \A d \in Calls : call[d].pc \in {"stopWait", "drainWait"}
                              => call'[d] = call[d]
        /\ call[c].pc = "deleting"
        /\ \/ Resumes /\ ResumeEnds(c)
           \/ mode' = mode /\ DrainDisarms
           \/ UNCHANGED <<mode, alarm, disarmed>>
    BY <1>0, <1>8 DEF CallDeletes, Returns, ResumeEnds
  <2> QED
    BY <2>1, <2>2, CallTypedType, ResumesRunning DEF CallTyped
<1>9. CASE DrainDeletionThrows(c)
  <2>1. CallTyped(c)
    BY <1>0, <1>9, <1>f DEF DrainDeletionThrows, Returns, Gone, CallTyped,
                            storage
  <2>2. /\ \A d \in Calls : call[d].pc \in {"stopWait", "drainWait"}
                              => call'[d] = call[d]
        /\ UNCHANGED <<mode, alarm, disarmed>>
    BY <1>0, <1>9 DEF DrainDeletionThrows, Returns, storage
  <2> QED
    BY <2>1, <2>2, CallTypedType DEF CallTyped
<1> QED
  BY <1>1, <1>2, <1>3, <1>4, <1>5, <1>6, <1>7, <1>8, <1>9 DEF CallStep

-----------------------------------------------------------------------------
(***************************************************************************)
(* The invariant is inductive.                                             *)
(***************************************************************************)
Inv == Typed /\ LoopInv /\ StopInv /\ DisabledInv /\ RunningIsArmed

LEMMA InvInit ==
  ASSUME LifecycleInit
  PROVE  Inv
<1>1. LifecycleTypeOK
  <2>1. recovery \in [Conditions -> [tries : 0 .. MaxTries, due : BOOLEAN,
                                     done : BOOLEAN]]
    BY LifecycleAssumption DEF LifecycleInit, NoRecord
  <2>2. handler \in Frames /\ call \in [Calls -> CallFrames]
    BY SimpleFrames, CallFramesMade DEF LifecycleInit
  <2>3. session \in [id : Sessions \cup {NoSession}, whole : BOOLEAN]
    BY DEF LifecycleInit, Blank
  <2>4. 0 \in 0 .. MaxIntrusions
    BY LifecycleAssumption
  <2>5. /\ mode = "running" /\ alarm = TRUE /\ enabled = TRUE
        /\ server = NoSession /\ work = FALSE /\ intrusions = 0
        /\ disarmed = "no"
    BY DEF LifecycleInit
  <2> QED
    BY <2>1, <2>2, <2>3, <2>4, <2>5 DEF LifecycleTypeOK
<1> QED
  BY <1>1 DEF LifecycleInit, Inv, Typed, Blank, LoopInv, StopInv, DisabledInv,
              RunningIsArmed, Idle, InLoop, Quitting, Disabling

LEMMA HandlerKeeps ==
  ASSUME Inv, HandlerStep
  PROVE  Inv'
<1>1. Typed /\ Steps
  BY HandlerSteps DEF Inv
<1>2. LoopInv'
  BY <1>1 DEF Inv, Steps, LoopInv, Awaited
<1>3. StopInv'
  BY <1>1 DEF Inv, Steps, StopInv
<1>4. DisabledInv'
  BY <1>1 DEF Inv, Steps, DisabledInv
<1>5. RunningIsArmed'
  <2>1. SUFFICES ASSUME mode' = "running", enabled', handler' = Idle,
                        disarmed' = "no"
                 PROVE  alarm'
    BY DEF RunningIsArmed
  <2>2. handler.pc = "exit" /\ mode = "running" /\ enabled
        /\ alarm' = ExitAlarm
    BY <1>1, <2>1 DEF Steps
  <2>3. handler.out # "disabled"
    BY <2>2 DEF Inv, DisabledInv, Disabling
  <2> QED
    BY <2>2, <2>3 DEF ExitAlarm, Stopped
<1> QED
  BY <1>1, <1>2, <1>3, <1>4, <1>5 DEF Inv, Steps

LEMMA AlarmKeeps ==
  ASSUME Inv, AlarmFires
  PROVE  Inv'
<1>1. Typed
  BY DEF Inv
<1> QED
  BY <1>1, AlarmSteps
     DEF Inv, LoopInv, Awaited, StopInv, Stopped, DisabledInv, RunningIsArmed

LEMMA CallKeeps ==
  ASSUME Inv, NEW c \in Calls, CallStep(c)
  PROVE  Inv'
<1>1. Typed
  BY DEF Inv
<1>2. /\ Typed' /\ handler' = handler /\ enabled' = enabled
      /\ handler # Idle => \A d \in Calls :
            call[d].pc \in {"stopWait", "drainWait"} => call'[d] = call[d]
      /\ mode' # mode =>
            \/ mode' = "running"
            \/ mode' = "deliberate" /\ call'[c].pc = "stopWait"
            \/ mode' = "drained" /\ ~Stopped /\ call'[c].pc = "drainWait"
  BY <1>1, CallSteps
<1>3. LoopInv'
  <2>1. CASE handler = Idle
    BY <1>2, <2>1 DEF LoopInv, InLoop, Idle
  <2>2. CASE handler # Idle
    BY <1>2, <2>2 DEF Inv, LoopInv, Awaited
  <2> QED
    BY <2>1, <2>2
<1>4. StopInv'
  <2>1. CASE handler = Idle
    BY <1>2, <2>1 DEF StopInv, Quitting, Idle
  <2>2. CASE handler # Idle
    BY <1>2, <2>2 DEF Inv, StopInv
  <2> QED
    BY <2>1, <2>2
<1>5. DisabledInv'
  BY <1>2 DEF Inv, DisabledInv
<1>6. RunningIsArmed'
  <2>1. mode' = "running" => \/ alarm' = TRUE
                             \/ mode = "running" /\ alarm' = alarm
                                  /\ disarmed' = disarmed
                             \/ mode = "running" /\ DrainDisarms
    BY <1>1, CallSteps
  <2> QED
    BY <1>2, <2>1 DEF Inv, RunningIsArmed, DrainDisarms
<1> QED
  BY <1>2, <1>3, <1>4, <1>5, <1>6 DEF Inv

LEMMA EvictKeeps ==
  ASSUME Inv, Evict
  PROVE  Inv'
<1>1. Typed'
  <2>1. intrusions' \in 0 .. MaxIntrusions
    BY LifecycleAssumption DEF Inv, Typed, LifecycleTypeOK, Evict
  <2>2. alarm' \in BOOLEAN /\ enabled' \in BOOLEAN
    BY DEF Inv, Typed, LifecycleTypeOK, Evict
  <2>3. disarmed' \in {"no", "drain", "eviction"}
    BY DEF Inv, Typed, LifecycleTypeOK, Evict
  <2>4. handler' \in Frames /\ call' \in [Calls -> CallFrames]
    BY SimpleFrames, CallFramesMade DEF Evict
  <2>5. UNCHANGED <<mode, session, recovery, server, work>>
    BY DEF Evict
  <2> QED
    BY <2>1, <2>2, <2>3, <2>4, <2>5
       DEF Inv, Typed, HasSession, LifecycleTypeOK
<1>2. handler' = Idle /\ mode' = mode
      /\ (handler = Idle => alarm' = alarm)
      /\ (enabled' => enabled)
      /\ disarmed' = IF mode = "running" /\ ~alarm' /\ handler # Idle
                       THEN "eviction" ELSE disarmed
  <2>1. /\ handler' = Idle /\ UNCHANGED mode
        /\ alarm' \in IF handler = Idle THEN {alarm} ELSE {alarm, TRUE}
        /\ enabled' = enabled \/ enabled' = FALSE
        /\ disarmed' = IF mode = "running" /\ ~alarm' /\ handler # Idle
                         THEN "eviction" ELSE disarmed
    BY DEF Evict
  <2>2. handler = Idle => alarm' = alarm
    BY <2>1
  <2> QED
    BY <2>1, <2>2
<1>3. LoopInv' /\ StopInv' /\ DisabledInv'
  BY <1>2 DEF LoopInv, StopInv, DisabledInv, InLoop, Quitting, Disabling, Idle
<1>4. RunningIsArmed'
  BY <1>2 DEF Inv, RunningIsArmed
<1> QED
  BY <1>1, <1>3, <1>4 DEF Inv

LEMMA OthersKeep ==
  ASSUME Inv,
         \/ Rearm \/ ServerExpires \/ WorkEnds
         \/ \E c \in Conditions : PauseEnds(c)
         \/ UNCHANGED vars
  PROVE  Inv'
<1>1. /\ UNCHANGED <<handler, call, enabled, session>>
      /\ \/ UNCHANGED <<mode, alarm, disarmed>>
         \/ mode' = "running" /\ alarm' = TRUE /\ disarmed' = "no"
  BY DEF Rearm, ServerExpires, WorkEnds, PauseEnds, vars, storage, world
<1>2. Typed'
  <2>1. CASE \E c \in Conditions : PauseEnds(c)
    <3>1. /\ recovery' \in Table
          /\ UNCHANGED <<mode, session, alarm, handler, call, world, disarmed>>
      <4>1. PICK c \in Conditions : PauseEnds(c)
        BY <2>1
      <4>2. recovery \in Table
        BY DEF Inv, Typed, LifecycleTypeOK, Table
      <4>3. recovery' \in Table
        BY <4>1, <4>2 DEF PauseEnds, Table
      <4> QED
        BY <4>1, <4>3 DEF PauseEnds
    <3> QED
      BY <3>1 DEF Inv, Typed, HasSession, LifecycleTypeOK, Table, world
  <2>2. CASE Rearm
    BY <2>2, LifecycleAssumption
       DEF Inv, Typed, HasSession, LifecycleTypeOK, Rearm, NoRecord
  <2>3. CASE ServerExpires \/ WorkEnds \/ UNCHANGED vars
    BY <2>3 DEF Inv, Typed, HasSession, LifecycleTypeOK, ServerExpires,
                WorkEnds, vars, storage, world
  <2> QED
    BY <2>1, <2>2, <2>3
<1> QED
  BY <1>1, <1>2 DEF Inv, LoopInv, Awaited, StopInv, DisabledInv, RunningIsArmed

LEMMA InvNext ==
  ASSUME Inv, [LifecycleNext]_vars
  PROVE  Inv'
BY HandlerKeeps, AlarmKeeps, CallKeeps, EvictKeeps, OthersKeep
   DEF LifecycleNext

LEMMA InvHolds == LifecycleSpec => []Inv
<1>1. LifecycleInit => Inv
  BY InvInit
<1>2. Inv /\ [LifecycleNext]_vars => Inv'
  BY InvNext
<1> QED
  BY <1>1, <1>2, PTL DEF LifecycleSpec

-----------------------------------------------------------------------------
(***************************************************************************)
(* The theorems.                                                           *)
(***************************************************************************)

\* The variables keep their types, in any number of requests, sessions and
\* retries.
THEOREM LifecycleTypes == LifecycleSpec => []LifecycleTypeOK
<1>1. Inv => LifecycleTypeOK
  BY DEF Inv, Typed
<1> QED
  BY <1>1, InvHolds, PTL

\* Whatever requests overlap: once a stop or a drain has gone on, no handler
\* uses a session behind its back.
THEOREM PollingEnds == LifecycleSpec => []PollsOnlyWhileAwaited
<1>1. Inv => PollsOnlyWhileAwaited
  BY DEF Inv, LoopInv, PollsOnlyWhileAwaited, UsesSession, InLoop, Awaited
<1> QED
  BY <1>1, InvHolds, PTL

\* A running listener has an alarm, but for the two cases that are noted.
THEOREM RunnersAreArmed == LifecycleSpec => []RunningIsArmed
<1>1. Inv => RunningIsArmed
  BY DEF Inv
<1> QED
  BY <1>1, InvHolds, PTL

\* Only resume() ends a deliberate stop, or a failure of the handler that
\* stop() is waiting for.
THEOREM StopsHold == LifecycleSpec => DeliberateStopHolds
<1> DEFINE Holds ==
      mode = "deliberate" /\ mode' # mode =>
        \/ \E c \in Calls : ResumeEnds(c)
        \/ /\ mode' = "failed" /\ handler # Idle
           /\ \E c \in Calls : call[c].pc = "stopWait"
<1>1. Inv /\ [LifecycleNext]_vars => [Holds]_vars
  <2>1. SUFFICES ASSUME Inv, LifecycleNext, mode = "deliberate",
                        mode' # mode
                 PROVE  Holds
    BY DEF vars, storage
  <2>2. CASE HandlerStep
    <3>1. mode' = "failed" /\ ~Quitting(handler)
      BY <2>1, <2>2, HandlerSteps DEF Inv, Steps
    <3>2. handler # Idle
      BY <3>1 DEF Quitting, Idle
    <3> QED
      BY <2>1, <3>1, <3>2 DEF Inv, StopInv
  <2>3. CASE AlarmFires
    BY <2>1, <2>3 DEF AlarmFires
  <2>4. ASSUME NEW c \in Calls, CallStep(c) PROVE Holds
    BY <2>1, <2>4, CallSteps DEF Inv
  <2>5. CASE Rearm
    BY <2>1, <2>5 DEF Rearm, Rearmable
  <2>6. CASE \/ ServerExpires \/ WorkEnds \/ Evict
             \/ \E c \in Conditions : PauseEnds(c)
    BY <2>1, <2>6 DEF ServerExpires, WorkEnds, Evict, PauseEnds, storage
  <2> QED
    BY <2>1, <2>2, <2>3, <2>4, <2>5, <2>6 DEF LifecycleNext
<1>2. LifecycleSpec => [][Holds]_vars
  BY <1>1, InvHolds, PTL DEF LifecycleSpec
<1> QED
  BY <1>2 DEF DeliberateStopHolds
=============================================================================
