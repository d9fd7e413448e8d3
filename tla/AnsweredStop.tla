----------------------------- MODULE AnsweredStop -----------------------------
(***************************************************************************)
(* ListenerLifecycle with a history variable: whether stop() has answered  *)
(* "stopped: true" to a caller, and no resume() has ended the stop since.  *)
(* It adds no behaviour of its own.                                        *)
(***************************************************************************)
EXTENDS ListenerLifecycle

VARIABLE answered

\* The three ways to return of stop(): the first needs no deletion, the second
\* deletes a session, the last repeats a stop that stands.
StopAnswers(c) ==
  \/ StopWaited(c) /\ ~HasSession
  \/ CallDeletes(c) /\ call[c].op = "stop"
  \/ Stop(c) /\ mode = "deliberate" /\ ~HasSession

AnsweredInit == LifecycleInit /\ answered = FALSE

AnsweredNext ==
  /\ LifecycleNext
  /\ answered' = \/ \E c \in Calls : StopAnswers(c)
                 \/ answered /\ ~\E c \in Calls : ResumeEnds(c)

AnsweredSpec == AnsweredInit /\ [][AnsweredNext]_<<vars, answered>>

-----------------------------------------------------------------------------
\* An operator whose stop was answered has a listener that is stopped, until
\* somebody resumes it: "Resume is the only request that can undo a deliberate
\* stop" (docs/AUTOPILOT-OPERATIONS.md:1074).  A handler that fails while
\* stop() waits for it takes the operator's reason away, stop() answers all
\* the same, and a rearm finds a failure it may recover from.
AnsweredStopStands == answered => Stopped
=============================================================================
