------------------------ MODULE RunnerRegistryProofs ------------------------
(***************************************************************************)
(* Proofs about the runner registry, for any number of sandboxes, claims   *)
(* and ticks, and for every setting of its delays and limits.              *)
(***************************************************************************)
EXTENDS RunnerRegistry, FiniteSetTheorems, WellFoundedInduction, TLAPS

-----------------------------------------------------------------------------
(***************************************************************************)
(* The invariant.                                                          *)
(***************************************************************************)
Clock == 0 .. MaxNow

\* What was recorded lies in the past.
PastRow(r) == r.destroyedAt <= now
Past ==
  /\ \A s \in Sandboxes : PastRow(row[s])
  /\ \A t \in Tokens : PastRow(claim[t].before)
  /\ \A o \in observed \cup absence : o.at <= now

\* A sandbox that the object has not met has no row.
Unmet == \A s \in Sandboxes : s \notin born => row[s] = NoRow

\* Whoever may give a row back claimed it live, and knows who asked for its
\* cleanup if there was one.
Knows(c) ==
  c.kind \in {"alarm", "reconcile"} =>
    /\ Live(c.before)
    /\ c.before.state = "destroying" => c.before.by # None
ClaimsKnow == \A t \in Tokens : Knows(claim[t])

\* RowsWellFormed without its conjunct about the clock, of one row
WellFormed(r) ==
  /\ r.state \in {"starting", "online"}
       => r.due # Never /\ r.token = None /\ r.by = None
  /\ r.token # None => /\ r.state = "destroying"
                       /\ r.due = r.startedAt + CleanupClaimStale
  /\ r.state = "destroying" => r.by # None
  /\ Parked(r) => r.attempts >= MaxCleanupAttempts
  /\ r.state \in {"none", "destroyed"} => r.due = Never /\ r.by = None

RowsInv == \A s \in Sandboxes : WellFormed(row[s])

Claims == [kind : {"alarm", "reconcile"} \cup OrphanKinds,
           sandbox : Sandboxes, before : RowType] \cup {NoClaim}

Tables ==
  /\ row \in [Sandboxes -> RowType]
  /\ born \subseteq Sandboxes
  /\ observed \subseteq [sandbox : Sandboxes, instance : Instances, at : Times]
  /\ absence \subseteq [sandbox : Sandboxes, revision : Nat, at : Times]
  /\ claim \in [Tokens -> Claims]
  /\ handling \in BOOLEAN /\ now \in Clock

Alarmed == alarm \in Times \cup {Never} /\ AlarmCoversTables

\* Everything but the alarm
DataInv == Tables /\ Past /\ Unmet /\ ClaimsKnow /\ RowsInv
RegistryInv == DataInv /\ Alarmed

-----------------------------------------------------------------------------
(***************************************************************************)
(* Times and rows.                                                         *)
(***************************************************************************)
Delays == {ActiveRunnerCleanupDelay, CleanupClaimStale, CleanupRetryDelay,
           CallbackHandoffDelay, TerminalRetention, 0}

LEMMA ConstantTypes ==
  /\ MaxNow \in Nat /\ ActiveRunnerCleanupDelay \in Nat
  /\ CleanupClaimStale \in Nat \ {0} /\ CleanupRetryDelay \in Nat
  /\ CallbackHandoffDelay \in Nat /\ TerminalRetention \in Nat
  /\ MaxCleanupAttempts \in Nat /\ OrphanGrace \in Nat /\ MaxLag \in Nat
BY RegistryConstants

LEMMA TimesFit ==
  ASSUME NEW at \in Clock, NEW delay \in Delays
  PROVE  at + delay \in Times /\ at \in Times /\ at + delay # Never
BY ConstantTypes DEF Clock, Delays, Times, Never

LEMMA NoRowType == NoRow \in RowType /\ WellFormed(NoRow)
<1>1. 0 \in Times
  BY ConstantTypes DEF Times
<1> QED
  BY <1>1 DEF NoRow, RowType, WellFormed, Parked, Never

\* What each method writes is a row again, and well formed.
Good(r) == r \in RowType /\ WellFormed(r)

LEMMA StartedGood ==
  ASSUME NEW at \in Clock
  PROVE  Good(Started(at)) /\ Started(at).destroyedAt = Never
<1>1. at + ActiveRunnerCleanupDelay \in Times /\ at \in Times
      /\ at + ActiveRunnerCleanupDelay # Never
  BY TimesFit DEF Delays
<1> QED
  BY <1>1, NoRowType DEF Good, Started, NoRow, RowType, WellFormed, Parked

LEMMA NextRevision ==
  ASSUME NEW r \in RowType
  PROVE  r.revision + 1 \in Nat
BY DEF RowType

LEMMA OnlineGood ==
  ASSUME NEW r, Good(r), r.state = "starting"
  PROVE  Good(Online(r)) /\ Online(r).destroyedAt = r.destroyedAt
<1> DEFINE n == r.revision + 1
<1>1. r \in RowType /\ n \in Nat
  BY NextRevision DEF Good
<1>2. Online(r) = [r EXCEPT !.state = "online", !.revision = n]
  BY DEF Online
<1> HIDE DEF n
<1>3. Online(r) \in RowType
  BY <1>1, <1>2 DEF RowType
<1> QED
  BY <1>1, <1>2, <1>3 DEF Good, RowType, WellFormed, Parked

LEMMA QueuedGood ==
  ASSUME NEW r, Good(r), NEW by \in {"callback", "startup-failure"},
         NEW at \in Clock
  PROVE  Good(Queued(r, by, at)) /\ Queued(r, by, at).destroyedAt = r.destroyedAt
<1> DEFINE n == r.revision + 1
           due == at + (IF by = "callback" THEN CallbackHandoffDelay ELSE 0)
<1>1. r \in RowType /\ n \in Nat
  BY NextRevision DEF Good
<1>2. due \in Times /\ at \in Times /\ due # Never
  BY TimesFit DEF Delays
<1>3. Queued(r, by, at) =
        [r EXCEPT !.state = "destroying", !.startedAt = at, !.token = None,
                  !.due = due, !.by = by, !.revision = n]
  BY DEF Queued
<1>4. by \in Requesters /\ by # None
  BY RegistryConstants DEF Requesters
<1> HIDE DEF n, due
<1>5. Queued(r, by, at) \in RowType
  BY <1>1, <1>2, <1>3, <1>4 DEF RowType
<1> QED
  BY <1>1, <1>2, <1>3, <1>4, <1>5 DEF Good, RowType, WellFormed, Parked

LEMMA RearmedGood ==
  ASSUME NEW r, Good(r), Parked(r), NEW at \in Clock
  PROVE  Good(Rearmed(r, at)) /\ Rearmed(r, at).destroyedAt = r.destroyedAt
<1> DEFINE n == r.revision + 1
<1>1. r \in RowType /\ n \in Nat
  BY NextRevision DEF Good
<1>2. at \in Times /\ at # Never
  BY TimesFit, ConstantTypes DEF Delays, Clock, Never
<1>3. Rearmed(r, at) =
        [r EXCEPT !.due = at, !.startedAt = at, !.token = None, !.revision = n]
  BY DEF Rearmed
<1> HIDE DEF n
<1>4. Rearmed(r, at) \in RowType
  BY <1>1, <1>2, <1>3 DEF RowType
<1> QED
  BY <1>1, <1>2, <1>3, <1>4 DEF Good, RowType, WellFormed, Parked

LEMMA ClaimedGood ==
  ASSUME NEW r, Good(r), NEW token \in Tokens, NEW by \in Requesters,
         NEW at \in Clock
  PROVE  Good(Claimed(r, token, by, at))
         /\ Claimed(r, token, by, at).destroyedAt = r.destroyedAt
<1> DEFINE n == r.revision + 1
           due == at + CleanupClaimStale
<1>1. r \in RowType /\ n \in Nat
  BY NextRevision DEF Good
<1>2. due \in Times /\ at \in Times /\ due # Never
  BY TimesFit DEF Delays
<1>3. Claimed(r, token, by, at) =
        [r EXCEPT !.state = "destroying", !.startedAt = at, !.token = token,
                  !.due = due, !.by = by, !.revision = n]
  BY DEF Claimed
<1>4. by # None
  BY RegistryConstants
<1> HIDE DEF n, due
<1>5. Claimed(r, token, by, at) \in RowType
  BY <1>1, <1>2, <1>3 DEF RowType
<1>6. due = at + CleanupClaimStale
  BY DEF due
<1> QED
  BY <1>1, <1>2, <1>3, <1>4, <1>5, <1>6 DEF Good, RowType, WellFormed, Parked

LEMMA AlarmClaimedGood ==
  ASSUME NEW r, Good(r), NEW token \in Tokens, NEW at \in Clock
  PROVE  Good(AlarmClaimed(r, token, at))
         /\ AlarmClaimed(r, token, at).destroyedAt = r.destroyedAt
<1> DEFINE by == IF r.by = None THEN "alarm" ELSE r.by
           c == Claimed(r, token, by, at)
           n == c.attempts + 1
<1>1. by \in Requesters
  BY DEF Good, RowType, Requesters
<1>2. Good(c) /\ c.destroyedAt = r.destroyedAt
  BY <1>1, ClaimedGood
<1>3. c.state = "destroying" /\ c.due # Never
  <2>1. r \in RowType
    BY DEF Good
  <2>2. at + CleanupClaimStale # Never
    BY TimesFit DEF Delays
  <2> QED
    BY <2>1, <2>2 DEF Claimed, RowType
<1>4. AlarmClaimed(r, token, at) = [c EXCEPT !.attempts = n]
  BY DEF AlarmClaimed
<1> HIDE DEF c
<1>5. n \in Nat
  BY <1>2 DEF Good, RowType
<1> HIDE DEF n
<1>6. [c EXCEPT !.attempts = n] \in RowType
  BY <1>2, <1>5 DEF Good, RowType
<1> QED
  BY <1>2, <1>3, <1>4, <1>6 DEF Good, RowType, WellFormed, Parked

LEMMA AdoptedGood ==
  ASSUME NEW inst \in Instances, NEW token \in Tokens, NEW at \in Clock
  PROVE  Good(Adopted(inst, token, at))
         /\ Adopted(inst, token, at).destroyedAt = Never
<1>1. at + CleanupClaimStale \in Times /\ at \in Times
      /\ at + CleanupClaimStale # Never
  BY TimesFit DEF Delays
<1>2. "orphan" \in Requesters /\ "orphan" # None
  BY RegistryConstants DEF Requesters
<1> QED
  BY <1>1, <1>2, NoRowType DEF Good, Adopted, NoRow, RowType, WellFormed, Parked

LEMMA ReopenedGood ==
  ASSUME NEW r, Good(r), NEW inst \in Instances, NEW token \in Tokens,
         NEW at \in Clock
  PROVE  Good(Reopened(r, inst, token, at))
         /\ Reopened(r, inst, token, at).destroyedAt = Never
<1> DEFINE c == Claimed(r, token, "orphan", at)
<1>1. Good(c)
  BY ClaimedGood DEF Requesters
<1>2. Reopened(r, inst, token, at) =
        [c EXCEPT !.instance = inst, !.destroyedAt = Never]
  BY DEF Reopened
<1> HIDE DEF c
<1>3. Reopened(r, inst, token, at) \in RowType
  BY <1>1, <1>2 DEF Good, RowType
<1>4. LET d == [c EXCEPT !.instance = inst, !.destroyedAt = Never]
      IN  /\ d.state = c.state /\ d.due = c.due /\ d.token = c.token
          /\ d.by = c.by /\ d.startedAt = c.startedAt
          /\ d.attempts = c.attempts /\ d.destroyedAt = Never
  BY <1>1 DEF Good, RowType
<1> QED
  BY <1>1, <1>2, <1>3, <1>4 DEF Good, WellFormed, Parked

LEMMA RetriedGood ==
  ASSUME NEW r, Good(r), r.state = "destroying", NEW at \in Clock
  PROVE  Good(Retried(r, at)) /\ Retried(r, at).destroyedAt = r.destroyedAt
<1> DEFINE n == r.revision + 1
           due == IF r.attempts >= MaxCleanupAttempts
                    THEN Never ELSE at + CleanupRetryDelay
<1>1. r \in RowType /\ n \in Nat
  BY NextRevision DEF Good
<1>2. due \in Times \cup {Never} /\ at \in Times
      /\ (due = Never => r.attempts >= MaxCleanupAttempts)
  BY TimesFit DEF Delays
<1>3. Retried(r, at) =
        [r EXCEPT !.startedAt = at, !.token = None, !.due = due, !.revision = n]
  BY DEF Retried
<1> HIDE DEF n, due
<1>4. Retried(r, at) \in RowType
  BY <1>1, <1>2, <1>3 DEF RowType
<1> QED
  BY <1>1, <1>2, <1>3, <1>4 DEF Good, RowType, WellFormed, Parked

LEMMA CompletedGood ==
  ASSUME NEW r, Good(r), NEW at \in Clock
  PROVE  Good(Completed(r, at)) /\ Completed(r, at).destroyedAt = at
<1> DEFINE n == r.revision + 1
<1>1. r \in RowType /\ n \in Nat /\ at \in Times
  BY NextRevision, TimesFit DEF Good, Delays
<1>2. Completed(r, at) =
        [r EXCEPT !.state = "destroyed", !.destroyedAt = at, !.token = None,
                  !.due = Never, !.by = None, !.revision = n]
  BY DEF Completed
<1> HIDE DEF n
<1>3. Completed(r, at) \in RowType
  BY <1>1, <1>2 DEF RowType
<1> QED
  BY <1>1, <1>2, <1>3 DEF Good, RowType, WellFormed, Parked

LEMMA RestoredGood ==
  ASSUME NEW r, Good(r), NEW original \in RowType
  PROVE  Good(Restored(r, original))
         /\ Restored(r, original).destroyedAt = original.destroyedAt
<1> DEFINE n == r.revision + 1
<1>1. r \in RowType /\ n \in Nat
  BY NextRevision DEF Good
<1>2. Restored(r, original) =
        [r EXCEPT !.state = "destroyed", !.instance = original.instance,
                  !.startedAt = original.startedAt, !.token = None,
                  !.due = Never, !.by = None,
                  !.destroyedAt = original.destroyedAt, !.revision = n]
  BY DEF Restored
<1> HIDE DEF n
<1>3. Restored(r, original) \in RowType
  BY <1>1, <1>2 DEF RowType
<1> QED
  BY <1>1, <1>2, <1>3 DEF Good, RowType, WellFormed, Parked

LEMMA PostponedGood ==
  ASSUME NEW r, Good(r), NEW state \in {"starting", "online", "destroying"},
         NEW by \in Requesters \cup {None}, state = "destroying" => by # None,
         NEW at \in Clock, NEW busySince \in Times \cup {Never}
  PROVE  LET p == [Postponed(r, state, by, at) EXCEPT !.busySince = busySince]
         IN  /\ Good(Postponed(r, state, by, at))
             /\ Postponed(r, state, by, at).destroyedAt = r.destroyedAt
             /\ Good(p) /\ p.destroyedAt = r.destroyedAt
<1> DEFINE n == r.revision + 1
           due == at + (IF state = "destroying" THEN CleanupRetryDelay
                                    ELSE ActiveRunnerCleanupDelay)
           who == IF state = "destroying" THEN by ELSE None
           p == Postponed(r, state, by, at)
<1>1. r \in RowType /\ n \in Nat
  BY NextRevision DEF Good
<1>2. due \in Times /\ due # Never
  BY TimesFit DEF Delays
<1>3. p = [r EXCEPT !.state = state, !.startedAt = Never, !.token = None,
                    !.due = due, !.by = who, !.attempts = 0, !.revision = n]
  BY DEF Postponed
<1>4. who \in Requesters \cup {None} /\ (state = "destroying" => who # None)
      /\ (state # "destroying" => who = None)
  OBVIOUS
<1> HIDE DEF n, due, who, p
<1>5. p \in RowType
  BY <1>1, <1>2, <1>3, <1>4 DEF RowType
<1>6. Good(p) /\ p.destroyedAt = r.destroyedAt
  BY <1>1, <1>2, <1>3, <1>4, <1>5 DEF Good, RowType, WellFormed, Parked
<1>7. Good([p EXCEPT !.busySince = busySince])
      /\ [p EXCEPT !.busySince = busySince].destroyedAt = r.destroyedAt
  BY <1>6 DEF Good, RowType, WellFormed, Parked
<1> QED
  BY <1>6, <1>7 DEF p

-----------------------------------------------------------------------------
(***************************************************************************)
(* The alarm.                                                              *)
(***************************************************************************)
\* A nonempty set of times has an earliest.
LEMMA EarliestOf ==
  ASSUME NEW times, times \subseteq Times, times # {}
  PROVE  Earliest(times) \in times /\ \A t \in times : Earliest(times) <= t
<1>1. times \subseteq Nat
  BY ConstantTypes DEF Times
<1>2. PICK x \in times : \A y \in times : <<y, x>> \notin OpToRel(<, Nat)
  BY <1>1, WFMin, NatLessThanWellFounded, Zenon
<1>3. \A y \in times : ~(y < x)
  BY <1>1, <1>2, Zenon DEF OpToRel
<1>4. \A y \in times : x <= y
  BY <1>1, <1>3
<1> QED
  BY <1>4 DEF Earliest

LEMMA EarlyEnough ==
  ASSUME NEW times, times \subseteq Times, times # {}, now \in Clock
  PROVE  /\ NotBeforeNow(times) \in Times
         /\ \A t \in times : NotBeforeNow(times) <= t \/ NotBeforeNow(times) <= now
<1>1. now \in Times
  BY TimesFit DEF Delays
<1>2. now \in Nat /\ times \subseteq Nat
  BY ConstantTypes DEF Clock, Times
<1> DEFINE e == Earliest(times)
<1>3. e \in times /\ \A t \in times : e <= t
  BY EarliestOf
<1>4. NotBeforeNow(times) = IF e < now THEN now ELSE e
  BY DEF NotBeforeNow
<1> HIDE DEF e
<1>5. e \in Times /\ e \in Nat
  BY <1>2, <1>3
<1>6. CASE e < now
  BY <1>1, <1>2, <1>4, <1>6
<1>7. CASE ~(e < now)
  BY <1>3, <1>4, <1>5, <1>7
<1> QED
  BY <1>6, <1>7

\* Wherever the alarm is set anew, it covers the deadlines it was set for.
Covers(at, times) ==
  \A t \in times : at # Never /\ (at <= t \/ at <= now)

LEMMA LoweredCovers ==
  ASSUME NEW times, times \subseteq Times, now \in Clock,
         NEW current \in Times \cup {Never}
  PROVE  /\ Lowered(current, times) \in Times \cup {Never}
         /\ Covers(Lowered(current, times), times)
<1>1. CASE times = {}
  BY <1>1 DEF Lowered, Covers
<1>2. CASE times # {}
  <2> DEFINE n == NotBeforeNow(times)
  <2>1. n \in Times /\ \A t \in times : n <= t \/ n <= now
    BY <1>2, EarlyEnough
  <2>2. Times \subseteq Nat /\ now \in Nat /\ times \subseteq Nat
    BY ConstantTypes DEF Clock, Times
  <2>3. Lowered(current, times) =
          IF current = Never \/ current > n THEN n ELSE current
    BY <1>2 DEF Lowered
  <2> HIDE DEF n
  <2>4. CASE current = Never \/ current > n
    BY <2>1, <2>2, <2>3, <2>4 DEF Covers, Never
  <2>5. CASE ~(current = Never \/ current > n)
    BY <2>1, <2>2, <2>3, <2>5 DEF Covers, Never
  <2> QED
    BY <2>4, <2>5
<1> QED
  BY <1>1, <1>2

LEMMA ReplacedCovers ==
  ASSUME NEW times, times \subseteq Times, now \in Clock
  PROVE  /\ Replaced(times) \in Times \cup {Never}
         /\ Covers(Replaced(times), times)
<1>1. CASE times = {}
  BY <1>1 DEF Replaced, Covers
<1>2. CASE times # {}
  <2> DEFINE n == NotBeforeNow(times)
  <2>1. n \in Times /\ \A t \in times : n <= t \/ n <= now
    BY <1>2, EarlyEnough
  <2>2. Times \subseteq Nat
    BY ConstantTypes DEF Times
  <2>3. Replaced(times) = n
    BY <1>2 DEF Replaced
  <2> HIDE DEF n
  <2> QED
    BY <2>1, <2>2, <2>3 DEF Covers, Never
<1> QED
  BY <1>1, <1>2

LEMMA NowCovers ==
  ASSUME NEW times, now \in Clock
  PROVE  now \in Times /\ Covers(now, times)
<1>1. now \in Times /\ now \in Nat
  BY TimesFit, ConstantTypes DEF Delays, Clock
<1> QED
  BY <1>1 DEF Covers, Never

\* The deadlines of the tables are times.
LEMMA DeadlinesFit ==
  ASSUME NEW rows \in [Sandboxes -> RowType], NEW seen, NEW missed,
         NEW limit \in Clock,
         \A s \in Sandboxes : rows[s].destroyedAt <= limit,
         \A o \in seen \cup missed : o.at \in Times /\ o.at <= limit
  PROVE  Deadlines(rows, seen, missed) \subseteq Times
<1>1. ASSUME NEW t \in Times, t <= limit
      PROVE  t + TerminalRetention \in Times
  BY <1>1, ConstantTypes DEF Clock, Times
<1>2. \A s \in Sandboxes : /\ rows[s].due \in Times \cup {Never}
                           /\ rows[s].destroyedAt \in Times \cup {Never}
  BY DEF RowType
<1>3. \A s \in Sandboxes : rows[s].destroyedAt # Never =>
        rows[s].destroyedAt + TerminalRetention \in Times
  BY <1>1, <1>2
<1>4. \A o \in seen \cup missed : o.at + TerminalRetention \in Times
  BY <1>1
<1> QED
  BY <1>2, <1>3, <1>4 DEF Deadlines

\* Every step but those that leave the deadlines alone sets the alarm.
AlarmSet ==
  \/ (Rearm \/ RearmReplacing) /\ now' = now
  \/ alarm' = now /\ now' = now
  \/ UNCHANGED alarm
     /\ Deadlines(row', observed', absence') = Deadlines(row, observed, absence)
     /\ now' \in {now, now + 1}

LEMMA AlarmStays ==
  ASSUME RegistryInv, DataInv', AlarmSet
  PROVE  Alarmed'
<1> DEFINE times == Deadlines(row', observed', absence')
<1>1. times \subseteq Times
  <2>1. now' \in Clock /\ row' \in [Sandboxes -> RowType]
    BY DEF DataInv, Tables
  <2>2. \A s \in Sandboxes : row'[s].destroyedAt <= now'
    BY DEF DataInv, Past, PastRow
  <2>3. \A o \in observed' \cup absence' : o.at \in Times /\ o.at <= now'
    BY DEF DataInv, Past, Tables
  <2> QED
    BY <2>1, <2>2, <2>3, DeadlinesFit
<1>2. now \in Clock /\ alarm \in Times \cup {Never}
      /\ \A t \in Deadlines(row, observed, absence) :
           alarm # Never /\ (alarm <= t \/ alarm <= now)
  BY DEF RegistryInv, DataInv, Tables, Alarmed, AlarmCoversTables
<1>3. SUFFICES /\ alarm' \in Times \cup {Never}
               /\ \A t \in times :
                    alarm' # Never /\ (alarm' <= t \/ alarm' <= now')
  BY DEF Alarmed, AlarmCoversTables
<1> HIDE DEF times
<1>4. CASE Rearm /\ now' = now
  <2>1. alarm' = Lowered(alarm, times)
    BY <1>4 DEF Rearm, times
  <2> QED
    BY <1>1, <1>2, <1>4, <2>1, LoweredCovers DEF Covers
<1>5. CASE RearmReplacing /\ now' = now
  <2>1. alarm' = Replaced(times)
    BY <1>5 DEF RearmReplacing, times
  <2> QED
    BY <1>1, <1>2, <1>5, <2>1, ReplacedCovers DEF Covers
<1>6. CASE alarm' = now /\ now' = now
  BY <1>2, <1>6, NowCovers DEF Covers
<1>7. CASE /\ UNCHANGED alarm /\ times = Deadlines(row, observed, absence)
           /\ now' \in {now, now + 1}
  <2>1. now \in Nat /\ Times \subseteq Nat
    BY <1>2, ConstantTypes DEF Clock, Times
  <2> QED
    BY <1>2, <1>7, <2>1 DEF Never
<1> QED
  BY <1>4, <1>5, <1>6, <1>7 DEF AlarmSet, times

-----------------------------------------------------------------------------
(***************************************************************************)
(* What the steps do to the tables.                                        *)
(***************************************************************************)
RowPart ==
  /\ row' \in [Sandboxes -> RowType] /\ born' \subseteq Sandboxes
  /\ \A s \in Sandboxes : WellFormed(row'[s]) /\ row'[s].destroyedAt <= now
  /\ \A s \in Sandboxes : s \notin born' => row'[s] = NoRow

SightPart ==
  /\ observed' \subseteq [sandbox : Sandboxes, instance : Instances, at : Times]
  /\ absence' \subseteq [sandbox : Sandboxes, revision : Nat, at : Times]
  /\ \A o \in observed' \cup absence' : o.at <= now

ClaimPart ==
  /\ claim' \in [Tokens -> Claims]
  /\ \A t \in Tokens : claim'[t].before.destroyedAt <= now /\ Knows(claim'[t])

LEMMA Parts ==
  ASSUME DataInv, RowPart, SightPart, ClaimPart, handling' \in BOOLEAN,
         now' = now
  PROVE  DataInv'
<1>1. now' \in Clock
  BY DEF DataInv, Tables
<1> QED
  BY <1>1 DEF DataInv, Tables, Past, PastRow, Unmet, ClaimsKnow, RowsInv,
              RowPart, SightPart, ClaimPart

LEMMA PartsKept ==
  ASSUME DataInv
  PROVE  /\ UNCHANGED <<row, born>> => RowPart
         /\ UNCHANGED <<observed, absence>> => SightPart
         /\ UNCHANGED claim => ClaimPart
         /\ \A s \in Sandboxes : /\ Good(row[s]) /\ row[s].destroyedAt <= now
                                 /\ s \notin born => row[s] = NoRow
         /\ handling \in BOOLEAN /\ now \in Clock
BY DEF DataInv, Tables, Past, PastRow, Unmet, ClaimsKnow, RowsInv, RowPart,
       SightPart, ClaimPart, Good

\* A call reads the clock before it comes to the object.
LEMMA RecentClock ==
  ASSUME now \in Clock, NEW at \in Recent
  PROVE  at \in Clock /\ at <= now /\ at \in Nat
BY ConstantTypes DEF Recent, Clock

LEMMA RowSet ==
  ASSUME DataInv, NEW s \in Sandboxes, NEW r, SetRow(s, r), Good(r),
         r.destroyedAt <= now, born' \in {born, born \cup {s}},
         s \in born' \/ r = NoRow
  PROVE  RowPart
<1>1. row \in [Sandboxes -> RowType] /\ row' = [row EXCEPT ![s] = r]
  BY DEF DataInv, Tables, SetRow
<1>2. \A x \in Sandboxes : row'[x] = IF x = s THEN r ELSE row[x]
  BY <1>1
<1>3. row' \in [Sandboxes -> RowType] /\ born' \subseteq Sandboxes
  BY <1>1 DEF Good, DataInv, Tables
<1>4. \A x \in Sandboxes : WellFormed(row'[x]) /\ row'[x].destroyedAt <= now
  BY <1>2, PartsKept DEF Good
<1>5. \A x \in Sandboxes : x \notin born' => row'[x] = NoRow
  BY <1>2, PartsKept
<1> QED
  BY <1>3, <1>4, <1>5 DEF RowPart

LEMMA HandedOut ==
  ASSUME DataInv, NEW token \in Tokens, NEW s \in Sandboxes, NEW before,
         NEW kind \in {"alarm", "reconcile"} \cup OrphanKinds,
         HandOut(token, kind, s, before),
         before \in RowType, before.destroyedAt <= now,
         kind \in {"alarm", "reconcile"} =>
           Live(before) /\ (before.state = "destroying" => before.by # None)
  PROVE  ClaimPart
<1> DEFINE c == [kind |-> kind, sandbox |-> s, before |-> before]
<1>1. claim \in [Tokens -> Claims] /\ claim' = [claim EXCEPT ![token] = c]
  BY DEF DataInv, Tables, HandOut
<1>2. c \in Claims /\ c.before.destroyedAt <= now /\ Knows(c)
  BY DEF Claims, Knows
<1> HIDE DEF c
<1>3. claim' \in [Tokens -> Claims]
  BY <1>1, <1>2
<1>4. \A t \in Tokens : claim'[t] = IF t = token THEN c ELSE claim[t]
  BY <1>1
<1> QED
  BY <1>2, <1>3, <1>4 DEF ClaimPart, DataInv, Past, PastRow, ClaimsKnow

LEMMA NoClaimKnown ==
  ASSUME now \in Clock
  PROVE  NoClaim \in Claims /\ NoClaim.before.destroyedAt <= now
         /\ Knows(NoClaim)
<1>1. now \in Nat
  BY ConstantTypes DEF Clock
<1> QED
  BY <1>1 DEF Claims, NoClaim, NoRow, Never, Knows

LEMMA Settled ==
  ASSUME DataInv, NEW token \in Tokens, Settles(token)
  PROVE  ClaimPart
<1>1. claim \in [Tokens -> Claims] /\ claim' = [claim EXCEPT ![token] = NoClaim]
      /\ now \in Clock
  BY DEF DataInv, Tables, Settles
<1>2. claim' \in [Tokens -> Claims]
  BY <1>1, NoClaimKnown
<1>3. \A t \in Tokens : claim'[t] = IF t = token THEN NoClaim ELSE claim[t]
  BY <1>1
<1> QED
  BY <1>1, <1>2, <1>3, NoClaimKnown
     DEF ClaimPart, DataInv, Past, PastRow, ClaimsKnow

-----------------------------------------------------------------------------
(***************************************************************************)
(* The life of a runner, and the claims.                                   *)
(***************************************************************************)
LEMMA LifecycleSteps ==
  ASSUME DataInv, NEW s \in Sandboxes, NEW at \in Recent, Lifecycle(s, at)
  PROVE  DataInv' /\ AlarmSet /\ now' = now
<1>0. /\ Good(row[s]) /\ row[s].destroyedAt <= now
      /\ s \notin born => row[s] = NoRow
      /\ handling \in BOOLEAN /\ now \in Clock /\ at \in Clock /\ at <= now
      /\ now \in Nat
  BY PartsKept, RecentClock, ConstantTypes DEF Clock
<1>1. CASE MarkOnline(s)
  <2>1. row[s].state = "starting" /\ s \in born
    BY <1>0, <1>1 DEF MarkOnline, NoRow
  <2>2. RowPart
    BY <1>0, <1>1, <2>1, OnlineGood, RowSet DEF MarkOnline
  <2>3. DataInv'
    BY <1>0, <1>1, <2>2, Parts, PartsKept DEF MarkOnline
  <2>4. Deadlines(row', observed', absence') = Deadlines(row, observed, absence)
    <3>1. row \in [Sandboxes -> RowType] /\ row' = [row EXCEPT ![s] = Online(row[s])]
      BY <1>1 DEF DataInv, Tables, MarkOnline, SetRow
    <3>2. /\ Online(row[s]).due = row[s].due
          /\ Live(Online(row[s])) /\ Live(row[s])
          /\ Online(row[s]).state # "destroyed"
      BY <2>1, <3>1 DEF Online, RowType, Live
    <3>3. \A x \in Sandboxes :
            /\ row'[x].due = row[x].due /\ Live(row'[x]) = Live(row[x])
            /\ (row'[x].state = "destroyed") = (row[x].state = "destroyed")
            /\ row[x].state = "destroyed" => row'[x] = row[x]
      BY <2>1, <3>1, <3>2
    <3>4. observed' = observed /\ absence' = absence
      BY <1>1 DEF MarkOnline
    <3> QED
      BY <3>3, <3>4 DEF Deadlines
  <2> QED
    BY <1>1, <2>3, <2>4 DEF MarkOnline, AlarmSet
<1>2. CASE RecordStarting(s, at)
  <2>1. RowPart
    BY <1>0, <1>2, StartedGood, RowSet DEF RecordStarting, Never
  <2> QED
    BY <1>0, <1>2, <2>1, Parts, PartsKept DEF RecordStarting, AlarmSet
<1>3. ASSUME NEW by \in {"callback", "startup-failure"}, QueueCleanup(s, by, at)
      PROVE  DataInv' /\ AlarmSet /\ now' = now
  <2>1. s \in born
    BY <1>0, <1>3 DEF QueueCleanup, NoRow
  <2>2. RowPart
    BY <1>0, <1>3, <2>1, QueuedGood, RowSet DEF QueueCleanup
  <2> QED
    BY <1>0, <1>3, <2>2, Parts, PartsKept DEF QueueCleanup, AlarmSet
<1>4. CASE RearmStalledCleanup(s, at)
  <2>1. s \in born
    BY <1>0, <1>4 DEF RearmStalledCleanup, Parked, NoRow
  <2>2. RowPart
    BY <1>0, <1>4, <2>1, RearmedGood, RowSet DEF RearmStalledCleanup
  <2> QED
    BY <1>0, <1>4, <2>2, Parts, PartsKept DEF RearmStalledCleanup, AlarmSet
<1> QED
  BY <1>1, <1>2, <1>3, <1>4 DEF Lifecycle

LEMMA ObservationSteps ==
  ASSUME DataInv, NEW s \in Sandboxes, NEW at \in Recent, Observation(s, at)
  PROVE  DataInv' /\ AlarmSet /\ now' = now
<1>0. /\ Good(row[s]) /\ row[s].destroyedAt <= now
      /\ s \notin born => row[s] = NoRow
      /\ handling \in BOOLEAN /\ now \in Clock /\ at \in Clock /\ at <= now
      /\ at \in Times /\ now \in Nat
  BY PartsKept, RecentClock, TimesFit, ConstantTypes DEF Clock, Delays
<1>1. CASE ObserveAbsence(s, row[s].revision, at)
  <2>1. row[s].revision \in Nat
    BY <1>0 DEF Good, RowType
  <2>2. SightPart
    BY <1>0, <1>1, <2>1 DEF ObserveAbsence, SightPart, DataInv, Tables, Past
  <2> QED
    BY <1>0, <1>1, <2>2, Parts, PartsKept DEF ObserveAbsence, AlarmSet
<1>2. ASSUME NEW inst \in Instances, ObserveOrphan(s, inst, at)
      PROVE  DataInv' /\ AlarmSet /\ now' = now
  <2>1. SightPart
    BY <1>0, <1>2 DEF ObserveOrphan, SightPart, Sighted, DataInv, Tables, Past
  <2>2. RowPart
    <3>1. CASE row[s].state = "destroyed"
      <4>1. SetRow(s, [row[s] EXCEPT !.instance = inst])
        BY <1>2, <3>1 DEF ObserveOrphan, SetRow
      <4>2. /\ Good([row[s] EXCEPT !.instance = inst])
            /\ [row[s] EXCEPT !.instance = inst].destroyedAt = row[s].destroyedAt
        BY <1>0 DEF Good, RowType, WellFormed, Parked
      <4>3. born' = born \cup {s}
        BY <1>2 DEF ObserveOrphan
      <4> QED
        BY <1>0, <4>1, <4>2, <4>3, RowSet
    <3>2. CASE row[s].state # "destroyed"
      <4>1. row' = row /\ born' = born \cup {s}
        BY <1>2, <3>2 DEF ObserveOrphan
      <4> QED
        BY <4>1, PartsKept DEF RowPart, DataInv, Tables, Good
    <3> QED
      BY <3>1, <3>2
  <2> QED
    BY <1>0, <1>2, <2>1, <2>2, Parts, PartsKept DEF ObserveOrphan, AlarmSet
<1> QED
  BY <1>1, <1>2 DEF Observation

LEMMA ClaimingSteps ==
  ASSUME DataInv, NEW s \in Sandboxes, NEW at \in Recent, Claiming(s, at)
  PROVE  DataInv' /\ AlarmSet /\ now' = now
<1>0. /\ Good(row[s]) /\ row[s].destroyedAt <= now
      /\ s \notin born => row[s] = NoRow
      /\ handling \in BOOLEAN /\ now \in Clock /\ at \in Clock /\ now \in Nat
  BY PartsKept, RecentClock, ConstantTypes DEF Clock
<1>1. ASSUME NEW token \in Tokens,
             ClaimForReconcile(s, row[s].revision, token, at)
      PROVE  DataInv' /\ AlarmSet /\ now' = now
  <2>1. s \in born /\ Live(row[s])
    BY <1>0, <1>1 DEF ClaimForReconcile, Live, NoRow
  <2>2. RowPart
    BY <1>0, <1>1, <2>1, ClaimedGood, RowSet DEF ClaimForReconcile, Requesters
  <2>3. ClaimPart
    <3>1. HandOut(token, "reconcile", s, row[s])
      BY <1>1 DEF ClaimForReconcile
    <3> QED
      BY <1>0, <2>1, <3>1, HandedOut DEF Good, WellFormed
  <2> QED
    BY <1>0, <1>1, <2>2, <2>3, Parts, PartsKept DEF ClaimForReconcile, AlarmSet
<1>2. ASSUME NEW token \in Tokens, NEW inst \in Instances,
             ClaimOrphan(s, inst, token, at)
      PROVE  DataInv' /\ AlarmSet /\ now' = now
  <2>1. RowPart
    BY <1>0, <1>2, AdoptedGood, ReopenedGood, RowSet DEF ClaimOrphan, Never
  <2>2. ClaimPart
    <3>1. \E kind \in OrphanKinds : HandOut(token, kind, s, row[s])
      BY <1>2 DEF ClaimOrphan, OrphanKinds
    <3> QED
      BY <1>0, <3>1, HandedOut DEF Good, OrphanKinds
  <2> QED
    BY <1>0, <1>2, <2>1, <2>2, Parts, PartsKept DEF ClaimOrphan, AlarmSet
<1> QED
  BY <1>1, <1>2 DEF Claiming

-----------------------------------------------------------------------------
(***************************************************************************)
(* The settlements.                                                        *)
(***************************************************************************)
LEMMA HeldClaim ==
  ASSUME DataInv, NEW token \in Held
  PROVE  /\ token \in Tokens /\ Target(token) \in Sandboxes
         /\ claim[token].before \in RowType
         /\ claim[token].before.destroyedAt <= now
         /\ Knows(claim[token])
<1>1. token \in Tokens /\ claim[token] # NoClaim /\ claim[token] \in Claims
  BY DEF Held, DataInv, Tables
<1>2. claim[token] \in [kind : {"alarm", "reconcile"} \cup OrphanKinds,
                        sandbox : Sandboxes, before : RowType]
  BY <1>1 DEF Claims
<1> QED
  BY <1>1, <1>2 DEF Target, DataInv, Past, PastRow, ClaimsKnow

\* A row under cleanup belongs to a sandbox the object has met.
LEMMA CleanupIsMet ==
  ASSUME DataInv, NEW s \in Sandboxes, row[s].state = "destroying"
  PROVE  s \in born
BY DEF DataInv, Unmet, NoRow

LEMMA AbandonsRows ==
  ASSUME DataInv, NEW s \in Sandboxes, NEW absent \in BOOLEAN,
         NEW original \in RowType, original.destroyedAt <= now,
         Abandons(s, absent, original)
  PROVE  RowPart
<1> DEFINE r == IF absent THEN NoRow ELSE Restored(row[s], original)
<1>1. SetRow(s, r) /\ born' = born /\ s \in born
  BY CleanupIsMet DEF Abandons
<1>2. now \in Nat /\ Good(row[s])
  BY PartsKept, ConstantTypes DEF Clock
<1>3. Good(r) /\ r.destroyedAt <= now
  <2>1. CASE absent
    BY <1>2, <2>1, NoRowType DEF Good, NoRow, Never
  <2>2. CASE ~absent
    BY <1>2, <2>2, RestoredGood
  <2> QED
    BY <2>1, <2>2
<1> HIDE DEF r
<1> QED
  BY <1>1, <1>3, RowSet

LEMMA SettlementSteps ==
  ASSUME DataInv, NEW token \in Held, NEW at \in Recent, Settlement(token, at)
  PROVE  DataInv' /\ AlarmSet /\ now' = now
<1> DEFINE s == Target(token)
           before == claim[token].before
<1>0. /\ token \in Tokens /\ s \in Sandboxes
      /\ before \in RowType /\ before.destroyedAt <= now
      /\ Knows(claim[token])
  BY HeldClaim
<1>1. /\ Good(row[s]) /\ row[s].destroyedAt <= now
      /\ handling \in BOOLEAN /\ now \in Clock /\ at \in Clock /\ at <= now
      /\ at \in Times
  BY <1>0, PartsKept, RecentClock, TimesFit DEF Delays
<1>2. Holds(s, token) => row[s].state = "destroying" /\ s \in born
  BY <1>0, CleanupIsMet DEF Holds
<1> HIDE DEF s, before
<1>3. CASE RetryClaim(token, at)
  <2>1. /\ Holds(s, token) /\ SetRow(s, Retried(row[s], at)) /\ Settles(token)
        /\ born' = born /\ UNCHANGED <<observed, absence, handling, now>>
        /\ Rearm \/ RearmReplacing
    BY <1>3 DEF RetryClaim, s
  <2>2. RowPart
    BY <1>0, <1>1, <1>2, <2>1, RetriedGood, RowSet
  <2>3. ClaimPart
    BY <1>0, <2>1, Settled
  <2> QED
    BY <1>1, <2>1, <2>2, <2>3, Parts, PartsKept DEF AlarmSet
<1>4. CASE CompleteClaim(token, at)
  <2>1. /\ Holds(s, token) /\ SetRow(s, Completed(row[s], at))
        /\ Settles(token) /\ born' = born /\ UNCHANGED <<handling, now>>
        /\ observed' \subseteq observed /\ absence' \subseteq absence
        /\ RearmReplacing
    BY <1>4 DEF CompleteClaim, s
  <2>2. RowPart
    BY <1>0, <1>1, <1>2, <2>1, CompletedGood, RowSet
  <2>3. ClaimPart
    BY <1>0, <2>1, Settled
  <2>4. SightPart
    BY <2>1 DEF SightPart, DataInv, Tables, Past
  <2> QED
    BY <1>1, <2>1, <2>2, <2>3, <2>4, Parts DEF AlarmSet
<1>5. ASSUME NEW busy \in BOOLEAN, PostponeCleanup(token, at, busy)
      PROVE  DataInv' /\ AlarmSet /\ now' = now
  <2> DEFINE r == Postponed(row[s], before.state, before.by, at)
             new == IF busy THEN [r EXCEPT !.busySince = BusySince(row[s], at)]
                            ELSE r
  <2>1. /\ Holds(s, token) /\ SetRow(s, new) /\ Settles(token)
        /\ claim[token].kind \in {"alarm", "reconcile"}
        /\ born' = born /\ UNCHANGED <<observed, absence, handling, now>>
        /\ RearmReplacing
    BY <1>5 DEF PostponeCleanup, s, before
  <2>2. /\ before.state \in {"starting", "online", "destroying"}
        /\ before.state = "destroying" => before.by # None
        /\ before.by \in Requesters \cup {None}
    BY <1>0, <2>1 DEF Knows, Live, RowType, before
  <2>3. BusySince(row[s], at) \in Times \cup {Never}
    BY <1>1 DEF BusySince, Good, RowType
  <2>4. ASSUME NEW since \in Times \cup {Never}
        PROVE  LET p == [r EXCEPT !.busySince = since]
               IN  /\ Good(r) /\ r.destroyedAt = row[s].destroyedAt
                   /\ Good(p) /\ p.destroyedAt = row[s].destroyedAt
    <3> DEFINE x == row[s]
               state == before.state
               by == before.by
    <3>1. /\ Good(x) /\ at \in Clock /\ by \in Requesters \cup {None}
          /\ state \in {"starting", "online", "destroying"}
          /\ state = "destroying" => by # None
      BY <1>1, <2>2
    <3> HIDE DEF x, state, by
    <3>2. LET q == Postponed(x, state, by, at)
              p == [q EXCEPT !.busySince = since]
          IN  /\ Good(q) /\ q.destroyedAt = x.destroyedAt
              /\ Good(p) /\ p.destroyedAt = x.destroyedAt
      BY <3>1, PostponedGood
    <3> QED
      BY <3>2 DEF x, state, by
  <2> HIDE DEF r
  <2>5. Good(new) /\ new.destroyedAt = row[s].destroyedAt
    BY <2>3, <2>4
  <2> HIDE DEF new
  <2>6. RowPart
    BY <1>0, <1>1, <1>2, <2>1, <2>5, RowSet
  <2>7. ClaimPart
    BY <1>0, <2>1, Settled
  <2> QED
    BY <1>1, <2>1, <2>6, <2>7, Parts, PartsKept DEF AlarmSet
<1>6. CASE AbandonOrphan(token)
  <2>1. /\ Abandons(s, claim[token].kind = "absent", before) /\ Settles(token)
        /\ UNCHANGED <<observed, absence, handling, now>> /\ RearmReplacing
    BY <1>6 DEF AbandonOrphan, Abandons, s, before
  <2>2. RowPart
    BY <1>0, <2>1, AbandonsRows
  <2>3. ClaimPart
    BY <1>0, <2>1, Settled
  <2> QED
    BY <1>1, <2>1, <2>2, <2>3, Parts, PartsKept DEF AlarmSet
<1>7. CASE DropClaim(token)
  <2>1. ClaimPart
    BY <1>0, <1>7, Settled DEF DropClaim
  <2> QED
    BY <1>1, <1>7, <2>1, Parts, PartsKept DEF DropClaim, AlarmSet
<1> QED
  BY <1>3, <1>4, <1>5, <1>6, <1>7 DEF Settlement

LEMMA UnclaimedSteps ==
  ASSUME DataInv, NEW s \in Sandboxes, NEW absent \in BOOLEAN,
         AbandonUnclaimed(s, absent)
  PROVE  DataInv' /\ AlarmSet /\ now' = now
<1>1. now \in Nat /\ handling \in BOOLEAN
  BY PartsKept, ConstantTypes DEF Clock
<1>2. NoRow \in RowType /\ NoRow.destroyedAt <= now
  BY <1>1, NoRowType DEF NoRow, Never
<1>3. /\ Abandons(s, absent, NoRow) /\ UNCHANGED claim
      /\ UNCHANGED <<observed, absence, handling, now>> /\ RearmReplacing
  BY DEF AbandonUnclaimed, Abandons
<1>4. RowPart
  BY <1>2, <1>3, AbandonsRows
<1> QED
  BY <1>1, <1>3, <1>4, Parts, PartsKept DEF AlarmSet

-----------------------------------------------------------------------------
(***************************************************************************)
(* The alarm handler, restarts and the clock.                              *)
(***************************************************************************)
LEMMA AlarmClaimSteps ==
  ASSUME DataInv, NEW C \in OldestDue, NEW token \in [Sandboxes -> Tokens],
         AlarmClaims(C, token)
  PROVE  DataInv' /\ AlarmSet /\ now' = now
<1>0. now \in Clock /\ C \subseteq Sandboxes /\ \A s \in C : Live(row[s])
  BY PartsKept DEF OldestDue, DueRows, Due
<1>1. row' = [s \in Sandboxes |->
                IF s \in C THEN AlarmClaimed(row[s], token[s], now) ELSE row[s]]
      /\ born' = born /\ UNCHANGED <<observed, absence, now>>
      /\ handling' = TRUE
  BY DEF AlarmClaims
<1>2. \A s \in C : s \in born
  BY <1>0 DEF DataInv, Unmet, Live, NoRow
<1>3. \A s \in Sandboxes : Good(row'[s]) /\ row'[s].destroyedAt <= now
  <2> SUFFICES ASSUME NEW s \in Sandboxes
               PROVE  Good(row'[s]) /\ row'[s].destroyedAt <= now
    OBVIOUS
  <2>1. Good(row[s]) /\ row[s].destroyedAt <= now /\ token[s] \in Tokens
    BY PartsKept
  <2>2. CASE s \in C
    <3>1. row'[s] = AlarmClaimed(row[s], token[s], now)
      BY <1>1, <2>2
    <3> QED
      BY <1>0, <2>1, <3>1, AlarmClaimedGood
  <2>3. CASE s \notin C
    <3>1. row'[s] = row[s]
      BY <1>1, <2>3
    <3> QED
      BY <2>1, <3>1
  <2> QED
    BY <2>2, <2>3
<1>4. RowPart
  <2>1. row' \in [Sandboxes -> RowType]
    BY <1>1, <1>3 DEF Good
  <2>2. \A s \in Sandboxes : s \notin born => row'[s] = NoRow
    BY <1>1, <1>2, PartsKept
  <2> QED
    BY <1>1, <1>3, <2>1, <2>2 DEF RowPart, Good, DataInv, Tables
<1>5. ClaimPart
  <2> DEFINE first(t) == CHOOSE s \in C : token[s] = t
             c(t) == [kind |-> "alarm", sandbox |-> first(t),
                      before |-> row[first(t)]]
  <2>1. claim' = [t \in Tokens |-> IF \E s \in C : token[s] = t
                                     THEN c(t) ELSE claim[t]]
    BY DEF AlarmClaims
  <2>2. ASSUME NEW t \in Tokens, \E s \in C : token[s] = t
        PROVE  c(t) \in Claims /\ c(t).before.destroyedAt <= now /\ Knows(c(t))
    <3>1. first(t) \in C
      BY <2>2
    <3> HIDE DEF first
    <3>2. /\ first(t) \in Sandboxes /\ Good(row[first(t)])
          /\ Live(row[first(t)]) /\ row[first(t)].destroyedAt <= now
      BY <1>0, <3>1, PartsKept
    <3> QED
      BY <3>2 DEF Claims, Knows, Good, WellFormed
  <2> HIDE DEF c
  <2>3. \A t \in Tokens : /\ claim[t] \in Claims /\ Knows(claim[t])
                          /\ claim[t].before.destroyedAt <= now
    BY DEF DataInv, Tables, Past, PastRow, ClaimsKnow
  <2> QED
    BY <2>1, <2>2, <2>3 DEF ClaimPart
<1>6. DataInv'
  BY <1>0, <1>1, <1>4, <1>5, Parts, PartsKept
<1>7. AlarmSet
  BY <1>1 DEF AlarmClaims, AlarmSet, RearmReplacing
<1> QED
  BY <1>1, <1>6, <1>7

LEMMA PruneSteps ==
  ASSUME DataInv, PruneTerminalRows
  PROVE  DataInv' /\ AlarmSet /\ now' = now
<1>1. /\ \E D \in SUBSET Terminal :
           row' = [s \in Sandboxes |->
                     IF \E d \in D : d.sandbox = s THEN NoRow ELSE row[s]]
      /\ observed' \subseteq observed /\ absence' \subseteq absence
      /\ handling' = FALSE /\ UNCHANGED <<born, claim, now>>
      /\ RearmReplacing
  BY DEF PruneTerminalRows, OldestExpired, Expired
<1>2. now \in Nat
  BY PartsKept, ConstantTypes DEF Clock
<1>3. RowPart
  <2>1. \A s \in Sandboxes : row'[s] \in {NoRow, row[s]}
    BY <1>1
  <2>2. row' = [s \in Sandboxes |-> row'[s]]
    BY <1>1
  <2> DEFINE Fine(r) == Good(r) /\ r.destroyedAt <= now
  <2>3. Fine(NoRow)
    BY <1>2, NoRowType DEF Good, NoRow, Never
  <2>4. \A s \in Sandboxes : Fine(row[s])
    BY PartsKept
  <2> HIDE DEF Fine
  <2>5. \A s \in Sandboxes : Fine(row'[s])
    BY <2>1, <2>3, <2>4
  <2>6. \A s \in Sandboxes : Good(row'[s]) /\ row'[s].destroyedAt <= now
    BY <2>5 DEF Fine
  <2>7. row' \in [Sandboxes -> RowType]
    BY <2>2, <2>6 DEF Good
  <2>8. \A s \in Sandboxes : s \notin born' => row'[s] = NoRow
    BY <1>1, <2>1, PartsKept
  <2> QED
    BY <1>1, <2>6, <2>7, <2>8 DEF RowPart, Good, DataInv, Tables
<1>4. SightPart
  BY <1>1 DEF SightPart, DataInv, Tables, Past
<1> QED
  BY <1>1, <1>3, <1>4, Parts, PartsKept DEF AlarmSet

LEMMA RestartSteps ==
  ASSUME DataInv, Restart
  PROVE  DataInv' /\ AlarmSet /\ now' = now
<1>1. /\ UNCHANGED <<row, born, observed, absence, now>> /\ handling' = FALSE
      /\ claim' = [t \in Tokens |->
                     IF claim[t].kind = "alarm" THEN NoClaim ELSE claim[t]]
      /\ Rearm
  BY DEF Restart
<1>2. \A t \in Tokens : /\ claim[t] \in Claims /\ Knows(claim[t])
                        /\ claim[t].before.destroyedAt <= now
  BY DEF DataInv, Tables, Past, PastRow, ClaimsKnow
<1>3. ClaimPart
  BY <1>1, <1>2, NoClaimKnown, PartsKept DEF ClaimPart
<1> QED
  BY <1>1, <1>3, Parts, PartsKept DEF AlarmSet

\* The clock only makes what is past more so.
LEMMA TickSteps ==
  ASSUME DataInv, Tick
  PROVE  DataInv' /\ AlarmSet
<1>1. /\ now < MaxNow /\ now' = now + 1 /\ now \in Clock
      /\ UNCHANGED <<row, born, observed, absence, alarm, handling, claim>>
  BY DEF Tick, DataInv, Tables
<1>2. now \in Int /\ now' \in Clock
  BY <1>1, ConstantTypes DEF Clock
<1>3. Times \subseteq Int /\ Never \in Int
  BY ConstantTypes DEF Times, Never
<1>4. ASSUME NEW t \in Int, t <= now
      PROVE  t <= now'
  BY <1>1, <1>2, <1>4
<1>5. Past'
  <2>1. \A s \in Sandboxes : row[s].destroyedAt \in Int
    BY <1>3 DEF DataInv, Tables, RowType
  <2>2. \A t \in Tokens : claim[t].before.destroyedAt \in Int
    <3>1. \A r \in RowType : r.destroyedAt \in Int
      BY <1>3 DEF RowType
    <3>2. \A t \in Tokens : claim[t].before \in RowType
      BY NoRowType DEF DataInv, Tables, Claims, NoClaim
    <3> QED
      BY <3>1, <3>2
  <2>3. \A o \in observed \cup absence : o.at \in Int
    BY <1>3 DEF DataInv, Tables
  <2> QED
    BY <1>1, <1>4, <2>1, <2>2, <2>3 DEF DataInv, Past, PastRow
<1>6. DataInv'
  BY <1>1, <1>2, <1>5
     DEF DataInv, Tables, Unmet, ClaimsKnow, RowsInv
<1> QED
  BY <1>1, <1>6 DEF AlarmSet

-----------------------------------------------------------------------------
(***************************************************************************)
(* The invariant is inductive.                                             *)
(***************************************************************************)
LEMMA Starts ==
  ASSUME RegistryInit
  PROVE  RegistryInv
<1>1. 0 \in Clock /\ now = 0
  BY ConstantTypes DEF RegistryInit, Clock
<1>2. Tables
  BY <1>1, NoRowType DEF RegistryInit, Tables, Claims
<1>3. Past
  BY <1>1, NoClaimKnown DEF RegistryInit, Past, PastRow, NoRow, Never
<1>4. Unmet /\ ClaimsKnow /\ RowsInv
  BY <1>1, NoRowType, NoClaimKnown
     DEF RegistryInit, Unmet, ClaimsKnow, RowsInv
<1>5. Alarmed
  BY DEF RegistryInit, Alarmed, AlarmCoversTables, Deadlines, Live, NoRow
<1> QED
  BY <1>2, <1>3, <1>4, <1>5 DEF RegistryInv, DataInv

LEMMA Keeps ==
  ASSUME RegistryInv, [RegistryNext]_registryVars
  PROVE  RegistryInv'
<1>0. DataInv
  BY DEF RegistryInv
<1>1. SUFFICES DataInv' /\ AlarmSet
  BY AlarmStays DEF RegistryInv
<1>2. ASSUME NEW s \in Sandboxes, NEW at \in Recent,
             Lifecycle(s, at) \/ Observation(s, at) \/ Claiming(s, at)
      PROVE  DataInv' /\ AlarmSet
  BY <1>0, <1>2, LifecycleSteps, ObservationSteps, ClaimingSteps
<1>3. ASSUME NEW s \in Sandboxes, NEW absent \in BOOLEAN,
             AbandonUnclaimed(s, absent)
      PROVE  DataInv' /\ AlarmSet
  BY <1>0, <1>3, UnclaimedSteps
<1>4. ASSUME NEW token \in Held, NEW at \in Recent, Settlement(token, at)
      PROVE  DataInv' /\ AlarmSet
  BY <1>0, <1>4, SettlementSteps
<1>5. CASE RegistryAlarm
  BY <1>0, <1>5, AlarmClaimSteps, PruneSteps
     DEF RegistryAlarm, AlarmIdle, AlarmEnds
<1>6. CASE Restart
  BY <1>0, <1>6, RestartSteps
<1>7. CASE Tick
  BY <1>0, <1>7, TickSteps
<1>8. CASE UNCHANGED registryVars
  BY <1>0, <1>8
     DEF registryVars, DataInv, Tables, Past, PastRow, Unmet, ClaimsKnow,
         RowsInv, AlarmSet
<1> QED
  BY <1>2, <1>3, <1>4, <1>5, <1>6, <1>7, <1>8 DEF RegistryNext

LEMMA RegistryInvariant == RegistrySpec => []RegistryInv
<1>1. RegistryInit => RegistryInv
  BY Starts
<1>2. RegistryInv /\ [RegistryNext]_registryVars => RegistryInv'
  BY Keeps
<1> QED
  BY <1>1, <1>2, PTL DEF RegistrySpec

-----------------------------------------------------------------------------
(***************************************************************************)
(* The results.                                                            *)
(***************************************************************************)
\* Every variable of the registry keeps its type, under any delays.
THEOREM RegistryTypes == RegistrySpec => []RegistryTypeOK
<1>1. RegistryInv => RegistryTypeOK
  BY DEF RegistryInv, DataInv, Tables, Alarmed, Claims, Clock, RegistryTypeOK
<1> QED
  BY <1>1, RegistryInvariant, PTL

\* Every row of the runners table always has exactly one way forward: its
\* deadline, a claim with a lease, or a parked cleanup that used up its attempts.
THEOREM RowsStayWellFormed == RegistrySpec => []RowsWellFormed
<1>1. RegistryInv => RowsWellFormed
  <2> SUFFICES ASSUME RegistryInv, NEW s \in Sandboxes
               PROVE  WellFormed(row[s])
                      /\ (Due(row[s], now) => ClaimFree(row[s], now))
    BY DEF RowsWellFormed, WellFormed
  <2>1. WellFormed(row[s]) /\ row[s] \in RowType /\ now \in Int
    BY ConstantTypes DEF RegistryInv, DataInv, RowsInv, Tables, Clock
  <2>2. row[s].startedAt \in Int /\ CleanupClaimStale \in Int
    BY <2>1, ConstantTypes DEF RowType, Times, Never
  <2> QED
    BY <2>1, <2>2 DEF WellFormed, Due, ClaimFree
<1> QED
  BY <1>1, RegistryInvariant, PTL

\* #scheduleNextAlarm leaves no deadline of the three tables uncovered,
\* whatever calls, alarms, restarts and clock readings come in any order.
THEOREM AlarmAlwaysCoversTables == RegistrySpec => []AlarmCoversTables
<1>1. RegistryInv => AlarmCoversTables
  BY DEF RegistryInv, Alarmed
<1> QED
  BY <1>1, RegistryInvariant, PTL

(***************************************************************************)
(* The lease.  A row under a claim whose lease runs is not free to be      *)
(* claimed, it is not terminal, and its token is that of one holder only.  *)
(***************************************************************************)
Leased(s, t) == row[s].token = t /\ row[s].by # "orphan" /\ now < row[s].due

LEMMA LeasedRow ==
  ASSUME RegistryInv, NEW s \in Sandboxes, NEW t \in Tokens, Leased(s, t)
  PROVE  /\ row[s].state = "destroying" /\ row[s].token # None /\ s \in born
         /\ \A at \in Recent \cup {now} : ~ClaimFree(row[s], at)
<1>1. WellFormed(row[s]) /\ row[s] \in RowType /\ now \in Clock /\ DataInv
  BY DEF RegistryInv, DataInv, RowsInv, Tables
<1>2. row[s].token # None
  BY RegistryConstants DEF Leased
<1>3. row[s].state = "destroying" /\ row[s].due = row[s].startedAt + CleanupClaimStale
  BY <1>1, <1>2 DEF WellFormed
<1>4. row[s].startedAt \in Int /\ CleanupClaimStale \in Int /\ now \in Int
  BY <1>1, ConstantTypes DEF RowType, Times, Never, Clock
<1>5. \A at \in Recent \cup {now} : at \in Int /\ at <= now
  BY <1>1, <1>4, RecentClock
<1>6. \A at \in Recent \cup {now} : ~ClaimFree(row[s], at)
  BY <1>2, <1>3, <1>4, <1>5 DEF ClaimFree, Leased
<1> QED
  BY <1>1, <1>2, <1>3, <1>6, CleanupIsMet

LEMMA LeaseKept ==
  ASSUME RegistryInv, [RegistryNext]_registryVars,
         NEW s \in Sandboxes, NEW t \in Tokens, Leased(s, t), row'[s] # row[s]
  PROVE  claim[t] # NoClaim /\ claim'[t] = NoClaim
<1>0. /\ row[s].state = "destroying" /\ row[s].token = t
      /\ row[s].token # None /\ row[s].by # "orphan" /\ s \in born
      /\ \A at \in Recent \cup {now} : ~ClaimFree(row[s], at)
      /\ row[s].due # Never
  BY LeasedRow, ConstantTypes DEF Leased, RegistryInv, DataInv, Tables, Clock, Never
<1>1. row \in [Sandboxes -> RowType] /\ claim \in [Tokens -> Claims]
  BY DEF RegistryInv, DataInv, Tables
<1>2. ASSUME NEW x \in Sandboxes, NEW r, SetRow(x, r)
      PROVE  x = s
  BY <1>1, <1>2 DEF SetRow
<1>3. ASSUME NEW x \in Sandboxes, NEW at \in Recent,
             Lifecycle(x, at) \/ Observation(x, at) \/ Claiming(x, at)
      PROVE  FALSE
  <2>1. ASSUME Lifecycle(x, at)
        PROVE  FALSE
    BY <1>0, <1>2, <2>1
       DEF Lifecycle, MarkOnline, RecordStarting, QueueCleanup,
           RearmStalledCleanup, Parked
  <2>2. ASSUME Observation(x, at)
        PROVE  FALSE
    BY <1>0, <1>1, <2>2
       DEF Observation, ObserveAbsence, ObserveOrphan, OrphanObservable
  <2>3. ASSUME Claiming(x, at)
        PROVE  FALSE
    BY <1>0, <1>2, <2>3
       DEF Claiming, ClaimForReconcile, ClaimOrphan, OrphanObservable
  <2> QED
    BY <1>3, <2>1, <2>2, <2>3
<1>4. ASSUME NEW x \in Sandboxes, NEW absent \in BOOLEAN, NEW original,
             Abandons(x, absent, original)
      PROVE  FALSE
  BY <1>0, <1>2, <1>4 DEF Abandons
<1>5. ASSUME NEW token \in Held, NEW at \in Recent, Settlement(token, at)
      PROVE  claim[t] # NoClaim /\ claim'[t] = NoClaim
  <2>1. token \in Tokens /\ Target(token) \in Sandboxes /\ claim[token] # NoClaim
    BY HeldClaim DEF Held, RegistryInv
  <2>2. ~AbandonOrphan(token) /\ ~DropClaim(token)
    BY <1>4, <2>1 DEF AbandonOrphan, DropClaim
  <2>3. /\ Holds(Target(token), token) /\ Settles(token)
        /\ \E r : SetRow(Target(token), r)
    BY <1>5, <2>2
       DEF Settlement, RetryClaim, CompleteClaim, PostponeCleanup
  <2>4. token = t
    BY <1>0, <1>2, <2>1, <2>3 DEF Holds
  <2> QED
    BY <1>1, <2>1, <2>3, <2>4 DEF Settles
<1>6. ~RegistryAlarm
  <2>1. ASSUME NEW C \in OldestDue, NEW token \in [Sandboxes -> Tokens],
               AlarmClaims(C, token)
        PROVE  FALSE
    BY <1>0, <2>1 DEF AlarmClaims
  <2>2. ASSUME PruneTerminalRows
        PROVE  FALSE
    <3>1. PICK D \in SUBSET Terminal :
            row' = [x \in Sandboxes |->
                      IF \E d \in D : d.sandbox = x THEN NoRow ELSE row[x]]
      BY <2>2 DEF PruneTerminalRows, OldestExpired, Expired
    <3>2. \A d \in D : d.sandbox # s
      BY <1>0 DEF Terminal
    <3> QED
      BY <3>1, <3>2
  <2> QED
    BY <2>1, <2>2 DEF RegistryAlarm, AlarmIdle, AlarmEnds
<1>7. ~Restart /\ ~Tick /\ ~UNCHANGED registryVars
  BY DEF Restart, Tick, registryVars
<1> QED
  BY <1>3, <1>4, <1>5, <1>6, <1>7 DEF RegistryNext, AbandonUnclaimed

\* Until its lease ends, only its holder changes the row of a runner under
\* cleanup (claimDueReconcile, claimNextDueCleanup and the orphan routes).
THEOREM LeaseIsExclusive == RegistrySpec => RunnerLeaseIsExclusive
<1>1. RegistryInv /\ [RegistryNext]_registryVars =>
        [ \A s \in Sandboxes, t \in Tokens :
            /\ row[s].token = t /\ row[s].by # "orphan"
            /\ now < row[s].due /\ row'[s] # row[s]
            => claim[t] # NoClaim /\ claim'[t] = NoClaim ]_registryVars
  BY LeaseKept DEF Leased
<1> QED
  BY <1>1, RegistryInvariant, PTL DEF RegistrySpec, RunnerLeaseIsExclusive
=============================================================================
