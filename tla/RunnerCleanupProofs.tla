------------------------ MODULE RunnerCleanupProofs -------------------------
(***************************************************************************)
(* Proofs about the Workers that start and clean up runners, for any       *)
(* number of sandboxes, deliveries, overlapping cleanups, faults and       *)
(* operators' requests.                                                    *)
(***************************************************************************)
EXTENDS RunnerCleanup, TLAPS

-----------------------------------------------------------------------------
(***************************************************************************)
(* The invariant.                                                          *)
(***************************************************************************)

\* The sandbox was destroyed, or a refusal was taken for that; what runs there
\* now came later.  This never ends.
Done(s) == container[s] \in {"gone", "late", "spent"} \/ s \in concealed

\* A row that is terminal, or that only an orphan's cleanup works on.
Settled(r) == r.state = "destroyed" \/ r.by = "orphan"

\* A cleanup that found its sandbox destroyed, or has just destroyed it.
Confirmed(c) ==
  \/ c.by = "orphan" \/ c.from = "orphan" \/ c.state = "destroyed"
  \/ c.pc \in {"recheck", "delete", "settle", "release"}

RowInv(s) ==
  /\ Settled(row[s]) => Done(s)
  /\ start[s] \in {"none", "posted"} => row[s] = NoRow

HolderInv(t) ==
  /\ Confirmed(cleanup[t]) => Done(Target(t))
  /\ cleanup[t].forced => row[Target(t)].busy = "long"

\* A job that began before any cleanup had passed its last look: whoever is
\* past that look now overrides it, and a destroy that nobody waits for does.
Began(s) ==
  Registered(s) /\ registration.status = "busy" /\ ~registration.raced

JobInv(s) ==
  Began(s) => /\ \A t \in Tokens : PastLook(t, s) => cleanup[t].forced
              /\ s \in killing => row[s].busy = "long"

CleanupInv ==
  /\ CleanupTypeOK
  /\ \A s \in Sandboxes : RowInv(s)
  /\ \A t \in Tokens : HolderInv(t)
  /\ \A s \in Known : JobInv(s)

-----------------------------------------------------------------------------
(***************************************************************************)
(* A step keeps the invariant when each row, each cleanup and the world go *)
(* on as follows.                                                          *)
(***************************************************************************)
Unborn(s) == start[s] \in {"none", "posted"}
Long(s) == row[s].busy = "long"

\* Done and Long of a sandbox that the next state names
DoneThen(s) == container'[s] \in {"gone", "late", "spent"} \/ s \in concealed'
LongThen(s) == row'[s].busy = "long"

Past(c, s) ==
  \/ c.sandbox = s
     /\ c.pc \in {"own-delete", "delete", "own-destroy", "destroy"}
  \/ c.gated = s /\ c.pc \in {"own-delete", "delete"}

RowGoes(s) ==
  /\ row'[s] \in RowType
  /\ Settled(row'[s]) => Settled(row[s]) \/ Done(s)'
  /\ Long(s) => Long(s)'
  /\ Unborn(s)' => Unborn(s) /\ row'[s] = row[s]

CleanupGoes(t) ==
  LET c == cleanup'[t] IN
  /\ c \in CleanupType \cup {NoCleanup}
  /\ Confirmed(c) => \/ Confirmed(cleanup[t]) /\ c.sandbox = Target(t)
                     \/ DoneThen(c.sandbox)
  /\ c.forced => \/ cleanup[t].forced /\ c.sandbox = Target(t)
                 \/ LongThen(c.sandbox)
  /\ \A s \in Known : Began(s)' /\ Past(c, s) => c.forced

Frames ==
  /\ row' = [s \in Sandboxes |-> row'[s]]
  /\ cleanup' = [t \in Tokens |-> cleanup'[t]]

WorldGoes ==
  /\ lease' \in [Sandboxes -> {"none", "reserved", "consumed", "released"}]
  /\ start' \in [Sandboxes -> {"none", "posted", "recorded", "launching",
                               "watching", "unwind", "over"}]
  /\ container' \in [Known -> {"none", "up", "ended", "gone", "late", "spent"}]
  /\ booting' \subseteq Sandboxes /\ killing' \subseteq Sandboxes
  /\ concealed' \subseteq Sandboxes
  /\ registration' \in [of : Known \cup {None}, raced : BOOLEAN,
                        status : {"offline", "online", "busy"}]
  /\ faults' \in 0 .. MaxFaults /\ requests' \in 0 .. MaxRequests
  /\ \A s \in Sandboxes : Done(s) => Done(s)'
  /\ \A s \in killing' : Began(s)' => Long(s)'

LEMMA Constants ==
  /\ None \notin Sandboxes /\ None \notin Known /\ None \notin Tokens
  /\ None \notin Requesters
  /\ Sandboxes \subseteq Known /\ Sandboxes \cap Later = {}
  /\ MaxCleanupAttempts \in Nat \ {0} /\ MaxFaults \in Nat
  /\ MaxRequests \in Nat
BY CleanupConstants DEF Known

LEMMA PastIsPast == \A t, s : PastLook(t, s) <=> Past(cleanup[t], s)
BY DEF PastLook, Past

LEMMA NothingUnderWay ==
  /\ ~Confirmed(NoCleanup) /\ ~NoCleanup.forced /\ NoCleanup.pc = "none"
  /\ NoCleanup.sandbox = None /\ NoCleanup.gated = None
  /\ \A s : ~Past(NoCleanup, s)
BY Constants DEF NoCleanup, Confirmed, Past, Requesters

LEMMA UnderWay ==
  ASSUME CleanupInv, NEW t \in Tokens
  PROVE  /\ cleanup[t] \in CleanupType \cup {NoCleanup}
         /\ cleanup[t].pc # "none" => cleanup[t] \in CleanupType
         /\ Target(t) \in Sandboxes => cleanup[t] \in CleanupType
         /\ cleanup[t] \in CleanupType => Target(t) \in Sandboxes
BY NothingUnderWay, Constants
   DEF CleanupInv, CleanupTypeOK, CleanupType, Target

LEMMA GoesOn ==
  ASSUME CleanupInv, WorldGoes, Frames,
         \A s \in Sandboxes : RowGoes(s), \A t \in Tokens : CleanupGoes(t)
  PROVE  CleanupInv'
<1>1. CleanupTypeOK'
  BY DEF WorldGoes, Frames, RowGoes, CleanupGoes, CleanupTypeOK
<1>2. ASSUME NEW s \in Sandboxes
      PROVE  RowInv(s)'
  <2>1. RowInv(s) /\ RowGoes(s) /\ (Done(s) => Done(s)')
    BY <1>2 DEF CleanupInv, WorldGoes
  <2> QED
    BY <2>1 DEF RowInv, RowGoes, Unborn
<1>3. ASSUME NEW t \in Tokens
      PROVE  HolderInv(t)'
  <2>1. HolderInv(t) /\ CleanupGoes(t)
    BY <1>3 DEF CleanupInv
  <2>2. CASE cleanup'[t] = NoCleanup
    BY <2>2, NothingUnderWay DEF HolderInv
  <2>3. CASE cleanup'[t] \in CleanupType
    <3>1. cleanup'[t].sandbox \in Sandboxes
      BY <2>3 DEF CleanupType
    <3>2. /\ Done(cleanup'[t].sandbox) => DoneThen(cleanup'[t].sandbox)
          /\ Long(cleanup'[t].sandbox) => LongThen(cleanup'[t].sandbox)
      BY <3>1 DEF WorldGoes, RowGoes, Done, DoneThen, Long, LongThen
    <3>3. /\ Confirmed(cleanup'[t]) => DoneThen(cleanup'[t].sandbox)
          /\ cleanup'[t].forced => LongThen(cleanup'[t].sandbox)
      BY <2>1, <3>2 DEF HolderInv, CleanupGoes, Long, Target
    <3> QED
      BY <3>3 DEF HolderInv, Target, DoneThen, Done, LongThen, Confirmed
  <2> QED
    BY <2>1, <2>2, <2>3 DEF CleanupGoes
<1>4. ASSUME NEW s \in Known
      PROVE  JobInv(s)'
  <2>1. \A t \in Tokens : PastLook(t, s)' <=> Past(cleanup'[t], s)
    BY DEF PastLook, Past
  <2> QED
    BY <2>1 DEF JobInv, CleanupGoes, WorldGoes, Long
<1> QED
  BY <1>1, <1>2, <1>3, <1>4 DEF CleanupInv, Known

-----------------------------------------------------------------------------
(***************************************************************************)
(* How rows, cleanups and the world may go on.                             *)
(***************************************************************************)
LEMMA Types ==
  ASSUME CleanupInv
  PROVE  /\ row \in [Sandboxes -> RowType]
         /\ \A s \in Sandboxes : row[s] \in RowType
         /\ lease \in [Sandboxes -> {"none", "reserved", "consumed",
                                     "released"}]
         /\ start \in [Sandboxes -> {"none", "posted", "recorded", "launching",
                                     "watching", "unwind", "over"}]
         /\ container \in [Known -> {"none", "up", "ended", "gone", "late",
                                     "spent"}]
         /\ booting \subseteq Sandboxes /\ killing \subseteq Sandboxes
         /\ concealed \subseteq Sandboxes
         /\ registration \in [of : Known \cup {None}, raced : BOOLEAN,
                              status : {"offline", "online", "busy"}]
         /\ cleanup \in [Tokens -> CleanupType \cup {NoCleanup}]
         /\ faults \in 0 .. MaxFaults /\ requests \in 0 .. MaxRequests
BY DEF CleanupInv, CleanupTypeOK

LEMMA SameRows ==
  ASSUME CleanupInv, UNCHANGED row,
         \A s \in Sandboxes : Unborn(s)' => Unborn(s)
  PROVE  /\ row' = [s \in Sandboxes |-> row'[s]]
         /\ \A s \in Sandboxes : RowGoes(s)
BY Types DEF RowGoes, Long, Settled

LEMMA OneRow ==
  ASSUME CleanupInv, NEW s \in Sandboxes, NEW r \in RowType, SetRow(s, r),
         Settled(r) => Settled(row[s]) \/ Done(s)',
         Long(s) => r.busy = "long",
         Unborn(s)' => r = row[s],
         \A x \in Sandboxes : Unborn(x)' => Unborn(x)
  PROVE  /\ row' = [x \in Sandboxes |-> row'[x]]
         /\ \A x \in Sandboxes : RowGoes(x)
<1>1. /\ row' \in [Sandboxes -> RowType] /\ row'[s] = r
      /\ \A x \in Sandboxes : x # s => row'[x] = row[x]
  BY Types DEF SetRow
<1>2. RowGoes(s)
  BY <1>1 DEF RowGoes, Long
<1>3. ASSUME NEW x \in Sandboxes, x # s
      PROVE  RowGoes(x)
  BY <1>1, <1>3, Types DEF RowGoes, Long, Settled
<1> QED
  BY <1>1, <1>2, <1>3

\* No job begins that was not there.
Calm == \A s \in Known : Began(s)' => Began(s)

LEMMA CalmWorld ==
  ASSUME UNCHANGED registration
  PROVE  Calm
BY DEF Calm, Began, Registered

LEMMA SameCleanups ==
  ASSUME CleanupInv, UNCHANGED cleanup, Calm
  PROVE  /\ cleanup' = [t \in Tokens |-> cleanup'[t]]
         /\ \A t \in Tokens : CleanupGoes(t)
<1>1. \A t \in Tokens, s \in Known : Began(s)' /\ Past(cleanup[t], s)
                                       => cleanup[t].forced
  BY PastIsPast DEF CleanupInv, JobInv, Calm
<1> QED
  BY <1>1, Types DEF CleanupGoes, Target

LEMMA OneCleanup ==
  ASSUME CleanupInv, NEW t \in Tokens,
         NEW c \in CleanupType \cup {NoCleanup},
         cleanup' = [cleanup EXCEPT ![t] = c],
         Calm,
         Confirmed(c) => \/ Confirmed(cleanup[t]) /\ c.sandbox = Target(t)
                         \/ DoneThen(c.sandbox),
         c.forced => \/ cleanup[t].forced /\ c.sandbox = Target(t)
                     \/ LongThen(c.sandbox),
         \A s \in Known : Began(s)' /\ Past(c, s) => c.forced
  PROVE  /\ cleanup' = [u \in Tokens |-> cleanup'[u]]
         /\ \A u \in Tokens : CleanupGoes(u)
<1>1. /\ cleanup'[t] = c /\ cleanup' = [u \in Tokens |-> cleanup'[u]]
      /\ \A u \in Tokens : u # t => cleanup'[u] = cleanup[u]
  BY Types
<1>2. CleanupGoes(t)
  BY <1>1 DEF CleanupGoes
<1>3. ASSUME NEW u \in Tokens, u # t
      PROVE  CleanupGoes(u)
  <2>1. \A s \in Known : Began(s)' /\ Past(cleanup[u], s) => cleanup[u].forced
    BY PastIsPast DEF CleanupInv, JobInv, Calm
  <2> QED
    BY <1>1, <1>3, <2>1, Types DEF CleanupGoes, Target
<1> QED
  BY <1>1, <1>2, <1>3

\* A cleanup that ends leaves nothing to be careful about.
LEMMA Ending ==
  ASSUME CleanupInv, NEW t \in Tokens, Ends(t), Calm
  PROVE  /\ cleanup' = [u \in Tokens |-> cleanup'[u]]
         /\ \A u \in Tokens : CleanupGoes(u)
<1>1. cleanup' = [cleanup EXCEPT ![t] = NoCleanup]
  BY DEF Ends
<1> QED
  BY <1>1, OneCleanup, NothingUnderWay

Stages == {"look", "postpone-busy", "postpone-online", "destroy", "recheck",
           "delete", "settle", "release", "retry", "relook", "own-delete",
           "own-destroy", "abandon"}

\* A cleanup that goes on to its next call: past its last look only with
\* reason, and to what follows a destroy only after one.
LEMMA GoingOn ==
  ASSUME CleanupInv, NEW t \in Tokens, NEW pc \in Stages,
         NEW gated \in Known \cup {None}, cleanup[t] \in CleanupType,
         cleanup' = [cleanup EXCEPT ![t] =
                       [cleanup[t] EXCEPT !.pc = pc, !.gated = gated]],
         Calm,
         pc \in {"recheck", "delete", "settle", "release"}
           => Confirmed(cleanup[t]) \/ DoneThen(Target(t)),
         \A s \in Known :
           /\ Began(s)'
           /\ \/ Target(t) = s /\ pc \in {"own-delete", "delete",
                                          "own-destroy", "destroy"}
              \/ gated = s /\ pc \in {"own-delete", "delete"}
           => cleanup[t].forced
  PROVE  /\ cleanup' = [u \in Tokens |-> cleanup'[u]]
         /\ \A u \in Tokens : CleanupGoes(u)
<1> DEFINE c == [cleanup[t] EXCEPT !.pc = pc, !.gated = gated]
<1>1. /\ c \in CleanupType /\ c.pc = pc /\ c.gated = gated
      /\ c.sandbox = Target(t) /\ c.forced = cleanup[t].forced
      /\ c.by = cleanup[t].by /\ c.from = cleanup[t].from
      /\ c.state = cleanup[t].state
  BY DEF CleanupType, Stages, Target
<1>2. cleanup' = [cleanup EXCEPT ![t] = c]
  OBVIOUS
<1> HIDE DEF c
<1>3. Confirmed(c) => \/ Confirmed(cleanup[t]) /\ c.sandbox = Target(t)
                      \/ DoneThen(c.sandbox)
  BY <1>1 DEF Confirmed
<1>4. \A s \in Known : Began(s)' /\ Past(c, s) => c.forced
  BY <1>1 DEF Past
<1> QED
  BY <1>1, <1>2, <1>3, <1>4, OneCleanup

LEMMA Gone ==
  ASSUME CleanupInv, NEW t \in Tokens, NEW pc, Goes(t, pc)
  PROVE  cleanup' = [cleanup EXCEPT ![t] =
                       [cleanup[t] EXCEPT !.pc = pc,
                                          !.gated = cleanup[t].gated]]
BY Types DEF Goes, CleanupType, NoCleanup

LEMMA GoneGated ==
  ASSUME CleanupInv, NEW t \in Tokens, NEW pc, GoesGated(t, pc)
  PROVE  cleanup' = [cleanup EXCEPT ![t] =
                       [cleanup[t] EXCEPT !.pc = pc,
                                          !.gated = registration.of]]
BY Types DEF GoesGated, CleanupType, NoCleanup

WorldTypes ==
  /\ lease \in [Sandboxes -> {"none", "reserved", "consumed", "released"}]
  /\ start \in [Sandboxes -> {"none", "posted", "recorded", "launching",
                              "watching", "unwind", "over"}]
  /\ container \in [Known -> {"none", "up", "ended", "gone", "late", "spent"}]
  /\ booting \subseteq Sandboxes /\ killing \subseteq Sandboxes
  /\ concealed \subseteq Sandboxes
  /\ registration \in [of : Known \cup {None}, raced : BOOLEAN,
                       status : {"offline", "online", "busy"}]
  /\ faults \in 0 .. MaxFaults /\ requests \in 0 .. MaxRequests

LEMMA TypedWorld == CleanupInv => WorldTypes
BY DEF CleanupInv, CleanupTypeOK, WorldTypes

LEMMA WorldMoves ==
  ASSUME CleanupInv, WorldTypes', Calm, killing' \subseteq killing,
         \A s \in Sandboxes : RowGoes(s) /\ (Done(s) => Done(s)')
  PROVE  WorldGoes
<1>1. ASSUME NEW s \in killing', Began(s)'
      PROVE  Long(s)'
  <2>1. s \in Sandboxes /\ s \in Known /\ s \in killing
    BY <1>1, Constants DEF WorldTypes
  <2>2. Long(s)
    BY <1>1, <2>1 DEF Calm, CleanupInv, JobInv, Long
  <2> QED
    BY <2>1, <2>2 DEF RowGoes
<1> QED
  BY <1>1 DEF WorldGoes, WorldTypes

\* The rows and the cleanups stay as they are.
LEMMA Surroundings ==
  ASSUME CleanupInv, WorldTypes', Calm, killing' \subseteq killing,
         UNCHANGED <<row, cleanup>>,
         \A s \in Sandboxes : /\ Unborn(s)' => Unborn(s)
                              /\ Done(s) => Done(s)'
  PROVE  CleanupInv'
<1>1. /\ row' = [s \in Sandboxes |-> row'[s]]
      /\ \A s \in Sandboxes : RowGoes(s)
  BY SameRows
<1>2. /\ cleanup' = [t \in Tokens |-> cleanup'[t]]
      /\ \A t \in Tokens : CleanupGoes(t)
  BY SameCleanups
<1> QED
  BY <1>1, <1>2, WorldMoves, GoesOn DEF Frames

-----------------------------------------------------------------------------
(***************************************************************************)
(* The start route, the sandboxes and GitHub.                              *)
(***************************************************************************)
LEMMA FaultTypes ==
  ASSUME WorldTypes, Fault
  PROVE  /\ faults' \in 0 .. MaxFaults /\ requests' \in 0 .. MaxRequests
         /\ UNCHANGED concealed
BY Constants DEF Fault, WorldTypes

LEMMA SameWorld ==
  ASSUME UNCHANGED <<container, concealed>>
  PROVE  \A s \in Sandboxes : Done(s) => Done(s)'
BY DEF Done

RegistrationType == [of : Known \cup {None}, raced : BOOLEAN,
                     status : {"offline", "online", "busy"}]

LEMMA Registrations ==
  ASSUME WorldTypes
  PROVE  /\ registration \in RegistrationType
         /\ NoRegistration \in RegistrationType
         /\ NoRegistration.status = "offline"
         /\ \A s \in Known :
              /\ [NoRegistration EXCEPT !.of = s] \in RegistrationType
              /\ [NoRegistration EXCEPT !.of = s].status = "offline"
         /\ \A status \in {"offline", "online"} :
              /\ [registration EXCEPT !.status = status] \in RegistrationType
              /\ [registration EXCEPT !.status = status].status = status
BY Constants DEF WorldTypes, RegistrationType, NoRegistration

LEMMA StartsAside ==
  ASSUME CleanupInv, NEW s \in Sandboxes,
         \/ Deliver(s) \/ LeaseEnds(s) \/ StartMismatched(s)
         \/ ConsumeAndStart(s) \/ StartGivenUp(s) \/ StartAnswered(s)
         \/ NotReady(s) \/ StartFails(s)
  PROVE  CleanupInv'
<1>1. WorldTypes
  BY TypedWorld
<1>2. UNCHANGED <<row, cleanup, container, killing, concealed>>
  BY DEF Deliver, LeaseEnds, StartMismatched, ConsumeAndStart, StartGivenUp,
         StartAnswered, NotReady, StartFails, Fault, rows, world, tallies
<1>3. Calm
  <2>1. CASE Deliver(s)
    BY <2>1 DEF Deliver, Register, NoRegistration, Calm, Began
  <2>2. CASE ~Deliver(s)
    BY <2>2, CalmWorld
       DEF LeaseEnds, StartMismatched, ConsumeAndStart, StartGivenUp,
           StartAnswered, NotReady, StartFails, world
  <2> QED
    BY <2>1, <2>2
<1>4. \A x \in Sandboxes : Unborn(x)' => Unborn(x)
  BY <1>1
     DEF WorldTypes, Unborn, Deliver, LeaseEnds, StartMismatched,
         ConsumeAndStart, StartGivenUp, StartAnswered, NotReady, StartFails,
         StartGoes
<1>5. /\ faults' \in 0 .. MaxFaults /\ requests' \in 0 .. MaxRequests
  BY <1>1, FaultTypes
     DEF WorldTypes, Deliver, LeaseEnds, StartMismatched, ConsumeAndStart,
         StartGivenUp, StartAnswered, NotReady, StartFails, tallies
<1>6. registration' \in [of : Known \cup {None}, raced : BOOLEAN,
                         status : {"offline", "online", "busy"}]
  <2>1. CASE Deliver(s)
    BY <1>1, <2>1, Registrations, Constants
       DEF Deliver, Register, RegistrationType
  <2>2. CASE ~Deliver(s)
    BY <1>1, <2>2
       DEF WorldTypes, LeaseEnds, StartMismatched, ConsumeAndStart,
           StartGivenUp, StartAnswered, NotReady, StartFails, world
  <2> QED
    BY <2>1, <2>2
<1>7. /\ lease' \in [Sandboxes -> {"none", "reserved", "consumed", "released"}]
      /\ start' \in [Sandboxes -> {"none", "posted", "recorded", "launching",
                                   "watching", "unwind", "over"}]
      /\ booting' \subseteq Sandboxes
  BY <1>1
     DEF WorldTypes, Deliver, LeaseEnds, StartMismatched, ConsumeAndStart,
         StartGivenUp, StartAnswered, NotReady, StartFails, StartGoes, rows,
         world
<1>8. WorldTypes'
  BY <1>1, <1>2, <1>5, <1>6, <1>7 DEF WorldTypes
<1> QED
  BY <1>2, <1>3, <1>4, <1>8, SameWorld, Surroundings

LEMMA RunnersAside ==
  ASSUME CleanupInv,
         \/ \E s \in Sandboxes : Boot(s) \/ KillLands(s) \/ RunnerEnds(s)
         \/ \E x \in Later : DeliverLater(x) \/ LaterConnects(x) \/ LaterEnds(x)
         \/ RunnerMissed
  PROVE  CleanupInv'
<1>1. WorldTypes
  BY TypedWorld
<1>2. /\ UNCHANGED <<row, cleanup, lease, start, concealed, faults, requests>>
      /\ booting' \subseteq Sandboxes /\ killing' \subseteq killing
  BY <1>1 DEF WorldTypes, Boot, KillLands, RunnerEnds, DeliverLater,
              LaterConnects, LaterEnds, RunnerMissed, rows, tallies
<1>3. /\ registration' \in [of : Known \cup {None}, raced : BOOLEAN,
                            status : {"offline", "online", "busy"}]
      /\ registration' = registration \/ registration'.status # "busy"
  <2>1. \/ registration' \in {registration, NoRegistration}
        \/ \E s \in Known : registration' = [NoRegistration EXCEPT !.of = s]
        \/ \E status \in {"offline", "online"} :
             registration' = [registration EXCEPT !.status = status]
    BY DEF Boot, KillLands, RunnerEnds, DeliverLater, LaterConnects, LaterEnds,
           RunnerMissed, Register, Known
  <2> QED
    BY <1>1, <2>1, Registrations DEF RegistrationType
<1>4. Calm
  BY <1>3 DEF Calm, Began, Registered
<1>5. /\ container' \in [Known -> {"none", "up", "ended", "gone", "late",
                                   "spent"}]
      /\ \A s \in Sandboxes : Done(s) => Done(s)'
  <2>1. ASSUME NEW x \in Known, NEW new \in {"up", "ended", "gone", "late",
                                             "spent"},
               container' = [container EXCEPT ![x] = new],
               x \in Sandboxes /\ container[x] \in {"gone", "late", "spent"}
                 => new \in {"gone", "late", "spent"}
        PROVE  /\ container' \in [Known -> {"none", "up", "ended", "gone",
                                            "late", "spent"}]
               /\ \A s \in Sandboxes : Done(s) => Done(s)'
    BY <1>1, <1>2, <2>1, Constants DEF WorldTypes, Done
  <2>2. UNCHANGED container
        \/ \E x \in Known, new \in {"up", "ended", "gone", "late", "spent"} :
             /\ container' = [container EXCEPT ![x] = new]
             /\ x \in Sandboxes /\ container[x] \in {"gone", "late", "spent"}
                  => new \in {"gone", "late", "spent"}
    BY <1>1, Constants
       DEF WorldTypes, Boot, KillLands, RunnerEnds, DeliverLater,
           LaterConnects, LaterEnds, RunnerMissed, Running, Known
  <2> QED
    BY <1>1, <1>2, <2>1, <2>2, SameWorld DEF WorldTypes
<1>6. WorldTypes'
  BY <1>1, <1>2, <1>3, <1>5 DEF WorldTypes
<1> QED
  BY <1>2, <1>4, <1>5, <1>6, Surroundings DEF Unborn

\* A job begins while no cleanup has passed its last look, or is marked.
LEMMA JobBegins ==
  ASSUME CleanupInv, NEW s \in Known, TakeJob(s)
  PROVE  CleanupInv'
<1>1. WorldTypes
  BY TypedWorld
<1>2. /\ UNCHANGED <<row, cleanup, lease, start, container, booting, killing,
                     concealed, faults, requests>>
      /\ registration' = [registration EXCEPT
           !.status = "busy",
           !.raced = \/ s \in killing
                     \/ \E t \in Tokens : PastLook(t, s)]
  BY DEF TakeJob, rows, tallies
<1>3. /\ registration'.of = s /\ registration'.status = "busy"
      /\ registration'.raced <=> \/ s \in killing
                                 \/ \E t \in Tokens : PastLook(t, s)
      /\ registration' \in [of : Known \cup {None}, raced : BOOLEAN,
                            status : {"offline", "online", "busy"}]
  BY <1>1, <1>2 DEF TakeJob, Registered, WorldTypes
<1>4. ASSUME NEW x \in Known, Began(x)'
      PROVE  /\ x \notin killing
             /\ \A t \in Tokens : ~Past(cleanup[t], x)
  BY <1>3, <1>4, PastIsPast DEF Began, Registered
<1>5. /\ row' = [x \in Sandboxes |-> row'[x]]
      /\ \A x \in Sandboxes : RowGoes(x)
  BY <1>2, SameRows DEF Unborn
<1>6. /\ cleanup' = [t \in Tokens |-> cleanup'[t]]
      /\ \A t \in Tokens : CleanupGoes(t)
  BY <1>2, <1>4, Types DEF CleanupGoes, Target
<1>7. WorldGoes
  BY <1>1, <1>2, <1>3, <1>4, SameWorld, Constants DEF WorldGoes, WorldTypes
<1> QED
  BY <1>5, <1>6, <1>7, GoesOn DEF Frames

-----------------------------------------------------------------------------
(***************************************************************************)
(* The registry's writes of a row.                                         *)
(***************************************************************************)
RowStates == {"none", "starting", "online", "destroying", "destroyed"}

LEMMA RowWrites ==
  ASSUME NEW r \in RowType
  PROVE  /\ \A by \in Requesters :
              /\ Queued(r, by) \in RowType /\ Queued(r, by).by = by
              /\ Queued(r, by).state = "destroying"
              /\ Queued(r, by).busy = r.busy
         /\ \A by \in Requesters, t \in Tokens :
              /\ Claimed(r, t, by) \in RowType /\ Claimed(r, t, by).by = by
              /\ Claimed(r, t, by).state = "destroying"
              /\ Claimed(r, t, by).busy = r.busy
<1>1. ASSUME NEW by \in Requesters
      PROVE  /\ Queued(r, by) \in RowType /\ Queued(r, by).by = by
             /\ Queued(r, by).state = "destroying"
             /\ Queued(r, by).busy = r.busy
  BY <1>1 DEF Queued, RowType
<1>2. ASSUME NEW by \in Requesters, NEW t \in Tokens
      PROVE  /\ Claimed(r, t, by) \in RowType /\ Claimed(r, t, by).by = by
             /\ Claimed(r, t, by).state = "destroying"
             /\ Claimed(r, t, by).busy = r.busy
  BY <1>2 DEF Claimed, RowType
<1> QED
  BY <1>1, <1>2

LEMMA AttemptCounted ==
  ASSUME NEW r \in RowType
  PROVE  LET c == [r EXCEPT !.attempts = Attempts(@)] IN
         /\ c \in RowType /\ c.by = r.by /\ c.state = r.state
         /\ c.busy = r.busy
<1>1. \A n \in 0 .. MaxCleanupAttempts :
        Attempts(n) \in 0 .. MaxCleanupAttempts
  BY Constants DEF Attempts
<1> QED
  BY <1>1 DEF RowType

LEMMA RowReturns ==
  ASSUME NEW r \in RowType
  PROVE  /\ Retried(r) \in RowType /\ Retried(r).by = r.by
         /\ Retried(r).state = r.state /\ Retried(r).busy = r.busy
         /\ Completed(r) \in RowType /\ Completed(r).state = "destroyed"
         /\ Completed(r).busy = r.busy
         /\ \A state \in RowStates, by \in Requesters \cup {None} :
              LET p == Postponed(r, state, by) IN
              /\ p \in RowType /\ p.state = state /\ p.busy = r.busy
              /\ p.by \in {by, None}
<1>1. /\ Retried(r) \in RowType /\ Retried(r).by = r.by
      /\ Retried(r).state = r.state /\ Retried(r).busy = r.busy
  BY DEF Retried, RowType
<1>2. /\ Completed(r) \in RowType /\ Completed(r).state = "destroyed"
      /\ Completed(r).busy = r.busy
  BY DEF Completed, RowType
<1>3. ASSUME NEW state \in RowStates, NEW by \in Requesters \cup {None}
      PROVE  LET p == Postponed(r, state, by) IN
             /\ p \in RowType /\ p.state = state /\ p.busy = r.busy
             /\ p.by \in {by, None}
  <2> DEFINE asker == IF state = "destroying" THEN by ELSE None
  <2>1. /\ 0 \in 0 .. MaxCleanupAttempts /\ asker \in {by, None}
        /\ asker \in Requesters \cup {None}
    BY Constants
  <2>2. Postponed(r, state, by) =
          [r EXCEPT !.state = state, !.token = None, !.due = "later",
                    !.by = asker, !.attempts = 0]
    BY DEF Postponed
  <2> HIDE DEF asker
  <2> QED
    BY <2>1, <2>2 DEF RowType, RowStates
<1> QED
  BY <1>1, <1>2, <1>3

LEMMA SeenBusy ==
  ASSUME NEW r \in RowType
  PROVE  /\ [r EXCEPT !.busy = "seen"] \in RowType
         /\ [r EXCEPT !.busy = "seen"].state = r.state
         /\ [r EXCEPT !.busy = "seen"].by = r.by
BY DEF RowType

\* A row of a start that is not recorded yet is not there.
LEMMA UnbornRows ==
  ASSUME CleanupInv, NEW s \in Sandboxes, Unborn(s)
  PROVE  row[s].state = "none" /\ row[s].due = "never" /\ ~Long(s)
         /\ row[s].busy = "no"
BY DEF CleanupInv, RowInv, Unborn, NoRow, Long

\* A row is written, the cleanups stay as they are.
LEMMA RowWritten ==
  ASSUME CleanupInv, NEW s \in Sandboxes, NEW r \in RowType, SetRow(s, r),
         Settled(r) => Settled(row[s]),
         Long(s) => r.busy = "long",
         Unborn(s)' => r = row[s],
         \A x \in Sandboxes : Unborn(x)' => Unborn(x),
         UNCHANGED <<cleanup, world, concealed>>, WorldTypes'
  PROVE  CleanupInv'
<1>1. /\ row' = [x \in Sandboxes |-> row'[x]]
      /\ \A x \in Sandboxes : RowGoes(x)
  BY OneRow
<1>2. UNCHANGED <<registration, container, killing>>
  BY DEF world
<1>3. Calm /\ \A x \in Sandboxes : Done(x) => Done(x)'
  BY <1>2, CalmWorld, SameWorld
<1>4. /\ cleanup' = [t \in Tokens |-> cleanup'[t]]
      /\ \A t \in Tokens : CleanupGoes(t)
  BY <1>3, SameCleanups
<1> QED
  BY <1>1, <1>2, <1>3, <1>4, WorldMoves, GoesOn DEF Frames

LEMMA StartsWrite ==
  ASSUME CleanupInv, NEW s \in Sandboxes,
         RecordStarting(s) \/ MarkOnline(s) \/ ScheduleCleanup(s)
  PROVE  CleanupInv'
<1>1. WorldTypes /\ row[s] \in RowType /\ RowInv(s)
  BY TypedWorld, Types DEF CleanupInv
<1>2. UNCHANGED <<lease, world, cleanup, tallies>>
  BY DEF RecordStarting, MarkOnline, ScheduleCleanup
<1>3. \E stage \in {"recorded", "over", "unwind"} : StartGoes(s, stage)
  BY DEF RecordStarting, MarkOnline, ScheduleCleanup
<1>4. /\ ~Unborn(s)' /\ \A x \in Sandboxes : Unborn(x)' => Unborn(x)
      /\ WorldTypes'
  BY <1>1, <1>2, <1>3 DEF StartGoes, Unborn, WorldTypes, world, tallies
<1>5. CASE UNCHANGED row
  <2>1. UNCHANGED <<registration, container, killing, concealed>>
    BY <1>2 DEF world, tallies
  <2> QED
    BY <1>2, <1>4, <1>5, <2>1, CalmWorld, SameWorld, Surroundings
<1>6. ASSUME NEW r \in RowType, SetRow(s, r), ~Settled(r),
             r.busy = row[s].busy
      PROVE  CleanupInv'
  BY <1>2, <1>4, <1>6, RowWritten DEF Long, tallies
<1>7. CASE RecordStarting(s)
  <2>1. Started \in RowType /\ ~Settled(Started) /\ Started.busy = "no"
    <3>1. None # "orphan" /\ 0 \in 0 .. MaxCleanupAttempts
      BY Constants DEF Requesters
    <3>2. NoRow \in RowType /\ NoRow.by = None /\ NoRow.busy = "no"
      BY <3>1 DEF NoRow, RowType
    <3>3. ASSUME NEW r \in RowType
          PROVE  LET q == [r EXCEPT !.state = "starting", !.due = "later"] IN
                 /\ q \in RowType /\ q.state = "starting" /\ q.by = r.by
                 /\ q.busy = r.busy
      BY <3>3 DEF RowType
    <3> QED
      BY <3>1, <3>2, <3>3 DEF Started, Settled
  <2>2. row[s].busy = "no"
    BY <1>7, UnbornRows DEF RecordStarting, Unborn
  <2> QED
    BY <1>5, <1>6, <1>7, <2>1, <2>2 DEF RecordStarting
<1>8. CASE MarkOnline(s)
  <2>1. CASE row[s].state = "starting" /\ row[s].token = None
    <3>1. /\ [row[s] EXCEPT !.state = "online"] \in RowType
          /\ [row[s] EXCEPT !.state = "online"].state = "online"
          /\ [row[s] EXCEPT !.state = "online"].by = row[s].by
          /\ [row[s] EXCEPT !.state = "online"].busy = row[s].busy
      BY <1>1 DEF RowType
    <3>2. SetRow(s, [row[s] EXCEPT !.state = "online"])
      BY <1>8, <2>1 DEF MarkOnline
    <3> HIDE DEF Settled
    <3>3. CASE row[s].by # "orphan"
      BY <1>6, <3>1, <3>2, <3>3 DEF Settled
    <3>4. CASE row[s].by = "orphan"
      <4>1. Settled(row[s]) /\ Long(s)
              => [row[s] EXCEPT !.state = "online"].busy = "long"
        BY <3>1 DEF Long
      <4> QED
        BY <1>2, <1>4, <3>1, <3>2, <3>4, RowWritten DEF Long, Settled, tallies
    <3> QED
      BY <3>3, <3>4
  <2>2. CASE ~(row[s].state = "starting" /\ row[s].token = None)
    BY <1>1, <1>5, <1>8, <2>2, Types DEF MarkOnline, SetRow
  <2> QED
    BY <2>1, <2>2
<1>9. CASE ScheduleCleanup(s)
  <2>1. SetRow(s, Queued(row[s], "startup-failure")) \/ SetRow(s, row[s])
    BY <1>9 DEF ScheduleCleanup
  <2>2. "startup-failure" \in Requesters
        /\ ~Settled(Queued(row[s], "startup-failure"))
    BY <1>1, RowWrites DEF Requesters, Settled
  <2> QED
    BY <1>1, <1>5, <1>6, <2>1, <2>2, RowWrites, Types DEF SetRow
<1> QED
  BY <1>7, <1>8, <1>9

LEMMA EnvironmentWrites ==
  ASSUME CleanupInv, NEW s \in Sandboxes,
         Callback(s) \/ BusyTooLong(s) \/ OrphanClaimUnheard(s)
  PROVE  CleanupInv'
<1>1. WorldTypes /\ row[s] \in RowType /\ RowInv(s)
  BY TypedWorld, Types DEF CleanupInv
<1>2. /\ UNCHANGED <<lease, start, world, cleanup, concealed>>
      /\ WorldTypes'
  BY <1>1, FaultTypes
     DEF Callback, BusyTooLong, OrphanClaimUnheard, WorldTypes, world, tallies
<1>3. /\ ~Unborn(s) /\ \A x \in Sandboxes : Unborn(x)' <=> Unborn(x)
  <2>1. row[s].state \notin {"none"} \/ row[s].busy = "seen"
    BY <1>1, Types DEF Callback, BusyTooLong, OrphanClaimUnheard, Free, Parked,
                       Abandons, SetRow
  <2> QED
    BY <1>2, <2>1, UnbornRows DEF Unborn
<1>4. ASSUME NEW r \in RowType, SetRow(s, r), Settled(r) => Settled(row[s]),
             Long(s) => r.busy = "long"
      PROVE  CleanupInv'
  BY <1>2, <1>3, <1>4, RowWritten
<1>5. CASE Callback(s)
  <2>1. CASE SetRow(s, Queued(row[s], "callback"))
    BY <1>1, <1>4, <2>1, RowWrites DEF Requesters, Settled, Long
  <2>2. CASE SetRow(s, [row[s] EXCEPT !.due = "now"])
    <3>1. LET r == [row[s] EXCEPT !.due = "now"] IN
          /\ r \in RowType /\ r.state = row[s].state /\ r.by = row[s].by
          /\ r.busy = row[s].busy
      BY <1>1 DEF RowType
    <3> QED
      BY <1>4, <2>2, <3>1 DEF Settled, Long
  <2> QED
    BY <1>5, <2>1, <2>2 DEF Callback
<1>6. CASE BusyTooLong(s)
  <2>1. LET r == [row[s] EXCEPT !.busy = "long"] IN
        /\ r \in RowType /\ r.state = row[s].state /\ r.by = row[s].by
        /\ r.busy = "long"
    BY <1>1 DEF RowType
  <2> QED
    BY <1>4, <1>6, <2>1 DEF BusyTooLong, Settled
<1>7. CASE OrphanClaimUnheard(s)
  <2>1. row[s].by = "orphan" /\ SetRow(s, Completed(row[s]))
    BY <1>7, Types DEF OrphanClaimUnheard, Abandons, SetRow
  <2> QED
    BY <1>1, <1>4, <2>1, RowReturns DEF Settled, Long
<1> QED
  BY <1>5, <1>6, <1>7

LEMMA DeadlinesPass ==
  ASSUME CleanupInv, NEW s \in Sandboxes, DeadlinePasses(s)
  PROVE  CleanupInv'
<1> DEFINE r == [row[s] EXCEPT !.due = "now"]
<1>1. WorldTypes /\ row[s] \in RowType
  BY TypedWorld, Types
<1>2. /\ r \in RowType /\ r.state = row[s].state /\ r.by = row[s].by
      /\ r.busy = row[s].busy
  BY <1>1 DEF RowType
<1>3. SetRow(s, r) /\ UNCHANGED <<lease, start, world>>
  BY DEF DeadlinePasses
<1> HIDE DEF r
<1>4. /\ UNCHANGED <<container, killing, registration, concealed>>
      /\ WorldTypes'
  <2>1. UNCHANGED tallies \/ Fault
    BY DEF DeadlinePasses
  <2> QED
    BY <1>1, <1>3, <2>1, FaultTypes DEF WorldTypes, world, tallies
<1>5. ~Unborn(s) /\ \A x \in Sandboxes : Unborn(x)' <=> Unborn(x)
  BY <1>3, UnbornRows DEF Unborn, DeadlinePasses
<1>6. Calm /\ \A x \in Sandboxes : Done(x) => Done(x)'
  BY <1>4, CalmWorld, SameWorld
<1>7. /\ row' = [x \in Sandboxes |-> row'[x]]
      /\ \A x \in Sandboxes : RowGoes(x)
  BY <1>2, <1>3, <1>5, OneRow DEF Settled, Long
<1>8. cleanup' = [t \in Tokens |-> cleanup'[t]]
  BY DEF DeadlinePasses
<1>9. ASSUME NEW t \in Tokens
      PROVE  CleanupGoes(t)
  <2>1. \A x \in Known : Began(x)' /\ Past(cleanup[t], x) => cleanup[t].forced
    BY <1>6, PastIsPast DEF CleanupInv, JobInv, Calm
  <2>2. CASE cleanup'[t] = cleanup[t]
    BY <2>1, <2>2, Types DEF CleanupGoes, Target
  <2>3. CASE Target(t) = s /\ cleanup'[t] = [cleanup[t] EXCEPT !.late = TRUE]
    <3>1. cleanup[t] \in CleanupType
      BY <2>3, UnderWay
    <3>2. LET c == [cleanup[t] EXCEPT !.late = TRUE] IN
          /\ c \in CleanupType /\ c.pc = cleanup[t].pc
          /\ c.sandbox = cleanup[t].sandbox /\ c.by = cleanup[t].by
          /\ c.from = cleanup[t].from /\ c.state = cleanup[t].state
          /\ c.gated = cleanup[t].gated /\ c.forced = cleanup[t].forced
      BY <3>1 DEF CleanupType
    <3> QED
      BY <2>1, <2>3, <3>2 DEF CleanupGoes, Confirmed, Past, Target
  <2> QED
    BY <2>2, <2>3 DEF DeadlinePasses
<1> QED
  BY <1>4, <1>6, <1>7, <1>8, <1>9, WorldMoves, GoesOn DEF Frames

-----------------------------------------------------------------------------
(***************************************************************************)
(* Claims.                                                                 *)
(***************************************************************************)
Routes == {"alarm", "reconcile", "reclaim", "orphan"}

Beginning(q, s, route, by) ==
  [NoCleanup EXCEPT !.pc = "look", !.sandbox = s, !.route = route, !.by = by,
                    !.state = q.state, !.from = q.by]

LEMMA Beginnings ==
  ASSUME NEW s \in Sandboxes, NEW route \in Routes, NEW by \in Requesters,
         NEW q \in RowType
  PROVE  LET c == Beginning(q, s, route, by) IN
         /\ c \in CleanupType /\ c.pc = "look" /\ c.sandbox = s /\ c.by = by
         /\ c.state = q.state /\ c.from = q.by
         /\ c.gated = None /\ ~c.forced
<1> DEFINE Fresh == [pc : {"none"}, sandbox : {None}, route : {"none"},
                     by : {None}, state : {"none"}, from : {None},
                     gated : {None}, forced : {FALSE}, late : {FALSE}]
<1>1. NoCleanup \in Fresh
  BY DEF NoCleanup
<1>2. q.state \in RowStates /\ q.by \in Requesters \cup {None}
  BY DEF RowType, RowStates
<1>3. ASSUME NEW c0 \in Fresh
      PROVE  LET c == [c0 EXCEPT !.pc = "look", !.sandbox = s,
                                 !.route = route, !.by = by,
                                 !.state = q.state,
                                 !.from = q.by] IN
             /\ c \in CleanupType /\ c.pc = "look" /\ c.sandbox = s
             /\ c.by = by /\ c.state = q.state /\ c.from = q.by
             /\ c.gated = None /\ ~c.forced
  BY <1>2, <1>3 DEF CleanupType, Routes, RowStates
<1> QED
  BY <1>1, <1>3 DEF Beginning

\* An orphan's cleanup claims a row that is settled.
Licensed(s, by) == by = "orphan" => Settled(row[s])

\* A claim of a row that is there.
LEMMA ClaimBegins ==
  ASSUME CleanupInv, NEW s \in Sandboxes, NEW t \in Tokens,
         NEW r \in RowType, NEW route \in Routes, NEW by, by \in Requesters,
         SetRow(s, r), r.by = by, r.state = "destroying",
         r.busy = row[s].busy, row[s].state # "none",
         Licensed(s, by),
         Begin(t, s, route, by), UNCHANGED <<lease, start, world, concealed>>,
         WorldTypes'
  PROVE  CleanupInv'
<1> DEFINE c == Beginning(row[s], s, route, by)
<1>1. /\ UNCHANGED <<container, killing, registration, concealed>>
      /\ row[s] \in RowType /\ RowInv(s)
  BY Types DEF world, CleanupInv
<1>2. Calm /\ \A x \in Sandboxes : Done(x) => Done(x)'
  BY <1>1, CalmWorld, SameWorld
<1>3. ~Unborn(s) /\ \A x \in Sandboxes : Unborn(x)' <=> Unborn(x)
  BY UnbornRows DEF Unborn
<1>4. /\ row' = [x \in Sandboxes |-> row'[x]]
      /\ \A x \in Sandboxes : RowGoes(x)
  <2>1. Settled(r) => Settled(row[s])
    BY DEF Settled, Licensed
  <2>2. Long(s) => r.busy = "long"
    BY DEF Long
  <2> QED
    BY <1>3, <2>1, <2>2, OneRow
<1>5. /\ c \in CleanupType /\ c.pc = "look" /\ c.sandbox = s /\ c.by = by
      /\ c.state = row[s].state /\ c.from = row[s].by
      /\ c.gated = None /\ ~c.forced
  <2>1. PICK q \in RowType : q = row[s]
    BY <1>1
  <2>2. LET b == Beginning(q, s, route, by) IN
        /\ b \in CleanupType /\ b.pc = "look" /\ b.sandbox = s /\ b.by = by
        /\ b.state = q.state /\ b.from = q.by
        /\ b.gated = None /\ ~b.forced
    BY Beginnings
  <2> QED
    BY <2>1, <2>2
<1>6. cleanup' = [cleanup EXCEPT ![t] = c]
  BY DEF Begin, Beginning
<1> HIDE DEF c
<1>7. Confirmed(c) => DoneThen(c.sandbox)
  <2>1. Confirmed(c) => Settled(row[s])
    BY <1>5 DEF Confirmed, Settled, Licensed
  <2> QED
    BY <1>1, <1>5, <2>1 DEF RowInv, Done, DoneThen
<1>8. \A x \in Known : ~Past(c, x)
  BY <1>5, Constants DEF Past
<1>9. /\ cleanup' = [u \in Tokens |-> cleanup'[u]]
      /\ \A u \in Tokens : CleanupGoes(u)
  BY <1>2, <1>5, <1>6, <1>7, <1>8, OneCleanup
<1> QED
  BY <1>1, <1>2, <1>4, <1>9, WorldMoves, GoesOn DEF Frames

LEMMA Claims ==
  ASSUME CleanupInv, NEW s \in Sandboxes, NEW t \in Tokens, Claiming(s, t)
  PROVE  CleanupInv'
<1>1. WorldTypes /\ row[s] \in RowType
  BY TypedWorld, Types
<1>2. CASE AlarmClaim(s, t)
  <2> DEFINE by == IF row[s].by = None THEN "alarm" ELSE row[s].by
             r == [Claimed(row[s], t, by) EXCEPT !.attempts = Attempts(@)]
  <2>1. by \in Requesters /\ Licensed(s, by)
    BY <1>1, Constants DEF RowType, Requesters, Settled, Licensed
  <2>2. /\ SetRow(s, r) /\ Begin(t, s, "alarm", by)
        /\ UNCHANGED <<lease, start, world, tallies>>
        /\ row[s].state # "none"
    BY <1>2 DEF AlarmClaim, Live
  <2> HIDE DEF by
  <2>3. /\ r \in RowType /\ r.by = by /\ r.state = "destroying"
        /\ r.busy = row[s].busy
    <3> DEFINE claimed == Claimed(row[s], t, by)
    <3>1. /\ claimed \in RowType /\ claimed.by = by
          /\ claimed.state = "destroying" /\ claimed.busy = row[s].busy
      BY <1>1, <2>1, RowWrites
    <3>2. r = [claimed EXCEPT !.attempts = Attempts(@)]
      OBVIOUS
    <3> HIDE DEF claimed
    <3> QED
      BY <3>1, <3>2, AttemptCounted
  <2> HIDE DEF r
  <2>4. WorldTypes' /\ UNCHANGED concealed
    BY <1>1, <2>2 DEF WorldTypes, world, tallies
  <2> QED
    BY <2>1, <2>2, <2>3, <2>4, ClaimBegins DEF Routes
<1>3. ASSUME NEW route \in Routes, NEW by, by \in Requesters,
             SetRow(s, Claimed(row[s], t, by)), Begin(t, s, route, by),
             Request(s, t), row[s].state # "none",
             Licensed(s, by)
      PROVE  CleanupInv'
  <2>1. WorldTypes' /\ UNCHANGED <<lease, start, world, concealed>>
    BY <1>1, <1>3, Constants DEF WorldTypes, Request, world
  <2>4. PICK q \in RowType : q = row[s]
    BY <1>1
  <2> DEFINE r == Claimed(q, t, by)
  <2>2. /\ r \in RowType /\ r.by = by /\ r.state = "destroying"
        /\ r.busy = row[s].busy
    <3>1. /\ r \in RowType /\ r.by = by /\ r.state = "destroying"
          /\ r.busy = q.busy
      BY <1>3, RowWrites
    <3> QED
      BY <2>4, <3>1
  <2>3. SetRow(s, r)
    BY <1>3, <2>4
  <2> HIDE DEF r
  <2> QED
    BY <1>3, <2>1, <2>2, <2>3, ClaimBegins
<1>4. CASE ReconcileClaim(s, t) \/ ReclaimClaim(s, t)
  <2>1. PICK route \in {"reconcile", "reclaim"} :
          ClaimForReconcile(s, t, route)
    BY <1>4 DEF ReconcileClaim, ReclaimClaim
  <2> QED
    BY <1>3, <2>1
       DEF ClaimForReconcile, Live, Routes, Requesters, Licensed
<1>5. CASE OrphanClaim(s, t)
  BY <1>3, <1>5 DEF OrphanClaim, Routes, Requesters, Settled, Licensed
<1> QED
  BY <1>2, <1>4, <1>5 DEF Claiming

-----------------------------------------------------------------------------
(***************************************************************************)
(* The steps of a cleanup.                                                 *)
(***************************************************************************)

\* Whoever is past its last look at a job that began before overrides it.
LEMMA OverridesJob ==
  ASSUME CleanupInv, NEW t \in Tokens, NEW s \in Known, Began(s),
         PastLook(t, s)
  PROVE  cleanup[t].forced /\ Long(Target(t))
BY DEF CleanupInv, JobInv, HolderInv, Long

\* A cleanup that leaves the rows as they are, while GitHub, the sandboxes and
\* the ledger go on.
LEMMA CleanupMoved ==
  ASSUME CleanupInv, UNCHANGED <<row, start>>, WorldTypes', Calm,
         killing' \subseteq killing,
         \A s \in Sandboxes : Done(s) => Done(s)',
         cleanup' = [u \in Tokens |-> cleanup'[u]],
         \A u \in Tokens : CleanupGoes(u)
  PROVE  CleanupInv'
<1>1. /\ row' = [x \in Sandboxes |-> row'[x]]
      /\ \A x \in Sandboxes : RowGoes(x)
  BY SameRows DEF Unborn
<1> QED
  BY <1>1, WorldMoves, GoesOn DEF Frames

\* The calls that cleanups make when they do not go ahead
Retreats == {"look", "postpone-busy", "postpone-online", "retry", "relook",
             "abandon"}

LEMMA Retreat ==
  ASSUME CleanupInv, NEW t \in Tokens, NEW pc \in Retreats,
         cleanup[t] \in CleanupType, Goes(t, pc), Calm
  PROVE  /\ cleanup' = [u \in Tokens |-> cleanup'[u]]
         /\ \A u \in Tokens : CleanupGoes(u)
<1>1. /\ pc \in Stages /\ cleanup[t].gated \in Known \cup {None}
      /\ pc \notin {"own-delete", "delete", "own-destroy", "destroy",
                    "recheck", "settle", "release"}
  BY DEF Retreats, Stages, CleanupType
<1> QED
  BY <1>1, Gone, GoingOn

LEMMA RetreatGated ==
  ASSUME CleanupInv, NEW t \in Tokens, NEW pc \in Retreats,
         cleanup[t] \in CleanupType, GoesGated(t, pc), Calm
  PROVE  /\ cleanup' = [u \in Tokens |-> cleanup'[u]]
         /\ \A u \in Tokens : CleanupGoes(u)
<1>1. /\ pc \in Stages /\ registration.of \in Known \cup {None}
      /\ pc \notin {"own-delete", "delete", "own-destroy", "destroy",
                    "recheck", "settle", "release"}
  BY Types DEF Retreats, Stages
<1> QED
  BY <1>1, GoneGated, GoingOn

\* Going ahead to a call that only asks that jobs are overridden
LEMMA GoesAhead ==
  ASSUME CleanupInv, NEW t \in Tokens, NEW pc \in Stages,
         cleanup[t] \in CleanupType, Goes(t, pc), Calm,
         pc \in {"recheck", "delete", "settle", "release"}
           => Confirmed(cleanup[t]) \/ DoneThen(Target(t)),
         \A s \in Known :
           /\ Began(s)
           /\ \/ Target(t) = s /\ pc \in {"own-delete", "delete",
                                          "own-destroy", "destroy"}
              \/ cleanup[t].gated = s /\ pc \in {"own-delete", "delete"}
           => cleanup[t].forced
  PROVE  /\ cleanup' = [u \in Tokens |-> cleanup'[u]]
         /\ \A u \in Tokens : CleanupGoes(u)
<1>1. cleanup[t].gated \in Known \cup {None}
  BY DEF CleanupType
<1>2. \A s \in Known : Began(s)' => Began(s)
  BY DEF Calm
<1> QED
  BY <1>1, <1>2, Gone, GoingOn

LEMMA GoesAheadGated ==
  ASSUME CleanupInv, NEW t \in Tokens, NEW pc \in {"destroy", "own-delete"},
         cleanup[t] \in CleanupType, GoesGated(t, pc), Calm,
         registration.status = "busy" => cleanup[t].forced
  PROVE  /\ cleanup' = [u \in Tokens |-> cleanup'[u]]
         /\ \A u \in Tokens : CleanupGoes(u)
<1>1. registration.of \in Known \cup {None} /\ pc \in Stages
  BY Types DEF Stages
<1>2. \A s \in Known : Began(s)' => cleanup[t].forced
  BY DEF Calm, Began
<1> QED
  BY <1>1, <1>2, GoneGated, GoingOn

LEMMA UnderWayAt ==
  ASSUME CleanupInv, NEW t \in Tokens, cleanup[t].pc # "none"
  PROVE  cleanup[t] \in CleanupType /\ Target(t) \in Sandboxes
BY UnderWay

\* The calls that look and change nothing else
LEMMA Looks ==
  ASSUME CleanupInv, NEW t \in Tokens,
         LookUp(t) \/ Recheck(t) \/ OrphanLook(t)
  PROVE  CleanupInv'
<1>1. /\ UNCHANGED <<row, lease, start, world, tallies>>
      /\ cleanup[t] \in CleanupType
  BY UnderWayAt DEF LookUp, Recheck, OrphanLook, Runs, rows
<1>2. /\ Calm /\ killing' \subseteq killing /\ WorldTypes'
      /\ \A s \in Sandboxes : Done(s) => Done(s)'
  BY <1>1, TypedWorld, CalmWorld, SameWorld DEF WorldTypes, world, tallies
<1>3. SUFFICES /\ cleanup' = [u \in Tokens |-> cleanup'[u]]
               /\ \A u \in Tokens : CleanupGoes(u)
  BY <1>1, <1>2, CleanupMoved
<1>4. ASSUME registration.of = None
      PROVE  \A s \in Known : ~Began(s)
  BY <1>4, Constants DEF Began, Registered
<1>5. CASE LookUp(t)
  <2>1. CASE registration.of = None
    <3>1. Goes(t, "destroy")
      BY <1>5, <2>1 DEF LookUp
    <3> QED
      BY <1>1, <1>2, <1>4, <2>1, <3>1, GoesAhead DEF Stages
  <2>2. CASE registration.of # None
    <3>1. \/ \E pc \in Retreats : GoesGated(t, pc)
          \/ registration.status # "busy" /\ GoesGated(t, "destroy")
      BY <1>5, <2>2 DEF LookUp, Retreats
    <3> QED
      BY <1>1, <1>2, <3>1, RetreatGated, GoesAheadGated
  <2> QED
    BY <2>1, <2>2
<1>6. CASE Recheck(t)
  <2>1. Confirmed(cleanup[t])
    BY <1>6 DEF Recheck, Runs, Confirmed
  <2>2. CASE RecheckDeletes(t)
    <3>1. Goes(t, "delete")
      BY <1>6, <2>2 DEF Recheck
    <3>2. \A s \in Known : Began(s) => cleanup[t].forced
      BY <2>2 DEF RecheckDeletes, Began
    <3> QED
      BY <1>1, <1>2, <2>1, <3>1, <3>2, GoesAhead DEF Stages
  <2>3. CASE ~RecheckDeletes(t)
    <3>1. Goes(t, "settle")
      BY <1>6, <2>3 DEF Recheck
    <3> QED
      BY <1>1, <1>2, <2>1, <3>1, GoesAhead DEF Stages
  <2> QED
    BY <2>2, <2>3
<1>7. CASE OrphanLook(t)
  <2>1. \/ \E pc \in Retreats : Goes(t, pc)
        \/ registration.of = None /\ Goes(t, "own-destroy")
        \/ /\ registration.status = "busy" => cleanup[t].forced
           /\ GoesGated(t, "own-delete")
    BY <1>7 DEF OrphanLook, GivesUp, Retreats
  <2>2. CASE \E pc \in Retreats : Goes(t, pc)
    BY <1>1, <1>2, <2>2, Retreat
  <2>3. CASE registration.of = None /\ Goes(t, "own-destroy")
    BY <1>1, <1>2, <1>4, <2>3, GoesAhead DEF Stages
  <2>4. CASE /\ registration.status = "busy" => cleanup[t].forced
             /\ GoesGated(t, "own-delete")
    BY <1>1, <1>2, <2>4, GoesAheadGated
  <2> QED
    BY <2>1, <2>2, <2>3, <2>4
<1> QED
  BY <1>5, <1>6, <1>7

\* Giving up, and asking whether the claim is still held
LEMMA Revalidations ==
  ASSUME CleanupInv, NEW t \in Tokens,
         OrphanMismatch(t) \/ Revalidate(t) \/ LeaseOver(t)
  PROVE  CleanupInv'
<1>1. /\ UNCHANGED <<row, lease, start, world, tallies>>
      /\ cleanup[t] \in CleanupType /\ Target(t) \in Sandboxes
  BY UnderWayAt DEF OrphanMismatch, Revalidate, LeaseOver, rows
<1>2. /\ Calm /\ killing' \subseteq killing /\ WorldTypes'
      /\ UNCHANGED <<container, concealed>>
      /\ \A s \in Sandboxes : Done(s) => Done(s)'
  BY <1>1, TypedWorld, CalmWorld, SameWorld DEF WorldTypes, world, tallies
<1>3. SUFFICES /\ cleanup' = [u \in Tokens |-> cleanup'[u]]
               /\ \A u \in Tokens : CleanupGoes(u)
  BY <1>1, <1>2, CleanupMoved
<1>4. CASE \E pc \in Retreats : Goes(t, pc)
  BY <1>1, <1>2, <1>4, Retreat
<1>5. CASE Revalidate(t)
  <2>1. CASE Ends(t)
    BY <1>2, <2>1, Ending
  <2>2. CASE Goes(t, "destroy") /\ Runs(t, "own-destroy")
    <3>1. \A s \in Known : Began(s) /\ Target(t) = s => cleanup[t].forced
      BY <2>2, OverridesJob DEF Runs, PastLook, Target
    <3> QED
      BY <1>1, <1>2, <2>2, <3>1, GoesAhead DEF Stages
  <2>3. CASE Goes(t, "own-destroy") /\ Runs(t, "own-delete")
    <3>1. \A s \in Known : Began(s) /\ Target(t) = s => cleanup[t].forced
      BY <2>3, OverridesJob DEF Runs, PastLook, Target
    <3> QED
      BY <1>1, <1>2, <2>3, <3>1, GoesAhead DEF Stages
  <2>4. CASE /\ Goes(t, "delete") /\ Runs(t, "own-delete")
             /\ row[Target(t)].by = "orphan"
    <3>1. \A s \in Known : /\ Began(s)
                           /\ Target(t) = s \/ cleanup[t].gated = s
                           => cleanup[t].forced
      BY <2>4, OverridesJob DEF Runs, PastLook, Target
    <3>2. DoneThen(Target(t))
      BY <1>1, <1>2, <2>4 DEF CleanupInv, RowInv, Settled, Done, DoneThen
    <3> QED
      BY <1>1, <1>2, <2>4, <3>1, <3>2, GoesAhead DEF Stages
  <2> QED
    BY <1>4, <1>5, <2>1, <2>2, <2>3, <2>4 DEF Revalidate, Runs, Retreats
<1> QED
  BY <1>4, <1>5 DEF OrphanMismatch, LeaseOver, GivesUp, Retreats

\* A destroy that is reported as done
LEMMA Destroys ==
  ASSUME CleanupInv, NEW t \in Tokens,
         Destroy(t) \/ DestroyRefusalConcealed(t)
  PROVE  CleanupInv'
<1>1. /\ UNCHANGED <<row, lease, start, booting, killing, registration,
                     faults, requests>>
      /\ Goes(t, AfterDestroy(t)) /\ cleanup[t] \in CleanupType
      /\ Target(t) \in Sandboxes /\ WorldTypes /\ WorldTypes'
      /\ DoneThen(Target(t))
      /\ \A s \in Sandboxes : Done(s) => Done(s)'
  <2>1. /\ UNCHANGED <<row, lease, start, booting, killing, registration,
                       faults, requests>>
        /\ Goes(t, AfterDestroy(t)) /\ cleanup[t] \in CleanupType
        /\ Target(t) \in Sandboxes /\ Target(t) \in Known /\ WorldTypes
    BY TypedWorld, UnderWayAt, Constants
       DEF Destroy, DestroyRefusalConcealed, Runs, rows, tallies, world
  <2>2. CASE Destroy(t)
    <3>1. container' = [container EXCEPT ![Target(t)] = "gone"]
          /\ UNCHANGED concealed
      BY <2>2 DEF Destroy, tallies
    <3>2. DoneThen(Target(t)) /\ \A s \in Sandboxes : Done(s) => Done(s)'
      BY <2>1, <3>1 DEF WorldTypes, DoneThen, Done, Known
    <3> QED
      BY <2>1, <3>1, <3>2 DEF WorldTypes
  <2>3. CASE DestroyRefusalConcealed(t)
    BY <2>1, <2>3
       DEF DestroyRefusalConcealed, WorldTypes, DoneThen, Done, world
  <2> QED
    BY <2>1, <2>2, <2>3
<1>2. Calm /\ AfterDestroy(t) \in {"settle", "recheck"}
  BY <1>1, CalmWorld DEF AfterDestroy
<1>3. /\ cleanup' = [u \in Tokens |-> cleanup'[u]]
      /\ \A u \in Tokens : CleanupGoes(u)
  <2> DEFINE pc == AfterDestroy(t)
  <2>1. pc \in Stages /\ pc \notin {"own-delete", "delete", "own-destroy",
                                    "destroy"}
    BY <1>2 DEF Stages
  <2>2. Goes(t, pc)
    BY <1>1
  <2> HIDE DEF pc
  <2> QED
    BY <1>1, <1>2, <2>1, <2>2, GoesAhead
<1> QED
  BY <1>1, <1>2, <1>3, CleanupMoved

\* A destroy that is not
LEMMA DestroysFail ==
  ASSUME CleanupInv, NEW t \in Tokens, DestroyTimesOut(t) \/ DestroyRefused(t)
  PROVE  CleanupInv'
<1>1. /\ UNCHANGED <<row, lease, start, container, booting, registration,
                     concealed>>
      /\ Goes(t, "retry") /\ cleanup[t] \in CleanupType
      /\ Target(t) \in Sandboxes /\ Target(t) \in Known /\ WorldTypes
      /\ Runs(t, "destroy") /\ killing' \subseteq killing \cup {Target(t)}
      /\ faults' \in 0 .. MaxFaults /\ requests' \in 0 .. MaxRequests
  BY TypedWorld, FaultTypes, UnderWayAt, Constants
     DEF DestroyTimesOut, DestroyRefused, Runs, rows, AfterFailedDestroy, Fault,
         world
<1>2. Calm /\ WorldTypes' /\ \A s \in Sandboxes : Done(s) => Done(s)'
  BY <1>1, CalmWorld, SameWorld DEF WorldTypes
<1>3. /\ cleanup' = [u \in Tokens |-> cleanup'[u]]
      /\ \A u \in Tokens : CleanupGoes(u)
  BY <1>1, <1>2, Retreat DEF Retreats
<1>4. /\ row' = [x \in Sandboxes |-> row'[x]]
      /\ \A x \in Sandboxes : RowGoes(x)
  BY <1>1, SameRows DEF Unborn
<1>5. ASSUME NEW s \in killing', Began(s)'
      PROVE  Long(s)'
  <2>1. s \in Sandboxes /\ s \in Known /\ Began(s)
    BY <1>1, <1>2, <1>5, Constants DEF WorldTypes, Calm
  <2>2. CASE s \in killing
    BY <1>1, <2>1, <2>2 DEF CleanupInv, JobInv, Long
  <2>3. CASE s = Target(t)
    <3>1. PastLook(t, s)
      BY <1>1, <2>3 DEF PastLook, Runs, Target
    <3> QED
      BY <1>1, <2>1, <2>3, <3>1, OverridesJob DEF Long
  <2> QED
    BY <1>1, <1>5, <2>2, <2>3
<1>6. WorldGoes
  BY <1>2, <1>5 DEF WorldGoes, WorldTypes
<1> QED
  BY <1>3, <1>4, <1>6, GoesOn DEF Frames

LEMMA Deletes ==
  ASSUME CleanupInv, NEW t \in Tokens, Delete(t)
  PROVE  CleanupInv'
<1>1. /\ UNCHANGED <<row, lease, start, container, booting, killing, tallies>>
      /\ cleanup[t] \in CleanupType /\ Runs(t, "delete") /\ WorldTypes
      /\ registration' \in {registration, NoRegistration}
  BY TypedWorld, UnderWayAt DEF Delete, Runs, rows
<1>2. /\ registration' \in RegistrationType
      /\ registration' = registration \/ registration'.status = "offline"
  BY <1>1, Registrations
<1>3. /\ Calm /\ WorldTypes'
      /\ \A s \in Sandboxes : Done(s) => Done(s)'
  BY <1>1, <1>2, SameWorld
     DEF Calm, Began, Registered, WorldTypes, RegistrationType, tallies
<1>4. Confirmed(cleanup[t])
  BY <1>1 DEF Runs, Confirmed
<1>5. CASE Goes(t, "own-destroy")
  <2>1. \A s \in Known : Began(s) /\ Target(t) = s => cleanup[t].forced
    BY <1>1, OverridesJob DEF Runs, PastLook, Target
  <2>2. /\ cleanup' = [u \in Tokens |-> cleanup'[u]]
        /\ \A u \in Tokens : CleanupGoes(u)
    BY <1>1, <1>3, <1>5, <2>1, GoesAhead DEF Stages
  <2> QED
    BY <1>1, <1>3, <2>2, CleanupMoved
<1>6. CASE Goes(t, "settle")
  <2>1. /\ cleanup' = [u \in Tokens |-> cleanup'[u]]
        /\ \A u \in Tokens : CleanupGoes(u)
    BY <1>1, <1>3, <1>4, <1>6, GoesAhead DEF Stages
  <2> QED
    BY <1>1, <1>3, <2>1, CleanupMoved
<1> QED
  BY <1>5, <1>6 DEF Delete

\* A cleanup that ends, or fails before it has settled
LEMMA Departures ==
  ASSUME CleanupInv, NEW t \in Tokens,
         Release(t) \/ CallFails(t) \/ CleanupDies(t)
  PROVE  CleanupInv'
<1>1. /\ UNCHANGED <<row, start, world, concealed>> /\ WorldTypes'
  <2>1. /\ UNCHANGED <<row, start, world>>
        /\ UNCHANGED tallies \/ Fault
        /\ lease' \in [Sandboxes -> {"none", "reserved", "consumed",
                                     "released"}]
    BY TypedWorld DEF Release, CallFails, CleanupDies, WorldTypes, rows
  <2> QED
    BY <2>1, TypedWorld, FaultTypes DEF WorldTypes, world, tallies
<1>2. /\ Calm /\ killing' \subseteq killing
      /\ \A s \in Sandboxes : Done(s) => Done(s)'
  BY <1>1, CalmWorld, SameWorld DEF world
<1>3. CASE Ends(t)
  BY <1>1, <1>2, <1>3, Ending, CleanupMoved
<1>4. CASE cleanup[t].pc # "none" /\ \E pc \in Retreats : Goes(t, pc)
  BY <1>1, <1>2, <1>4, UnderWayAt, Retreat, CleanupMoved
<1> QED
  BY <1>3, <1>4
     DEF Release, CallFails, CleanupDies, GivesUp, Retreats

\* A cleanup writes the row that it holds.
LEMMA HeldRowWritten ==
  ASSUME CleanupInv, NEW s \in Sandboxes, NEW r \in RowType, SetRow(s, r),
         row[s].state = "destroying",
         Settled(r) => Settled(row[s]) \/ Done(s),
         Long(s) => r.busy = "long",
         UNCHANGED <<lease, start, world, concealed>>, WorldTypes',
         cleanup' = [u \in Tokens |-> cleanup'[u]],
         \A u \in Tokens : CleanupGoes(u)
  PROVE  CleanupInv'
<1>1. UNCHANGED <<container, killing, registration>>
  BY DEF world
<1>2. Calm /\ \A x \in Sandboxes : Done(x) => Done(x)'
  BY <1>1, CalmWorld, SameWorld
<1>3. ~Unborn(s) /\ \A x \in Sandboxes : Unborn(x)' <=> Unborn(x)
  BY UnbornRows DEF Unborn
<1>4. /\ row' = [x \in Sandboxes |-> row'[x]]
      /\ \A x \in Sandboxes : RowGoes(x)
  <2>1. Settled(r) => Settled(row[s]) \/ Done(s)'
    BY <1>2
  <2> QED
    BY <1>3, <2>1, OneRow
<1> QED
  BY <1>1, <1>2, <1>4, WorldMoves, GoesOn DEF Frames

LEMMA RowKept ==
  ASSUME CleanupInv, NEW s \in Sandboxes, SetRow(s, row[s])
  PROVE  UNCHANGED row
BY Types DEF SetRow

\* A cleanup that settles its claim, or gives it back
LEMMA Settlements ==
  ASSUME CleanupInv, NEW t \in Tokens,
         Settle(t) \/ Retry(t) \/ Abandon(t) \/ SettledUnheard(t)
  PROVE  CleanupInv'
<1> DEFINE s == Target(t)
<1>1. /\ UNCHANGED <<lease, start, world, concealed>> /\ WorldTypes'
  <2>1. /\ UNCHANGED <<lease, start, world>>
        /\ UNCHANGED tallies \/ Fault
    BY DEF Settle, Retry, Abandon, SettledUnheard
  <2> QED
    BY <2>1, TypedWorld, FaultTypes DEF WorldTypes, world, tallies
<1>2. /\ Calm /\ killing' \subseteq killing
      /\ \A x \in Sandboxes : Done(x) => Done(x)'
  BY <1>1, CalmWorld, SameWorld DEF world
<1>3. /\ cleanup[t] \in CleanupType /\ s \in Sandboxes /\ row[s] \in RowType
      /\ HolderInv(t)
  BY UnderWayAt, Types
     DEF Settle, Retry, Abandon, SettledUnheard, Runs, CleanupInv
<1>4. /\ cleanup' = [u \in Tokens |-> cleanup'[u]]
      /\ \A u \in Tokens : CleanupGoes(u)
  <2>1. CASE Ends(t)
    BY <1>2, <2>1, Ending
  <2>2. CASE Goes(t, "retry")
    BY <1>2, <1>3, <2>2, Retreat DEF Retreats
  <2>3. CASE Runs(t, "settle") /\ Goes(t, "release")
    <3>1. Confirmed(cleanup[t])
      BY <2>3 DEF Runs, Confirmed
    <3> QED
      BY <1>2, <1>3, <2>3, <3>1, GoesAhead DEF Stages
  <2> QED
    BY <2>1, <2>2, <2>3 DEF Settle, Retry, Abandon, SettledUnheard
<1>5. CASE SetRow(s, row[s])
  BY <1>1, <1>2, <1>3, <1>4, <1>5, RowKept, CleanupMoved
<1>6. CASE /\ SetRow(s, Completed(row[s])) /\ row[s].state = "destroying"
           /\ Confirmed(cleanup[t]) \/ row[s].by = "orphan"
  <2>1. Settled(row[s]) \/ Done(s)
    BY <1>3, <1>6 DEF HolderInv, Settled
  <2>2. Completed(row[s]) \in RowType /\ Completed(row[s]).busy = row[s].busy
    BY <1>3, RowReturns
  <2> HIDE DEF s
  <2> QED
    BY <1>1, <1>3, <1>4, <1>6, <2>1, <2>2, HeldRowWritten DEF Long
<1>7. CASE SetRow(s, Retried(row[s])) /\ row[s].state = "destroying"
  <2>1. /\ Retried(row[s]) \in RowType /\ Retried(row[s]).by = row[s].by
        /\ Retried(row[s]).state = row[s].state
        /\ Retried(row[s]).busy = row[s].busy
    BY <1>3, RowReturns
  <2>2. Settled(Retried(row[s])) => Settled(row[s])
    BY <2>1 DEF Settled
  <2> HIDE DEF s
  <2> QED
    BY <1>1, <1>3, <1>4, <1>7, <2>1, <2>2, HeldRowWritten DEF Long
<1> QED
  BY <1>5, <1>6, <1>7
     DEF Settle, Retry, Abandon, SettledUnheard, Abandons, Holds, Runs,
         Confirmed

LEMMA Postponements ==
  ASSUME CleanupInv, NEW t \in Tokens, Postpone(t)
  PROVE  CleanupInv'
<1> DEFINE s == Target(t)
           r == Postponed(row[s], cleanup[t].state, cleanup[t].from)
<1>1. UNCHANGED <<lease, start, world, concealed>> /\ WorldTypes'
  BY TypedWorld DEF Postpone, WorldTypes, world, tallies
<1>2. /\ Calm /\ killing' \subseteq killing
      /\ \A x \in Sandboxes : Done(x) => Done(x)'
  BY <1>1, CalmWorld, SameWorld DEF world
<1>3. /\ cleanup[t] \in CleanupType /\ s \in Sandboxes /\ row[s] \in RowType
      /\ HolderInv(t)
  BY UnderWayAt, Types DEF Postpone, CleanupInv
<1>4. CASE /\ row[s].busy = "long" /\ UNCHANGED row
           /\ \E pc \in {"look", "destroy"} :
                cleanup' = [cleanup EXCEPT ![t].pc = pc, ![t].forced = TRUE]
  <2>1. PICK pc \in {"look", "destroy"} :
          cleanup' = [cleanup EXCEPT ![t].pc = pc, ![t].forced = TRUE]
    BY <1>4
  <2> DEFINE c == [cleanup[t] EXCEPT !.pc = pc, !.forced = TRUE]
  <2>2. cleanup' = [cleanup EXCEPT ![t] = c]
    BY <1>3, <2>1, Types DEF CleanupType
  <2>3. /\ c \in CleanupType /\ c.pc = pc /\ c.forced
        /\ c.sandbox = Target(t) /\ c.by = cleanup[t].by
        /\ c.from = cleanup[t].from /\ c.state = cleanup[t].state
    BY <1>3 DEF CleanupType, Target
  <2> HIDE DEF c
  <2>4. Confirmed(c) => Confirmed(cleanup[t]) /\ c.sandbox = Target(t)
    BY <2>3 DEF Confirmed
  <2>5. LongThen(c.sandbox)
    BY <1>4, <2>3 DEF LongThen
  <2>6. /\ cleanup' = [u \in Tokens |-> cleanup'[u]]
        /\ \A u \in Tokens : CleanupGoes(u)
    BY <1>2, <2>2, <2>3, <2>4, <2>5, OneCleanup
  <2> QED
    BY <1>1, <1>2, <1>4, <2>6, CleanupMoved
<1>5. ASSUME Ends(t)
      PROVE  /\ cleanup' = [u \in Tokens |-> cleanup'[u]]
             /\ \A u \in Tokens : CleanupGoes(u)
  BY <1>2, <1>5, Ending
<1>6. CASE Ends(t) /\ SetRow(s, row[s])
  BY <1>1, <1>2, <1>3, <1>5, <1>6, RowKept, CleanupMoved
<1>7. CASE /\ Ends(t) /\ Holds(t)
           /\ \/ SetRow(s, r)
              \/ r.busy = "no" /\ SetRow(s, [r EXCEPT !.busy = "seen"])
  <2>1. /\ cleanup[t].state \in RowStates
        /\ cleanup[t].from \in Requesters \cup {None}
    BY <1>3 DEF CleanupType, RowStates
  <2>2. /\ r \in RowType /\ r.state = cleanup[t].state
        /\ r.busy = row[s].busy /\ r.by \in {cleanup[t].from, None}
    BY <1>3, <2>1, RowReturns
  <2>3. row[s].state = "destroying"
    BY <1>7 DEF Holds
  <2> HIDE DEF s, r
  <2>4. r.state = "destroyed" \/ r.by = "orphan" => Done(s)
    BY <1>3, <2>2, Constants DEF HolderInv, Confirmed, s, Requesters
  <2>5. CASE SetRow(s, r)
    BY <1>1, <1>3, <1>5, <1>7, <2>2, <2>3, <2>4, <2>5, HeldRowWritten
       DEF Long, Settled
  <2>6. CASE r.busy = "no" /\ SetRow(s, [r EXCEPT !.busy = "seen"])
    <3> DEFINE q == [r EXCEPT !.busy = "seen"]
    <3>1. q \in RowType /\ (Settled(q) => Done(s))
      BY <2>2, <2>4, SeenBusy DEF Settled
    <3>2. ~Long(s) /\ SetRow(s, q)
      BY <2>2, <2>6 DEF Long
    <3> HIDE DEF q
    <3> QED
      BY <1>1, <1>3, <1>5, <1>7, <2>3, <3>1, <3>2, HeldRowWritten
  <2> QED
    BY <1>7, <2>5, <2>6
<1> QED
  BY <1>4, <1>6, <1>7 DEF Postpone

-----------------------------------------------------------------------------
(***************************************************************************)
(* The invariant holds.                                                    *)
(***************************************************************************)
LEMMA InitInv == CleanupInit => CleanupInv
<1> SUFFICES ASSUME CleanupInit
             PROVE  CleanupInv
  OBVIOUS
<1>1. NoRow \in RowType /\ ~Settled(NoRow)
  <2>1. 0 \in 0 .. MaxCleanupAttempts /\ None # "orphan"
    BY Constants DEF Requesters
  <2> QED
    BY <2>1 DEF NoRow, RowType, Settled
<1>2. /\ NoRegistration \in RegistrationType
      /\ NoRegistration.status = "offline"
  BY DEF NoRegistration, RegistrationType
<1>3. CleanupTypeOK
  <2>1. /\ row \in [Sandboxes -> RowType]
        /\ cleanup \in [Tokens -> CleanupType \cup {NoCleanup}]
        /\ registration \in RegistrationType
    BY <1>1, <1>2 DEF CleanupInit
  <2>2. faults \in 0 .. MaxFaults /\ requests \in 0 .. MaxRequests
    BY Constants DEF CleanupInit
  <2> QED
    BY <2>1, <2>2 DEF CleanupInit, CleanupTypeOK, RegistrationType
<1>4. ASSUME NEW s \in Sandboxes
      PROVE  RowInv(s)
  BY <1>1 DEF CleanupInit, RowInv
<1>5. ASSUME NEW t \in Tokens
      PROVE  HolderInv(t)
  BY NothingUnderWay DEF CleanupInit, HolderInv
<1>6. ASSUME NEW s \in Known
      PROVE  JobInv(s)
  BY <1>2 DEF CleanupInit, JobInv, Began
<1> QED
  BY <1>3, <1>4, <1>5, <1>6 DEF CleanupInv

LEMMA StutterInv ==
  ASSUME CleanupInv, UNCHANGED cleanupVars
  PROVE  CleanupInv'
<1>1. /\ UNCHANGED <<row, lease, start, container, booting, killing,
                     registration, cleanup, faults, requests, concealed>>
  BY DEF cleanupVars, rows, world, tallies
<1>2. WorldTypes'
  BY <1>1, TypedWorld DEF WorldTypes
<1> QED
  BY <1>1, <1>2, CalmWorld, SameWorld, Surroundings DEF Unborn

LEMMA NextInv ==
  ASSUME CleanupInv, CleanupNext
  PROVE  CleanupInv'
<1>1. ASSUME NEW s \in Sandboxes, Start(s)
      PROVE  CleanupInv'
  BY <1>1, StartsAside, StartsWrite DEF Start, StartStep
<1>2. ASSUME NEW s \in Sandboxes, Environment(s)
      PROVE  CleanupInv'
  BY <1>2, RunnersAside, EnvironmentWrites, StartsAside, DeadlinesPass
     DEF Environment
<1>3. CASE Runner
  BY <1>3, JobBegins, RunnersAside DEF Runner
<1>4. ASSUME NEW s \in Sandboxes, NEW t \in Tokens, Claiming(s, t)
      PROVE  CleanupInv'
  BY <1>4, Claims
<1>5. ASSUME NEW t \in Tokens, Step(t)
      PROVE  CleanupInv'
  BY <1>5, Looks, Postponements, Destroys, Deletes, Settlements, Departures,
     Revalidations DEF Step
<1>6. ASSUME NEW t \in Tokens, Failing(t)
      PROVE  CleanupInv'
  BY <1>6, DestroysFail, Destroys, Revalidations, Departures, Settlements
     DEF Failing
<1> QED
  BY <1>1, <1>2, <1>3, <1>4, <1>5, <1>6 DEF CleanupNext

LEMMA CleanupInvHolds == CleanupSpec => []CleanupInv
<1>1. CleanupInv /\ [CleanupNext]_cleanupVars => CleanupInv'
  BY NextInv, StutterInv
<1> QED
  BY <1>1, InitInv, PTL DEF CleanupSpec

-----------------------------------------------------------------------------
(***************************************************************************)
(* What the Workers guarantee.                                             *)
(***************************************************************************)

\* Every variable of the start and cleanup Workers keeps its type.
THEOREM CleanupTypes == CleanupSpec => []CleanupTypeOK
<1>1. CleanupInv => CleanupTypeOK
  BY DEF CleanupInv
<1> QED
  BY <1>1, CleanupInvHolds, PTL

\* However many cleanups of a sandbox overlap, fail, lose their claim or give
\* it back, a terminal row means that the sandbox was destroyed, unless a
\* refusal was concealed; settleCleanupClaim completes only what a destroy or
\* an earlier completion confirmed.
THEOREM TerminalRowsAreGone == CleanupSpec => []DestroyedMeansGone
<1>1. CleanupInv => DestroyedMeansGone
  BY DEF CleanupInv, RowInv, Settled, Done, DestroyedMeansGone
<1> QED
  BY <1>1, CleanupInvHolds, PTL

\* The runner's sandbox goes while its job runs only by a destroy that a
\* cleanup calls, or by one that nobody waits for.
LEMMA ContainersGo ==
  ASSUME CleanupInv, CleanupNext, NEW s \in Known,
         container[s] # "gone", container'[s] = "gone"
  PROVE  \/ s \in killing
         \/ \E t \in Tokens : Runs(t, "destroy") /\ Target(t) = s
<1>1. container \in [Known -> {"none", "up", "ended", "gone", "late",
                               "spent"}]
  BY Types
<1>2. ASSUME NEW x, NEW new, new # "gone",
             container' = [container EXCEPT ![x] = new]
      PROVE  FALSE
  BY <1>1, <1>2
<1>3. \/ \E x \in Sandboxes :
           KillLands(x) \/ Boot(x) \/ RunnerEnds(x)
      \/ \E x \in Later : DeliverLater(x)
      \/ \E t \in Tokens : Destroy(t)
  <2>1. container' # container
    OBVIOUS
  <2>2. ASSUME NEW x \in Sandboxes, Start(x)
        PROVE  UNCHANGED container
    BY <2>2 DEF Start, StartStep, RecordStarting, ConsumeAndStart,
                StartGivenUp, StartAnswered, MarkOnline, NotReady,
                ScheduleCleanup, Deliver, StartMismatched, StartFails, world
  <2>3. ASSUME NEW x \in Sandboxes, NEW t \in Tokens, Claiming(x, t)
        PROVE  UNCHANGED container
    BY <2>3 DEF Claiming, AlarmClaim, ReconcileClaim, ReclaimClaim,
                ClaimForReconcile, OrphanClaim, Request, world
  <2>4. ASSUME NEW t \in Tokens, Step(t) \/ Failing(t), ~Destroy(t)
        PROVE  UNCHANGED container
    BY <2>4 DEF Step, Failing, LookUp, Postpone, Recheck, Delete, Settle,
                Release, Retry, OrphanLook, Revalidate, LeaseOver, Abandon,
                DestroyTimesOut, DestroyRefused, DestroyRefusalConcealed,
                OrphanMismatch, CallFails, SettledUnheard, CleanupDies, world
  <2>5. ASSUME NEW x \in Sandboxes, Environment(x), ~KillLands(x), ~Boot(x)
        PROVE  UNCHANGED container
    BY <2>5 DEF Environment, Callback, LeaseEnds, DeadlinePasses, BusyTooLong,
                OrphanClaimUnheard, world
  <2>6. ASSUME Runner,
               ~\E x \in Sandboxes : RunnerEnds(x),
               ~\E x \in Later : DeliverLater(x)
        PROVE  UNCHANGED container
    BY <2>6 DEF Runner, TakeJob, LaterConnects, LaterEnds, RunnerMissed
  <2> QED
    BY <2>1, <2>2, <2>3, <2>4, <2>5, <2>6 DEF CleanupNext
<1>4. ASSUME NEW x \in Sandboxes, KillLands(x)
      PROVE  s \in killing
  BY <1>1, <1>4 DEF KillLands
<1>5. ASSUME NEW x \in Sandboxes, Boot(x) \/ RunnerEnds(x)
      PROVE  FALSE
  BY <1>1, <1>2, <1>5 DEF Boot, RunnerEnds
<1>6. ASSUME NEW x \in Later, DeliverLater(x)
      PROVE  FALSE
  BY <1>2, <1>6 DEF DeliverLater
<1>7. ASSUME NEW t \in Tokens, Destroy(t)
      PROVE  Runs(t, "destroy") /\ Target(t) = s
  BY <1>1, <1>7 DEF Destroy
<1> QED
  BY <1>3, <1>4, <1>5, <1>6, <1>7

\* A job that a runner took before any cleanup had made its last check is cut
\* short only by a cleanup that found the runner busy for
\* MAX_BUSY_POSTPONE_MS and overrides it.
THEOREM JobsAreNotCutShort == CleanupSpec => JobsSurvive
<1> DEFINE Spares ==
      \A s \in Known :
        /\ Working(s) /\ ~registration.raced
        /\ \/ container'[s] = "gone"
           \/ \E t \in Tokens : Delete(t) /\ registration' # registration
        => \/ s \in Sandboxes /\ row[s].busy = "long"
           \/ \E t \in Tokens : cleanup[t].forced
                                /\ s \in {Target(t), cleanup[t].gated}
<1>1. ASSUME CleanupInv, CleanupNext
      PROVE  Spares
  <2> SUFFICES ASSUME NEW s \in Known, Working(s), ~registration.raced,
                      \/ container'[s] = "gone"
                      \/ \E t \in Tokens :
                           Delete(t) /\ registration' # registration
               PROVE  \/ s \in Sandboxes /\ row[s].busy = "long"
                      \/ \E t \in Tokens :
                           cleanup[t].forced
                           /\ s \in {Target(t), cleanup[t].gated}
    OBVIOUS
  <2>1. Began(s) /\ container[s] # "gone"
    BY DEF Working, Running, Began
  <2>2. CASE container'[s] = "gone"
    <3>1. CASE s \in killing
      BY <1>1, <2>1, <3>1, Types DEF CleanupInv, JobInv
    <3>2. ASSUME NEW t \in Tokens, Runs(t, "destroy"), Target(t) = s
          PROVE  cleanup[t].forced
      <4>1. PastLook(t, s)
        BY <3>2 DEF PastLook, Runs, Target
      <4> QED
        BY <1>1, <2>1, <4>1, OverridesJob
    <3> QED
      BY <1>1, <2>1, <2>2, <3>1, <3>2, ContainersGo
  <2>3. ASSUME NEW t \in Tokens, Delete(t), registration' # registration
        PROVE  cleanup[t].forced /\ s = cleanup[t].gated
    <3>1. s = cleanup[t].gated /\ Runs(t, "delete")
      BY <2>1, <2>3 DEF Delete, Began, Registered
    <3>2. PastLook(t, s)
      BY <3>1 DEF PastLook, Runs
    <3> QED
      BY <1>1, <2>1, <3>1, <3>2, OverridesJob
  <2> QED
    BY <2>2, <2>3
<1>2. CleanupInv /\ [CleanupNext]_cleanupVars => [Spares]_cleanupVars
  BY <1>1
<1>3. CleanupSpec => [][Spares]_cleanupVars
  BY <1>2, CleanupInvHolds, PTL DEF CleanupSpec
<1> QED
  BY <1>3 DEF JobsSurvive
=============================================================================
