----------------------- MODULE ListenerDispatchProofs -----------------------
(***************************************************************************)
(* Proofs about the way of a runner request through the listener, for any  *)
(* number of requests, messages, redeliveries and reservations, with       *)
(* evictions and drains.                                                   *)
(***************************************************************************)
EXTENDS ListenerDispatch, TLAPS

-----------------------------------------------------------------------------
(***************************************************************************)
(* The types: what each frame of the memory keeps.                         *)
(***************************************************************************)
LeaseIds == 1 .. MaxLeases
ActiveRow == {rec \in RowType : rec.state \in ActiveStates}
Releases == {"release", "released"}

ChainFrames ==
  {Idle}
    \cup [pc : {"permit"}, copy : ActiveRow]
    \cup [pc : {"reserved", "control"}, copy : ActiveRow,
          id : 0 .. MaxLeases]
    \cup [pc : {"register", "jit", "start"}]
    \cup [pc : {"lookup"}, after : {"missing", "ambiguous"}]
    \cup [pc : Releases, id : LeaseIds,
          after : {"cancelled", "failed", "cleanup"}]

LoopFrames ==
  {Idle}
    \cup [pc : {"delete"}, msg : Messages]
    \cup [pc : {"gate"}, req : Requests]
    \cup [pc : {"acquire"}, req : Requests, del : Deliveries]
    \cup [pc : Releases, req : Ids, id : LeaseIds,
          after : {"message", "completed", "settled", "undelivered",
                   "deregistered", "unassigned"}]

DrainFrames ==
  {Idle}
    \cup [pc : {"waiting"}]
    \cup [pc : {"settling"}, todo : SUBSET Ids]
    \cup [pc : {"lookup"}, req : Ids, todo : SUBSET Ids]
    \cup [pc : Releases, req : Ids, id : LeaseIds,
          after : {"cancelled", "cleanup"}, todo : SUBSET Ids]

\* What GitHub sent stays sent, and only that is held.
QueueOK ==
  /\ queue \in [Messages -> [kind : {"unsent", "offer", "end"},
                             req : Requests \cup {NoId}, held : BOOLEAN]]
  /\ \A m \in Messages :
       /\ queue[m].kind # "unsent" => queue[m].req \in Requests
       /\ queue[m].held => queue[m].kind # "unsent"
  /\ loop.pc = "delete" => queue[loop.msg].kind # "unsent"

FramesOK ==
  /\ chain \in [Ids -> ChainFrames]
  /\ loop \in LoopFrames
  /\ drain \in DrainFrames
  /\ drawn \in [Ids -> 0 .. MaxLeases]
  /\ drains \in Nat /\ evictions \in Nat

Types == DispatchTypeOK /\ FramesOK /\ QueueOK

-----------------------------------------------------------------------------
(***************************************************************************)
(* The alarm handler and the drain: who is in flight when.                 *)
(***************************************************************************)
Settling == drain.pc \notin {"idle", "waiting"}

\* Between two handlers, and while a drained one settles, nothing is in
\* flight; a closing handler has no call of its own.
PhaseInv ==
  /\ phase \in {"none", "settling"}
       => loop = Idle /\ \A r \in Ids : chain[r] = Idle
  /\ phase = "closing" => loop = Idle
  /\ drains = 0 => mode = "running" /\ drain = Idle /\ phase # "settling"
  /\ NotResumed /\ Settling => phase \in {"none", "settling"}

-----------------------------------------------------------------------------
(***************************************************************************)
(* GitHub's report that a request has ended.                               *)
(***************************************************************************)
EndOf(m, r) == queue[m].kind = "end" /\ queue[m].req = r
Ended(r) == \E m \in Messages : EndOf(m, r) /\ inbox[m] # "none"

\* Messages are sent in order, a request's report last, and taken in order.
OrderInv ==
  /\ \A m, n \in Messages :
       queue[m].kind # "unsent" /\ queue[n].kind = "unsent" => m < n
  /\ \A m, n \in Messages, r \in Requests :
       EndOf(m, r) /\ queue[n].kind # "unsent" /\ queue[n].req = r => n <= m
  /\ \A m \in Messages : inbox[m] # "none" => queue[m].kind # "unsent"
  /\ \A m, n \in Messages :
       inbox[m] # "none" /\ queue[m].kind = "end" /\ n < m => ~queue[n].held
  /\ loop.pc = "delete" => /\ queue[loop.msg].held
                           /\ inbox[loop.msg] # "none"

Acquiring(r) == loop.pc \in {"gate", "acquire"} /\ loop.req = r
Deleting(r) == loop.pc = "delete" /\ EndOf(loop.msg, r)

\* A request that has ended is not acquired again, and a row of it that is
\* still active is cancelled.
EndInv ==
  \A r \in Requests : Ended(r) =>
    /\ intent[r].state \notin {"intended", "granted"}
    /\ ~Acquiring(r)
    /\ IsCancelled(r) \/ (chain[r] = Idle /\ ~Active(r))

-----------------------------------------------------------------------------
(***************************************************************************)
(* One request.                                                            *)
(***************************************************************************)
LoopReleasing(r) == loop.pc \in Releases /\ loop.req = r
DrainReleasing(r) == drain.pc \in Releases /\ drain.req = r
ChainReleasing(r) == chain[r].pc \in Releases

\* Rows and intents
RowInv(r) ==
  /\ row[r].state = "absent" => row[r] = NoRow
  /\ age[r] = "unborn" => row[r] = NoRow /\ r \notin Requests
  /\ intent[r].state = "granted" => row[r] # NoRow
  /\ row[r].state = "started" => Recorded(r, row[r].del)
  /\ intent[r].state = "none" => intent[r] = NoIntent
  /\ IsCancelled(r) => intent[r].state \notin {"intended", "granted"}

\* The ledger never draws an identifier twice, and what it was told to end it
\* has ended.
LeaseInv(r) ==
  /\ lease[r].id = NoId => lease[r] = NoLease
  /\ lease[r].id <= drawn[r] /\ row[r].res <= drawn[r]
  /\ \A d \in Deliveries : run[r][d].res <= drawn[r]
  /\ chain[r].pc \in {"permit", "reserved", "control"}
       => chain[r].copy.res <= drawn[r]
  /\ chain[r].pc \in {"reserved", "control"} \cup Releases
       => chain[r].id <= drawn[r]
  /\ LoopReleasing(r) => loop.id <= drawn[r]
  /\ DrainReleasing(r) => drain.id <= drawn[r]
  /\ chain[r].pc = "released" => lease[r].id # chain[r].id
  /\ LoopReleasing(r) /\ loop.pc = "released" => lease[r].id # loop.id
  /\ DrainReleasing(r) /\ drain.pc = "released" => lease[r].id # drain.id

Unrecorded(r) == \A d \in Deliveries : ~Recorded(r, d)
Alone(r, d) == \A c \in Deliveries \ {d} : ~Recorded(r, c)

\* A release whose row is already decided follows a recorded start.
CleanupInv(r) ==
  /\ CleansUp(chain[r]) => ~Unrecorded(r)
  /\ DrainReleasing(r) /\ drain.after = "cleanup" => ~Unrecorded(r)

\* A chain has the row it works on, and the copy it keeps is right about the
\* reservation.
ChainInv(r) ==
  /\ chain[r] # Idle /\ ~CleansUp(chain[r])
       => Active(r) \/ (row[r].state = "cancelled" /\ IsCancelled(r))
  /\ chain[r].pc \in {"permit", "reserved", "control"}
       => chain[r].copy.res = row[r].res
  /\ chain[r].pc = "control" => chain[r].id = row[r].res
  /\ chain[r].pc \in {"reserved", "control"}
       => lease[r].id \in {NoId, chain[r].id}
  /\ chain[r].pc \in {"register", "jit"}
       => lease[r].id \in {NoId, row[r].res}

\* Who holds a row holds the acquisition behind it.
IntentInv(r) ==
  /\ Active(r) /\ r \in Requests
       => intent[r].state = "granted" \/ IsCancelled(r)
  /\ Acquiring(r) => intent[r].state = "intended"
  /\ Deleting(r) => IsCancelled(r)

\* Before a start is recorded, only an old or cancelled row gives back what it
\* holds.
MarkInv(r) ==
  Unrecorded(r) =>
    /\ Active(r) /\ ~Late(r) /\ ~IsCancelled(r) => ~row[r].released
    /\ LoopReleasing(r) => Late(r) \/ IsCancelled(r)

\* The live reservation that a delivery sent, no other start being recorded,
\* is the one its row holds, and whoever releases releases that one.
Sent(r, d) == /\ run[r][d].res = lease[r].id /\ lease[r].id # NoId
              /\ Alone(r, d)

SentInv(r) ==
  \A d \in Deliveries : Sent(r, d) =>
    /\ row[r].del = d /\ row[r].res = lease[r].id /\ ~row[r].released
    /\ ChainReleasing(r) => chain[r].id = lease[r].id
    /\ LoopReleasing(r) => loop.id = lease[r].id
    /\ DrainReleasing(r) => drain.id = lease[r].id

\* Deliveries that sent the same reservation as row[r].del
Foreign(r, id) ==
  \A d \in Deliveries :
    d # row[r].del /\ id # NoId /\ run[r][d].res = id => ~Alone(r, d)

ShareInv(r) ==
  /\ Foreign(r, row[r].res)
  /\ chain[r].pc = "reserved" => Foreign(r, chain[r].id)
  /\ \A d, e \in Deliveries :
       d # e /\ run[r][d].res # NoId /\ run[r][d].res = run[r][e].res
         => \E c \in Deliveries \ {d, e} : Recorded(r, c)

\* What holds of a request whatever the operator does, and until a resume
Always(r) == RowInv(r) /\ LeaseInv(r) /\ CleanupInv(r)
Undisturbed(r) ==
  ChainInv(r) /\ IntentInv(r) /\ MarkInv(r) /\ SentInv(r) /\ ShareInv(r)

RequestsInv ==
  \A r \in Ids : Always(r) /\ (NotResumed => Undisturbed(r))

DispatchInv == Types /\ PhaseInv /\ OrderInv /\ EndInv /\ RequestsInv

-----------------------------------------------------------------------------
(***************************************************************************)
(* Frames and rows.                                                        *)
(***************************************************************************)
LEMMA ConstantTypes ==
  /\ MaxLeases \in Nat \ {0} /\ MaxRedeliveries \in Nat
  /\ Messages \subseteq Nat \ {0} /\ Requests \cap Surplus = {}
  /\ 0 \in 0 .. MaxLeases /\ 0 \in Deliveries
BY ConstantsAssumption DEF Deliveries

LEMMA ChainFrameFacts ==
  ASSUME NEW f \in ChainFrames
  PROVE  /\ f.pc \in {"idle", "permit", "reserved", "register", "jit",
                       "control", "start", "lookup", "release", "released"}
         /\ f.pc = "idle" => f = Idle
         /\ f.pc # "idle" => f # Idle
         /\ f.pc \in {"permit", "reserved", "control"}
              => f.copy \in RowType /\ f.copy.state \in ActiveStates
         /\ f.pc \in {"reserved", "control"} => f.id \in 0 .. MaxLeases
         /\ f.pc = "lookup" => f.after \in {"missing", "ambiguous"}
         /\ f.pc \in Releases
              => f \in [pc : Releases, id : LeaseIds,
                        after : {"cancelled", "failed", "cleanup"}]
BY DEF ChainFrames, Idle, ActiveRow, Releases

LEMMA LoopFrameFacts ==
  ASSUME NEW f \in LoopFrames
  PROVE  /\ f.pc \in {"idle", "delete", "gate", "acquire", "release",
                       "released"}
         /\ f.pc = "idle" => f = Idle
         /\ f.pc # "idle" => f # Idle
         /\ f.pc = "delete" => f.msg \in Messages
         /\ f.pc \in {"gate", "acquire"} => f.req \in Requests
         /\ f.pc = "acquire" => f.del \in Deliveries
         /\ f.pc \in Releases
              => f \in [pc : Releases, req : Ids, id : LeaseIds,
                        after : {"message", "completed", "settled",
                                 "undelivered", "deregistered",
                                 "unassigned"}]
BY DEF LoopFrames, Idle, Releases

LEMMA DrainFrameFacts ==
  ASSUME NEW f \in DrainFrames
  PROVE  /\ f.pc \in {"idle", "waiting", "settling", "lookup", "release",
                       "released"}
         /\ f.pc = "idle" => f = Idle
         /\ f.pc # "idle" => f # Idle
         /\ f.pc = "settling" => f \in [pc : {"settling"}, todo : SUBSET Ids]
         /\ f.pc = "lookup" => f.req \in Ids /\ f.todo \subseteq Ids
         /\ f.pc \in Releases
              => f \in [pc : Releases, req : Ids, id : LeaseIds,
                        after : {"cancelled", "cleanup"}, todo : SUBSET Ids]
BY DEF DrainFrames, Idle, Releases

\* The edits of a row: what they set, and what they leave.
RowStates == ActiveStates \cup TerminalStates \cup {"absent"}

LEMMA RowEdit ==
  ASSUME NEW rec \in RowType, NEW state \in RowStates, NEW jit \in BOOLEAN
  PROVE  LET new == [rec EXCEPT !.state = state, !.jit = jit] IN
         /\ new \in RowType
         /\ new.state = state /\ new.res = rec.res /\ new.del = rec.del
         /\ new.released = rec.released /\ new.jit = jit
BY DEF RowType, RowStates

Kept3(new, rec) == /\ new.res = rec.res /\ new.released = rec.released
                   /\ new.del = rec.del

LEMMA RowEdits ==
  ASSUME NEW rec \in RowType
  PROVE  /\ CancelledRow(rec) \in RowType /\ FailedRow(rec) \in RowType
         /\ StartedRow(rec) \in RowType
         /\ CancelledRow(rec).state = "cancelled"
         /\ FailedRow(rec).state = "failed"
         /\ StartedRow(rec).state = "started"
         /\ Kept3(CancelledRow(rec), rec) /\ Kept3(FailedRow(rec), rec)
         /\ Kept3(StartedRow(rec), rec)
<1>1. "cancelled" \in RowStates /\ "failed" \in RowStates
      /\ "started" \in RowStates /\ FALSE \in BOOLEAN
  BY DEF RowStates, TerminalStates
<1>2. /\ CancelledRow(rec) \in RowType /\ CancelledRow(rec).state = "cancelled"
      /\ Kept3(CancelledRow(rec), rec)
  BY <1>1, RowEdit DEF CancelledRow, Kept3
<1>3. /\ FailedRow(rec) \in RowType /\ FailedRow(rec).state = "failed"
      /\ Kept3(FailedRow(rec), rec)
  BY <1>1, RowEdit DEF FailedRow, Kept3
<1>4. /\ StartedRow(rec) \in RowType /\ StartedRow(rec).state = "started"
      /\ Kept3(StartedRow(rec), rec)
  BY <1>1, RowEdit DEF StartedRow, Kept3
<1> QED
  BY <1>2, <1>3, <1>4

LEMMA NewRows ==
  /\ NoRow \in RowType /\ NoRow.state = "absent" /\ NoRow.res = NoId
  /\ NoRow.del = 0 /\ ~NoRow.released
  /\ \A state \in {"pending", "cancelled"}, del \in Deliveries :
       /\ NewRow(state, del) \in RowType
       /\ NewRow(state, del).state = state /\ NewRow(state, del).res = NoId
       /\ NewRow(state, del).del = del
       /\ ~NewRow(state, del).released
       /\ NewRow(state, del) # NoRow
<1>1. NoRow \in RowType
  BY ConstantTypes DEF NoRow, RowType, NoId
<1>2. NoRow.state = "absent" /\ NoRow.res = NoId /\ NoRow.del = 0
      /\ ~NoRow.released
  BY DEF NoRow
<1>3. ASSUME NEW state \in RowStates, NEW del \in Deliveries
      PROVE  /\ NewRow(state, del) \in RowType
             /\ NewRow(state, del).state = state
             /\ NewRow(state, del).res = NoId
             /\ NewRow(state, del).del = del
             /\ ~NewRow(state, del).released
  BY <1>1, <1>2, <1>3 DEF NewRow, RowType, RowStates
<1>4. \A state \in {"pending", "cancelled"} :
        state \in RowStates /\ state # "absent"
  BY DEF RowStates, TerminalStates, ActiveStates
<1> QED
  BY <1>1, <1>2, <1>3, <1>4

-----------------------------------------------------------------------------
(***************************************************************************)
(* What a step of a chain may do to its request, whatever its handler.     *)
(***************************************************************************)
OnlyAt(r, f, g) == g = [f EXCEPT ![r] = g[r]]

Elsewhere(r) ==
  /\ UNCHANGED <<mode, inbox, cancelled, phase, loop, drain, queue, age,
                 evictions, drains>>
  /\ OnlyAt(r, chain, chain') /\ OnlyAt(r, row, row')
  /\ OnlyAt(r, intent, intent') /\ OnlyAt(r, lease, lease')
  /\ OnlyAt(r, drawn, drawn') /\ OnlyAt(r, run, run')

ChainTypes(r) ==
  /\ chain'[r] \in ChainFrames /\ row'[r] \in RowType
  /\ intent'[r] \in IntentType
  /\ lease'[r] \in [id : 0 .. MaxLeases, used : BOOLEAN]
  /\ drawn'[r] \in 0 .. MaxLeases
  /\ run'[r] \in [Deliveries -> RunType]

Working(r) == chain[r] # Idle /\ ~CleansUp(chain[r])

\* A row that is there stays there, of the same delivery, and becomes active
\* or started only where the chain has a say.
RowMoves(r) ==
  /\ row[r] = NoRow => row'[r] = NoRow
  /\ row[r].state # "absent" =>
       /\ row'[r].state # "absent" /\ row'[r].del = row[r].del
       /\ row'[r].state = "started"
            => row[r].state = "started" \/ Recorded(r, row[r].del)
       /\ row'[r].res = row[r].res \/ (/\ chain[r].pc = "reserved"
                                       /\ row'[r].res = chain[r].id)
       /\ row'[r].released = row[r].released
            \/ /\ chain[r].pc = "released" /\ chain'[r] = Idle
               /\ row'[r].state \in ActiveStates => CleansUp(chain[r])
  /\ row'[r].state \in ActiveStates => Active(r) \/ Working(r)

ChainMoves(r) ==
  LET f == chain'[r] IN
  /\ f # Idle /\ ~CleansUp(f) =>
       /\ Working(r) \/ Active(r)
       /\ row[r].state # "absent"
            => row'[r].state \in ActiveStates \cup {row[r].state}
  /\ CleansUp(f) =>
       CleansUp(chain[r]) \/ (Working(r) /\ Recorded(r, row[r].del))
  /\ f.pc = "permit" =>
       /\ UNCHANGED <<row, lease>> /\ f.copy = row[r]
  /\ f.pc = "reserved" =>
       /\ chain[r].pc = "permit" /\ UNCHANGED row
       /\ f.copy = chain[r].copy /\ f.id = lease'[r].id
       /\ lease'[r] # NoLease
  /\ f.pc = "register" =>
       /\ chain[r].pc = "reserved" /\ UNCHANGED lease
       /\ row[r].state # "absent" => row'[r].res = chain[r].id
  /\ f.pc = "jit" =>
       /\ chain[r].pc = "register" /\ UNCHANGED lease
       /\ row[r].state # "absent" => row'[r].res = row[r].res
  /\ f.pc = "control" =>
       /\ UNCHANGED lease /\ f.copy.res = f.id
       /\ \/ chain[r].pc = "reserved" /\ f.id = chain[r].id
          \/ chain[r].pc = "jit" /\ f.id = row[r].res
       /\ row[r].state # "absent" => row'[r].res = f.id
  /\ f.pc = "release" =>
       /\ UNCHANGED lease
       /\ \/ f.id = row'[r].res
          \/ f.id = row[r].res
          \/ /\ chain[r].pc \in {"permit", "reserved", "control"}
             /\ f.id = chain[r].copy.res
          \/ chain[r].pc = "reserved" /\ f.id = chain[r].id
  /\ f.pc = "released" =>
       /\ chain[r].pc = "release" /\ f.id = chain[r].id
       /\ lease'[r].id = IF lease[r].id = f.id THEN NoId ELSE lease[r].id

LedgerMoves(r) ==
  /\ \/ lease'[r] = lease[r]
     \/ lease'[r] = NoLease
     \/ /\ chain[r].pc = "permit" /\ lease[r] = NoLease
        /\ lease'[r] = [id |-> drawn[r] + 1, used |-> FALSE]
        /\ drawn'[r] = drawn[r] + 1
  /\ drawn'[r] = drawn[r] \/ (drawn'[r] = drawn[r] + 1 /\ UNCHANGED run)

SendMoves(r) ==
  \/ UNCHANGED run
  \/ /\ chain[r].pc = "control" /\ ~IsCancelled(r) /\ ~Late(r)
     /\ chain'[r].pc = "start" /\ UNCHANGED <<lease, drawn>>
     /\ row'[r].del = row[r].del
     /\ run[r][row[r].del].state \in {"none", "refused"}
     /\ run' = [run EXCEPT ![r][row[r].del] =
                  [state |-> "flying", res |-> chain[r].id]]

IntentMoves(r) ==
  \/ intent'[r] = intent[r]
  \/ /\ intent[r] # NoIntent
     /\ intent'[r] = [intent[r] EXCEPT !.state = "cancelled"]
     /\ row'[r].state \notin ActiveStates
     /\ IsCancelled(r) \/ Working(r)

ChainEffect(r) ==
  /\ Elsewhere(r) /\ ChainTypes(r)
  /\ RowMoves(r) /\ ChainMoves(r) /\ LedgerMoves(r) /\ SendMoves(r)
  /\ IntentMoves(r)

-----------------------------------------------------------------------------
(***************************************************************************)
(* The pieces the chain's handlers share.                                  *)
(***************************************************************************)
Unchained(r) == /\ chain \in [Ids -> ChainFrames] /\ row \in [Ids -> RowType]
                /\ intent \in [Ids -> IntentType] /\ r \in Ids

LEMMA PutFacts ==
  ASSUME NEW r, NEW rec \in RowType, Unchained(r), Put(r, rec)
  PROVE  /\ OnlyAt(r, row, row') /\ row'[r] \in RowType
         /\ row'[r] = IF row[r] = NoRow THEN NoRow ELSE rec
BY NewRows DEF Unchained, Put, OnlyAt

LEMMA GoesFacts ==
  ASSUME NEW r, NEW f \in ChainFrames, Unchained(r), ChainGoes(r, f)
  PROVE  OnlyAt(r, chain, chain') /\ chain'[r] = f
BY DEF Unchained, ChainGoes, OnlyAt

LEMMA IntentCancelledFacts ==
  ASSUME NEW r, Unchained(r), IntentCancelled(r)
  PROVE  /\ OnlyAt(r, intent, intent') /\ intent'[r] \in IntentType
         /\ \/ intent'[r] = intent[r]
            \/ /\ intent[r] # NoIntent
               /\ intent'[r] = [intent[r] EXCEPT !.state = "cancelled"]
<1>1. intent' = [intent EXCEPT ![r] =
        IF intent[r] = NoIntent THEN intent[r]
        ELSE [intent[r] EXCEPT !.state = "cancelled"]]
  BY DEF IntentCancelled
<1>2. [intent[r] EXCEPT !.state = "cancelled"] \in IntentType
  BY DEF Unchained, IntentType
<1> QED
  BY <1>1, <1>2 DEF Unchained, OnlyAt

LEMMA SameFacts ==
  ASSUME NEW r, Unchained(r)
  PROVE  /\ UNCHANGED row => OnlyAt(r, row, row')
         /\ UNCHANGED chain => OnlyAt(r, chain, chain')
         /\ UNCHANGED intent => OnlyAt(r, intent, intent')
BY DEF Unchained, OnlyAt

\* The release of a reservation comes before the decision about the row.
AwaitFrame(id, after) == [pc |-> "release", id |-> id, after |-> after]

LEMMA AwaitFrames ==
  ASSUME NEW id \in 0 .. MaxLeases, id # NoId,
         NEW after \in {"cancelled", "failed", "cleanup"}
  PROVE  /\ AwaitFrame(id, after) \in ChainFrames
         /\ AwaitFrame(id, after).pc = "release"
         /\ AwaitFrame(id, after).id = id /\ AwaitFrame(id, after).after = after
<1>1. id \in LeaseIds
  BY ConstantTypes DEF LeaseIds, NoId
<1> QED
  BY <1>1 DEF AwaitFrame, ChainFrames, Releases

\* What #cancelDispatch, #failDispatch and #recordDeadlineExceededAfterStart
\* do: the decided row when nothing is held, else the release.
Decides(r, rec, id, after, decided) ==
  /\ OnlyAt(r, row, row') /\ row'[r] \in RowType
  /\ row'[r] = IF row[r] = NoRow THEN NoRow
               ELSE IF id = NoId THEN decided ELSE rec
  /\ OnlyAt(r, chain, chain') /\ chain'[r] \in ChainFrames
  /\ chain'[r] = IF id = NoId THEN Idle ELSE AwaitFrame(id, after)

LEMMA FailFacts ==
  ASSUME NEW r, NEW rec \in RowType, NEW id \in 0 .. MaxLeases, Unchained(r),
         FailDispatch(r, rec, id)
  PROVE  Decides(r, rec, id, "failed", FailedRow(rec)) /\ UNCHANGED intent
<1>1. Idle \in ChainFrames /\ FailedRow(rec) \in RowType
  BY RowEdits DEF ChainFrames
<1>2. CASE id = NoId
  BY <1>1, <1>2, PutFacts, GoesFacts DEF FailDispatch, ChainEnds, Decides
<1>3. CASE id # NoId
  <2>1. /\ Put(r, rec) /\ ChainGoes(r, AwaitFrame(id, "failed"))
        /\ UNCHANGED intent
    BY <1>3 DEF FailDispatch, AwaitRelease, AwaitFrame
  <2>2. AwaitFrame(id, "failed") \in ChainFrames
    BY <1>3, AwaitFrames
  <2> QED
    BY <1>3, <2>1, <2>2, PutFacts, GoesFacts DEF Decides
<1> QED
  BY <1>2, <1>3

LEMMA CancelFacts ==
  ASSUME NEW r, NEW rec \in RowType, NEW id \in 0 .. MaxLeases, Unchained(r),
         CancelDispatch(r, rec, id)
  PROVE  /\ Decides(r, rec, id, "cancelled", CancelledRow(rec))
         /\ OnlyAt(r, intent, intent') /\ intent'[r] \in IntentType
         /\ \/ intent'[r] = intent[r]
            \/ /\ id = NoId /\ intent[r] # NoIntent
               /\ intent'[r] = [intent[r] EXCEPT !.state = "cancelled"]
<1>1. Idle \in ChainFrames /\ CancelledRow(rec) \in RowType
  BY RowEdits DEF ChainFrames
<1>2. CASE id = NoId
  <2>1. /\ Put(r, CancelledRow(rec)) /\ IntentCancelled(r)
        /\ ChainGoes(r, Idle)
    BY <1>2 DEF CancelDispatch, ChainEnds
  <2> QED
    BY <1>1, <1>2, <2>1, PutFacts, GoesFacts, IntentCancelledFacts DEF Decides
<1>3. CASE id # NoId
  <2>1. /\ Put(r, rec) /\ ChainGoes(r, AwaitFrame(id, "cancelled"))
        /\ UNCHANGED intent
    BY <1>3 DEF CancelDispatch, AwaitRelease, AwaitFrame
  <2>2. AwaitFrame(id, "cancelled") \in ChainFrames
    BY <1>3, AwaitFrames
  <2>3. /\ OnlyAt(r, intent, intent') /\ intent'[r] \in IntentType
        /\ intent'[r] = intent[r]
    BY <2>1, SameFacts DEF Unchained
  <2>4. Decides(r, rec, id, "cancelled", CancelledRow(rec))
    BY <1>3, <2>1, <2>2, PutFacts, GoesFacts DEF Decides
  <2> QED
    BY <2>3, <2>4
<1> QED
  BY <1>2, <1>3

LEMMA DeadlineFacts ==
  ASSUME NEW r, NEW rec \in RowType, Unchained(r), DeadlineExceeded(r, rec)
  PROVE  /\ Decides(r, FailedRow(rec), rec.res, "cleanup", FailedRow(rec))
         /\ UNCHANGED intent
<1>1. /\ Idle \in ChainFrames /\ FailedRow(rec) \in RowType
      /\ rec.res \in 0 .. MaxLeases
  BY RowEdits DEF ChainFrames, RowType
<1>2. CASE rec.res = NoId
  BY <1>1, <1>2, PutFacts, GoesFacts DEF DeadlineExceeded, ChainEnds, Decides
<1>3. CASE rec.res # NoId
  <2>1. /\ Put(r, FailedRow(rec)) /\ ChainGoes(r, AwaitFrame(rec.res, "cleanup"))
        /\ UNCHANGED intent
    BY <1>3 DEF DeadlineExceeded, AwaitRelease, AwaitFrame
  <2>2. AwaitFrame(rec.res, "cleanup") \in ChainFrames
    BY <1>1, <1>3, AwaitFrames
  <2> QED
    BY <1>1, <1>3, <2>1, <2>2, PutFacts, GoesFacts DEF Decides
<1> QED
  BY <1>2, <1>3

\* The row as a chain may rewrite it, and the reservation it may release.
Carries(r, rec) ==
  /\ rec \in RowType
  /\ rec.del = row[r].del /\ rec.released = row[r].released
  /\ rec.res = row[r].res \/ (chain[r].pc = "reserved" /\ rec.res = chain[r].id)
  /\ rec.state \in ActiveStates \cup {row[r].state}

HasId(r, rec, id) ==
  /\ id \in 0 .. MaxLeases
  /\ \/ id \in {NoId, rec.res, row[r].res}
     \/ /\ chain[r].pc \in {"permit", "reserved", "control"}
        /\ id = chain[r].copy.res
     \/ chain[r].pc = "reserved" /\ id = chain[r].id

Still == ChainFrame /\ UNCHANGED <<lease, run>>

LEMMA Unchains ==
  ASSUME Types, NEW r \in Ids
  PROVE  /\ Unchained(r) /\ chain[r] \in ChainFrames /\ row[r] \in RowType
         /\ intent[r] \in IntentType
         /\ lease \in [Ids -> [id : 0 .. MaxLeases, used : BOOLEAN]]
         /\ lease[r].id \in 0 .. MaxLeases /\ row[r].res \in 0 .. MaxLeases
         /\ drawn \in [Ids -> 0 .. MaxLeases] /\ drawn[r] \in 0 .. MaxLeases
         /\ run \in [Ids -> [Deliveries -> RunType]]
         /\ row[r].del \in Deliveries /\ row[r].released \in BOOLEAN
BY DEF Types, DispatchTypeOK, FramesOK, Unchained, RowType

LEMMA StillFacts ==
  ASSUME Types, NEW r \in Ids, Still
  PROVE  /\ UNCHANGED <<mode, inbox, cancelled, phase, loop, drain, queue,
                        age, evictions, drains>>
         /\ UNCHANGED <<lease, drawn, run>>
         /\ OnlyAt(r, lease, lease') /\ OnlyAt(r, drawn, drawn')
         /\ OnlyAt(r, run, run')
         /\ lease'[r] \in [id : 0 .. MaxLeases, used : BOOLEAN]
         /\ drawn'[r] \in 0 .. MaxLeases
         /\ run'[r] \in [Deliveries -> RunType]
         /\ LedgerMoves(r) /\ SendMoves(r)
BY Unchains DEF Still, ChainFrame, OnlyAt, LedgerMoves, SendMoves

LEMMA FailEffect ==
  ASSUME Types, NEW r \in Ids, NEW rec, NEW id, Carries(r, rec),
         HasId(r, rec, id), Working(r) \/ Active(r),
         FailDispatch(r, rec, id), Still
  PROVE  ChainEffect(r)
<1>1. Decides(r, rec, id, "failed", FailedRow(rec)) /\ UNCHANGED intent
  BY FailFacts, Unchains DEF Carries, HasId
<1>2. Elsewhere(r) /\ ChainTypes(r) /\ IntentMoves(r)
  BY <1>1, Unchains, SameFacts, StillFacts
     DEF Decides, Elsewhere, ChainTypes, IntentMoves
<1>3. RowMoves(r)
  <2>1. /\ FailedRow(rec).state = "failed" /\ FailedRow(rec).del = row[r].del
        /\ FailedRow(rec).res = rec.res
        /\ FailedRow(rec).released = row[r].released
    BY RowEdits DEF Carries, Kept3
  <2> QED
    BY <1>1, <2>1, NewRows
       DEF Decides, RowMoves, Carries, Active, ActiveStates
<1>4. ChainMoves(r)
  <2>1. CASE id = NoId
    BY <1>1, <2>1 DEF Decides, ChainMoves, Idle, CleansUp
  <2>2. CASE id # NoId
    <3>1. chain'[r] = AwaitFrame(id, "failed") /\ chain'[r].pc = "release"
          /\ chain'[r].id = id /\ ~CleansUp(chain'[r])
      BY <1>1, <2>2, AwaitFrames DEF Decides, CleansUp, HasId
    <3>2. row[r].state # "absent" =>
            /\ row'[r] = rec
            /\ row'[r].state \in ActiveStates \cup {row[r].state}
      BY <1>1, <2>2, NewRows DEF Decides, Carries
    <3>3. UNCHANGED lease
      BY DEF Still
    <3>4. id = row'[r].res \/ id = row[r].res
          \/ (/\ chain[r].pc \in {"permit", "reserved", "control"}
              /\ id = chain[r].copy.res)
          \/ (chain[r].pc = "reserved" /\ id = chain[r].id)
      BY <1>1, <2>2, NewRows DEF Decides, HasId, Carries
    <3> QED
      BY <3>1, <3>2, <3>3, <3>4 DEF ChainMoves
  <2> QED
    BY <2>1, <2>2
<1> QED
  BY <1>2, <1>3, <1>4, StillFacts DEF ChainEffect

LEMMA CancelEffect ==
  ASSUME Types, NEW r \in Ids, NEW rec, NEW id, Carries(r, rec),
         HasId(r, rec, id), Working(r) \/ (Active(r) /\ IsCancelled(r)),
         CancelDispatch(r, rec, id), Still
  PROVE  ChainEffect(r)
<1>1. /\ Decides(r, rec, id, "cancelled", CancelledRow(rec))
      /\ OnlyAt(r, intent, intent') /\ intent'[r] \in IntentType
      /\ \/ intent'[r] = intent[r]
         \/ /\ id = NoId /\ intent[r] # NoIntent
            /\ intent'[r] = [intent[r] EXCEPT !.state = "cancelled"]
  BY CancelFacts, Unchains DEF Carries, HasId
<1>0. /\ CancelledRow(rec).state = "cancelled"
      /\ CancelledRow(rec).del = row[r].del
      /\ CancelledRow(rec).res = rec.res
      /\ CancelledRow(rec).released = row[r].released
  BY RowEdits DEF Carries, Kept3
<1>2. Elsewhere(r) /\ ChainTypes(r)
  BY <1>1, Unchains, StillFacts DEF Decides, Elsewhere, ChainTypes
<1>5. IntentMoves(r)
  <2>1. id = NoId => row'[r].state \notin ActiveStates
    BY <1>0, <1>1, NewRows DEF Decides, ActiveStates
  <2> QED
    BY <1>1, <2>1 DEF IntentMoves
<1>3. RowMoves(r)
  BY <1>0, <1>1, NewRows
     DEF Decides, RowMoves, Carries, Active, ActiveStates
<1>4. ChainMoves(r)
  <2>1. CASE id = NoId
    BY <1>1, <2>1 DEF Decides, ChainMoves, Idle, CleansUp
  <2>2. CASE id # NoId
    <3>1. chain'[r] = AwaitFrame(id, "cancelled") /\ chain'[r].pc = "release"
          /\ chain'[r].id = id /\ ~CleansUp(chain'[r])
      BY <1>1, <2>2, AwaitFrames DEF Decides, CleansUp, HasId
    <3>2. row[r].state # "absent" =>
            /\ row'[r] = rec
            /\ row'[r].state \in ActiveStates \cup {row[r].state}
      BY <1>1, <2>2, NewRows DEF Decides, Carries
    <3>3. UNCHANGED lease
      BY DEF Still
    <3>4. id = row'[r].res \/ id = row[r].res
          \/ (/\ chain[r].pc \in {"permit", "reserved", "control"}
              /\ id = chain[r].copy.res)
          \/ (chain[r].pc = "reserved" /\ id = chain[r].id)
      BY <1>1, <2>2, NewRows DEF Decides, HasId, Carries
    <3> QED
      BY <3>1, <3>2, <3>3, <3>4 DEF ChainMoves
  <2> QED
    BY <2>1, <2>2
<1> QED
  BY <1>2, <1>3, <1>4, <1>5, StillFacts DEF ChainEffect

\* The start was recorded too late: the row fails at once.
LEMMA DeadlineEffect ==
  ASSUME Types, NEW r \in Ids, NEW rec \in RowType,
         rec.del = row[r].del, rec.released = row[r].released,
         rec.res = row[r].res, Working(r), Recorded(r, row[r].del),
         DeadlineExceeded(r, rec), Still
  PROVE  ChainEffect(r)
<1> DEFINE id == rec.res
<1>1. /\ Decides(r, FailedRow(rec), id, "cleanup", FailedRow(rec))
      /\ UNCHANGED intent
  BY DeadlineFacts, Unchains
<1>0. /\ FailedRow(rec).state = "failed" /\ FailedRow(rec).del = row[r].del
      /\ FailedRow(rec).res = rec.res /\ id \in 0 .. MaxLeases
      /\ FailedRow(rec).released = row[r].released
  BY RowEdits, Unchains DEF Kept3
<1>2. Elsewhere(r) /\ ChainTypes(r) /\ IntentMoves(r)
  BY <1>1, Unchains, SameFacts, StillFacts
     DEF Decides, Elsewhere, ChainTypes, IntentMoves
<1>3. RowMoves(r)
  BY <1>0, <1>1, NewRows DEF Decides, RowMoves, Active, ActiveStates
<1>4. ChainMoves(r)
  <2>1. CASE id = NoId
    BY <1>1, <2>1 DEF Decides, ChainMoves, Idle, CleansUp
  <2>2. CASE id # NoId
    <3>1. chain'[r] = AwaitFrame(id, "cleanup") /\ chain'[r].pc = "release"
          /\ chain'[r].id = id /\ CleansUp(chain'[r])
      BY <1>0, <1>1, <2>2, AwaitFrames DEF Decides, CleansUp
    <3>2. UNCHANGED lease
      BY DEF Still
    <3> QED
      BY <3>1, <3>2 DEF ChainMoves
  <2> QED
    BY <2>1, <2>2
<1> QED
  BY <1>2, <1>3, <1>4, StillFacts DEF ChainEffect

\* A step that reads, or edits the row and goes on.
Edited(r, rec) == row'[r] = IF row[r] = NoRow THEN NoRow ELSE rec

LEMMA EditEffect ==
  ASSUME Types, NEW r \in Ids, NEW rec, NEW f \in ChainFrames,
         Carries(r, rec), Working(r), Put(r, rec), ChainGoes(r, f),
         UNCHANGED intent, ChainFrame, UNCHANGED lease,
         f.pc \in {"idle", "register", "jit", "control", "start", "lookup"},
         f.pc = "register" =>
           chain[r].pc = "reserved" /\ rec.res = chain[r].id,
         f.pc = "jit" => chain[r].pc = "register" /\ rec.res = row[r].res,
         f.pc = "control" =>
           /\ f.copy.res = f.id /\ rec.res = f.id
           /\ \/ chain[r].pc = "reserved" /\ f.id = chain[r].id
              \/ chain[r].pc = "jit" /\ f.id = row[r].res
  PROVE  /\ RowMoves(r) /\ ChainMoves(r) /\ LedgerMoves(r) /\ IntentMoves(r)
         /\ SendMoves(r) /\ OnlyAt(r, run, run')
            /\ run'[r] \in [Deliveries -> RunType] => ChainEffect(r)
<1>1. OnlyAt(r, row, row') /\ row'[r] \in RowType /\ Edited(r, rec)
  BY PutFacts, Unchains DEF Carries, Edited
<1>2. OnlyAt(r, chain, chain') /\ chain'[r] = f
  BY GoesFacts, Unchains
<1>3. RowMoves(r)
  BY <1>1, <1>2, NewRows
     DEF Edited, RowMoves, Carries, Active, ActiveStates
<1>4. ChainMoves(r)
  <2>1. ~CleansUp(f)
    BY DEF CleansUp
  <2>2. row[r].state # "absent" => row'[r] = rec
    BY <1>1, NewRows DEF Edited
  <2> QED
    BY <1>2, <2>1, <2>2 DEF ChainMoves, Carries
<1>5. LedgerMoves(r) /\ IntentMoves(r)
  BY DEF LedgerMoves, IntentMoves, ChainFrame
<1>6. ASSUME SendMoves(r), OnlyAt(r, run, run'),
             run'[r] \in [Deliveries -> RunType]
      PROVE  ChainEffect(r)
  <2>1. Elsewhere(r)
    BY <1>1, <1>2, <1>6, Unchains, SameFacts
       DEF Elsewhere, ChainFrame, OnlyAt
  <2>2. ChainTypes(r)
    BY <1>1, <1>2, <1>6, Unchains DEF ChainTypes, ChainFrame
  <2> QED
    BY <1>3, <1>4, <1>5, <1>6, <2>1, <2>2 DEF ChainEffect
<1> QED
  BY <1>3, <1>4, <1>5, <1>6

\* A step that ends the chain with a decided row.
LEMMA EndEffect ==
  ASSUME Types, NEW r \in Ids, NEW rec \in RowType, Working(r), Put(r, rec),
         rec.state = "started", Recorded(r, row[r].del),
         rec.del = row[r].del, rec.res = row[r].res,
         rec.released = row[r].released,
         ChainEnds(r), UNCHANGED intent, Still
  PROVE  ChainEffect(r)
<1>1. OnlyAt(r, row, row') /\ row'[r] \in RowType /\ Edited(r, rec)
  BY PutFacts, Unchains DEF Edited
<1>2. OnlyAt(r, chain, chain') /\ chain'[r] = Idle /\ Idle \in ChainFrames
  <2>1. Idle \in ChainFrames
    BY DEF ChainFrames
  <2> QED
    BY <2>1, GoesFacts, Unchains DEF ChainEnds
<1>3. RowMoves(r)
  BY <1>1, NewRows DEF Edited, RowMoves, Active, ActiveStates
<1>4. ChainMoves(r)
  BY <1>2 DEF ChainMoves, Idle, CleansUp
<1>5. Elsewhere(r) /\ ChainTypes(r) /\ IntentMoves(r)
  BY <1>1, <1>2, StillFacts, Unchains, SameFacts
     DEF Elsewhere, ChainTypes, IntentMoves
<1> QED
  BY <1>3, <1>4, <1>5, StillFacts DEF ChainEffect

\* The row of a chain, and what its copy holds
LEMMA SameRow ==
  ASSUME Types, NEW r \in Ids
  PROVE  /\ Carries(r, row[r]) /\ HasId(r, row[r], row[r].res)
         /\ HasId(r, row[r], NoId)
BY Unchains, ConstantTypes DEF Carries, HasId, NoId

LEMMA CopyFacts ==
  ASSUME Types, NEW r \in Ids
  PROVE  /\ chain[r].pc \in {"permit", "reserved", "control"}
              => /\ chain[r].copy \in RowType
                 /\ chain[r].copy.state \in ActiveStates
                 /\ chain[r].copy.res \in 0 .. MaxLeases
                 /\ HasId(r, row[r], chain[r].copy.res)
         /\ chain[r].pc \in {"reserved", "control"}
              => chain[r].id \in 0 .. MaxLeases
         /\ chain[r].pc \in {"permit", "reserved", "register", "jit",
                             "control", "start", "lookup"} => Working(r)
<1>1. chain[r].pc \in {"permit", "reserved", "control"}
        => /\ chain[r].copy \in RowType
           /\ chain[r].copy.state \in ActiveStates
           /\ chain[r].copy.res \in 0 .. MaxLeases
  BY Unchains, ChainFrameFacts DEF RowType
<1>2. chain[r].pc \in {"permit", "reserved", "register", "jit", "control",
                      "start", "lookup"} => Working(r)
  BY DEF Working, CleansUp, Idle
<1> QED
  BY <1>1, <1>2, Unchains, ChainFrameFacts DEF HasId

-----------------------------------------------------------------------------
(***************************************************************************)
(* Every step of a chain has such an effect.                               *)
(***************************************************************************)
\* A step that writes neither the row nor the intent
LEMMA ReadEffect ==
  ASSUME Types, NEW r \in Ids, NEW f \in ChainFrames, UNCHANGED <<row, intent>>,
         ChainGoes(r, f), Elsewhere(r), LedgerMoves(r), UNCHANGED run,
         lease'[r] \in [id : 0 .. MaxLeases, used : BOOLEAN],
         drawn'[r] \in 0 .. MaxLeases, ChainMoves(r)
  PROVE  ChainEffect(r)
<1>1. chain'[r] = f
  BY GoesFacts, Unchains
<1>2. ChainTypes(r)
  BY <1>1, Unchains DEF ChainTypes
<1>3. RowMoves(r) /\ SendMoves(r) /\ IntentMoves(r)
  BY DEF RowMoves, SendMoves, IntentMoves, Active
<1> QED
  BY <1>2, <1>3 DEF ChainEffect

LEMMA DispatchOneEffect ==
  ASSUME Types, NEW r \in Ids, DispatchOne(r)
  PROVE  ChainEffect(r)
<1>1. Active(r) /\ chain[r] = Idle
  BY DEF DispatchOne, Free
<1>2. UNCHANGED <<lease, drawn, run>> /\ Still
  BY DEF DispatchOne, Still, ChainFrame, world
<1>3. CASE IsCancelled(r) /\ CancelDispatch(r, row[r], row[r].res)
  BY <1>1, <1>2, <1>3, SameRow, CancelEffect
<1>4. CASE FailDispatch(r, row[r], row[r].res)
  BY <1>1, <1>2, <1>4, SameRow, FailEffect
<1>5. CASE /\ ChainGoes(r, [pc |-> "permit", copy |-> row[r]])
           /\ UNCHANGED <<row, intent>>
  <2> DEFINE f == [pc |-> "permit", copy |-> row[r]]
  <2>1. f \in ChainFrames
    BY <1>1, Unchains DEF ChainFrames, ActiveRow, Active
  <2>2. chain'[r] = f /\ OnlyAt(r, chain, chain')
    BY <1>5, <2>1, GoesFacts, Unchains
  <2>3. Elsewhere(r) /\ LedgerMoves(r)
    BY <1>2, <1>5, <2>2, StillFacts, SameFacts, Unchains DEF Elsewhere
  <2>4. ChainMoves(r)
    BY <1>1, <1>2, <1>5, <2>2 DEF ChainMoves, CleansUp
  <2> QED
    BY <1>2, <1>5, <2>1, <2>3, <2>4, StillFacts, ReadEffect
<1> QED
  BY <1>3, <1>4, <1>5 DEF DispatchOne

LEMMA LedgerReservesEffect ==
  ASSUME Types, NEW r \in Ids, LedgerReserves(r)
  PROVE  ChainEffect(r)
<1> DEFINE f == [pc |-> "reserved", copy |-> chain[r].copy, id |-> lease'[r].id]
<1>1. /\ chain[r].pc = "permit" /\ ChainGoes(r, f)
      /\ chain[r].copy \in RowType /\ chain[r].copy.state \in ActiveStates
      /\ Working(r) /\ UNCHANGED <<row, intent, run>>
  BY CopyFacts DEF LedgerReserves, tables
<1>2. /\ OnlyAt(r, lease, lease') /\ OnlyAt(r, drawn, drawn')
      /\ lease'[r] \in [id : 0 .. MaxLeases, used : BOOLEAN]
      /\ drawn'[r] \in 0 .. MaxLeases
      /\ LedgerMoves(r) /\ lease'[r] # NoLease
  <2>1. CASE lease[r] # NoLease /\ UNCHANGED <<lease, drawn>>
    BY <2>1, Unchains DEF OnlyAt, LedgerMoves
  <2>2. CASE /\ lease[r] = NoLease /\ ~Late(r) /\ drawn[r] + drains < MaxLeases
             /\ drawn' = [drawn EXCEPT ![r] = @ + 1]
             /\ lease' = [lease EXCEPT ![r] = [id |-> drawn'[r], used |-> FALSE]]
    <3>1. drawn[r] + 1 \in 1 .. MaxLeases
      BY <2>2, Unchains, ConstantTypes DEF Types, FramesOK
    <3>2. drawn'[r] = drawn[r] + 1 /\ OnlyAt(r, drawn, drawn')
      BY <2>2, Unchains DEF OnlyAt
    <3>3. /\ lease'[r] = [id |-> drawn[r] + 1, used |-> FALSE]
          /\ OnlyAt(r, lease, lease')
      BY <2>2, <3>2, Unchains DEF OnlyAt
    <3>4. lease'[r] # NoLease
      BY <3>1, <3>3, ConstantTypes DEF NoLease, NoId
    <3> QED
      BY <1>1, <2>2, <3>1, <3>2, <3>3, <3>4, ConstantTypes DEF LedgerMoves
  <2> QED
    BY <2>1, <2>2 DEF LedgerReserves
<1>3. f \in ChainFrames
  BY <1>1, <1>2 DEF ChainFrames, ActiveRow
<1>4. chain'[r] = f /\ OnlyAt(r, chain, chain')
  BY <1>1, <1>3, GoesFacts, Unchains
<1>5. Elsewhere(r)
  BY <1>1, <1>2, <1>4, SameFacts, Unchains
     DEF Elsewhere, LedgerReserves, tables, OnlyAt
<1>6. ChainMoves(r)
  BY <1>1, <1>2, <1>4 DEF ChainMoves, CleansUp
<1> QED
  BY <1>1, <1>2, <1>3, <1>5, <1>6, ReadEffect

LEMMA ReservedEffect ==
  ASSUME Types, NEW r \in Ids, Reserved(r)
  PROVE  ChainEffect(r)
<1> DEFINE copy == chain[r].copy
           id   == chain[r].id
           rec  == [row[r] EXCEPT !.state = IF copy.state = "pending"
                                              THEN "reserved" ELSE copy.state,
                                  !.res = id]
           change == copy.state # "pending" /\ copy.res \notin {NoId, id}
<1>1. /\ chain[r].pc = "reserved" /\ Working(r) /\ copy \in RowType
      /\ copy.state \in ActiveStates /\ copy.res \in 0 .. MaxLeases
      /\ id \in 0 .. MaxLeases /\ HasId(r, row[r], copy.res) /\ Still
  BY CopyFacts DEF Reserved, Still
<1>2. /\ rec \in RowType /\ rec.state \in ActiveStates /\ rec.res = id
      /\ rec.del = row[r].del /\ rec.released = row[r].released
  BY <1>1, Unchains DEF RowType, ActiveStates
<1>3. Carries(r, rec) /\ HasId(r, rec, copy.res) /\ HasId(r, rec, id)
  BY <1>1, <1>2 DEF Carries, HasId
<1> HIDE DEF rec
<1>4. CASE FailDispatch(r, rec, copy.res)
  BY <1>1, <1>3, <1>4, FailEffect
<1>5. CASE CancelDispatch(r, rec, id)
  BY <1>1, <1>3, <1>5, CancelEffect
<1>6. CASE FailDispatch(r, rec, id)
  BY <1>1, <1>3, <1>6, FailEffect
<1>7. CASE /\ Put(r, [rec EXCEPT !.named = TRUE])
           /\ ChainGoes(r, [pc |-> "register"]) /\ UNCHANGED intent
  <2>1. /\ [rec EXCEPT !.named = TRUE] \in RowType
        /\ [rec EXCEPT !.named = TRUE].state = rec.state
        /\ [rec EXCEPT !.named = TRUE].res = rec.res
        /\ [rec EXCEPT !.named = TRUE].del = rec.del
        /\ [rec EXCEPT !.named = TRUE].released = rec.released
    BY <1>2 DEF RowType
  <2>2. Carries(r, [rec EXCEPT !.named = TRUE])
    BY <1>1, <1>2, <2>1 DEF Carries
  <2>3. [pc |-> "register"] \in ChainFrames
    BY DEF ChainFrames
  <2> QED
    BY <1>1, <1>2, <1>7, <2>1, <2>2, <2>3, EditEffect, StillFacts DEF Still
<1>8. CASE /\ Put(r, rec) /\ UNCHANGED intent
           /\ ChainGoes(r, [pc |-> "control", copy |-> rec, id |-> id])
  <2>1. [pc |-> "control", copy |-> rec, id |-> id] \in ChainFrames
    BY <1>1, <1>2 DEF ChainFrames, ActiveRow
  <2> QED
    BY <1>1, <1>2, <1>3, <1>8, <2>1, EditEffect, StillFacts DEF Still
<1> QED
  BY <1>1, <1>4, <1>5, <1>6, <1>7, <1>8 DEF Reserved, rec

LEMMA PrepareEffect ==
  ASSUME Types, NEW r \in Ids,
         \/ PermitRefused(r) \/ ReserveFails(r) \/ RegistrationBusy(r)
         \/ RegistrationAbsent(r) \/ JitMismatch(r) \/ GateClosed(r)
  PROVE  ChainEffect(r)
<1>1. CASE PermitRefused(r) \/ ReserveFails(r) \/ GateClosed(r)
  <2>1. /\ FailDispatch(r, row[r], chain[r].copy.res) /\ Still
        /\ chain[r].pc \in {"permit", "reserved", "control"}
    BY <1>1 DEF PermitRefused, ReserveFails, GateClosed, Still
  <2> QED
    BY <2>1, SameRow, CopyFacts, FailEffect
<1>2. CASE RegistrationBusy(r) \/ JitMismatch(r)
  <2>1. /\ FailDispatch(r, row[r], row[r].res) /\ Still
        /\ chain[r].pc \in {"register", "jit"}
    BY <1>2 DEF RegistrationBusy, JitMismatch, Still
  <2> QED
    BY <2>1, SameRow, CopyFacts, FailEffect
<1>3. CASE RegistrationAbsent(r)
  <2>1. Still /\ chain[r].pc = "register" /\ Working(r)
    BY <1>3, CopyFacts DEF RegistrationAbsent, Still
  <2>2. CASE CancelDispatch(r, row[r], row[r].res)
    BY <2>1, <2>2, SameRow, CancelEffect
  <2>3. CASE /\ Put(r, [row[r] EXCEPT !.state = "jit-requested"])
             /\ ChainGoes(r, [pc |-> "jit"]) /\ UNCHANGED intent
    <3> DEFINE rec == [row[r] EXCEPT !.state = "jit-requested"]
    <3>1. Carries(r, rec) /\ rec.res = row[r].res
      BY Unchains DEF Carries, RowType, ActiveStates
    <3>2. [pc |-> "jit"] \in ChainFrames
      BY DEF ChainFrames
    <3> HIDE DEF rec
    <3> QED
      BY <2>1, <2>3, <3>1, <3>2, EditEffect, StillFacts DEF Still, rec
  <2> QED
    BY <1>3, <2>2, <2>3 DEF RegistrationAbsent
<1> QED
  BY <1>1, <1>2, <1>3

LEMMA JitGeneratedEffect ==
  ASSUME Types, NEW r \in Ids, JitGenerated(r)
  PROVE  ChainEffect(r)
<1> DEFINE rec == [row[r] EXCEPT !.state = "jit-ready", !.jit = TRUE]
<1>1. Still /\ chain[r].pc = "jit" /\ Working(r)
  BY CopyFacts DEF JitGenerated, Still
<1>2. /\ Carries(r, rec) /\ rec.res = row[r].res /\ rec.state \in ActiveStates
      /\ rec \in RowType /\ rec.res \in 0 .. MaxLeases
  <2>1. "jit-ready" \in RowStates /\ "jit-ready" \in ActiveStates
        /\ TRUE \in BOOLEAN
    BY DEF RowStates, ActiveStates
  <2>2. /\ rec \in RowType /\ rec.state = "jit-ready"
        /\ rec.res = row[r].res /\ rec.del = row[r].del
        /\ rec.released = row[r].released
    BY <2>1, Unchains DEF RowType, RowStates
  <2> HIDE DEF rec
  <2> QED
    BY <2>1, <2>2, Unchains DEF Carries
<1>3. HasId(r, rec, rec.res)
  BY <1>2 DEF HasId
<1> HIDE DEF rec
<1>4. CASE CancelDispatch(r, rec, rec.res)
  BY <1>1, <1>2, <1>3, <1>4, CancelEffect
<1>5. CASE FailDispatch(r, rec, rec.res)
  BY <1>1, <1>2, <1>3, <1>5, FailEffect
<1>6. CASE /\ Put(r, rec) /\ UNCHANGED intent
           /\ ChainGoes(r, [pc |-> "control", copy |-> rec, id |-> rec.res])
  <2>1. [pc |-> "control", copy |-> rec, id |-> rec.res] \in ChainFrames
    BY <1>2 DEF ChainFrames, ActiveRow
  <2> QED
    BY <1>1, <1>2, <1>6, <2>1, EditEffect, StillFacts DEF Still
<1> QED
  BY <1>4, <1>5, <1>6 DEF JitGenerated, rec

LEMMA IssueStartEffect ==
  ASSUME Types, NEW r \in Ids, IssueStart(r)
  PROVE  ChainEffect(r)
<1> DEFINE copy == chain[r].copy
           rec  == [row[r] EXCEPT !.state = "start-requested"]
<1>1. /\ chain[r].pc = "control" /\ Working(r) /\ ChainFrame
      /\ UNCHANGED lease /\ HasId(r, row[r], copy.res)
      /\ chain[r].id \in 0 .. MaxLeases
  BY CopyFacts DEF IssueStart
<1>2. CASE CancelDispatch(r, row[r], copy.res) /\ UNCHANGED run
  BY <1>1, <1>2, SameRow, CancelEffect DEF Still
<1>3. CASE FailDispatch(r, row[r], copy.res) /\ UNCHANGED run
  BY <1>1, <1>3, SameRow, FailEffect DEF Still
<1>4. CASE /\ ChainGoes(r, [pc |-> "lookup", after |-> "missing"])
           /\ UNCHANGED <<intent, row, run>>
  <2> DEFINE f == [pc |-> "lookup", after |-> "missing"]
  <2>1. f \in ChainFrames
    BY DEF ChainFrames
  <2>2. chain'[r] = f /\ OnlyAt(r, chain, chain') /\ Still
    BY <1>1, <1>4, <2>1, GoesFacts, Unchains DEF Still
  <2>3. Elsewhere(r) /\ LedgerMoves(r)
    BY <1>4, <2>2, StillFacts, SameFacts, Unchains DEF Elsewhere
  <2>4. ChainMoves(r)
    BY <1>1, <1>4, <2>2 DEF ChainMoves, CleansUp
  <2> QED
    BY <1>4, <2>1, <2>2, <2>3, <2>4, StillFacts, ReadEffect
<1>5. CASE /\ ~IsCancelled(r) /\ ~Late(r) /\ Put(r, rec)
           /\ Send(r, row[r].del, chain[r].id)
           /\ ChainGoes(r, [pc |-> "start"]) /\ UNCHANGED intent
  <2> DEFINE del == row[r].del
             flying == [state |-> "flying", res |-> chain[r].id]
  <2>1. Carries(r, rec)
    BY Unchains DEF Carries, RowType, ActiveStates
  <2>2. [pc |-> "start"] \in ChainFrames
    BY DEF ChainFrames
  <2> HIDE DEF rec
  <2>3. RowMoves(r) /\ chain'[r].pc = "start" /\ row'[r].del = row[r].del
    <3>1. RowMoves(r) /\ chain'[r].pc = "start"
      <4>1. RowMoves(r)
        BY <1>1, <1>5, <2>1, <2>2, EditEffect
      <4>2. chain'[r] = [pc |-> "start"]
        BY <1>5, <2>2, GoesFacts, Unchains
      <4> QED
        BY <4>1, <4>2
    <3>2. row'[r] \in {NoRow, rec} /\ (row[r] = NoRow => row'[r] = row[r])
          /\ (row[r] # NoRow => row'[r] = rec)
      BY <1>5, <2>1, PutFacts, Unchains, <3>1 DEF RowMoves, Carries
    <3> QED
      BY <2>1, <3>1, <3>2 DEF Carries
  <2>4. flying \in RunType
    BY <1>1 DEF RunType
  <2>5. SendMoves(r) /\ OnlyAt(r, run, run') /\ run'[r] \in [Deliveries -> RunType]
    <3>1. del \in Deliveries /\ run \in [Ids -> [Deliveries -> RunType]]
      BY Unchains
    <3>2. CASE run[r][del].state \in {"none", "refused"}
      <4>1. run' = [run EXCEPT ![r][del] = flying]
        BY <1>5, <3>2 DEF Send
      <4>2. OnlyAt(r, run, run') /\ run'[r] \in [Deliveries -> RunType]
        BY <2>4, <3>1, <4>1 DEF OnlyAt
      <4> QED
        BY <1>1, <1>5, <2>3, <3>2, <4>1, <4>2 DEF SendMoves, ChainFrame
    <3>3. CASE run[r][del].state \notin {"none", "refused"}
      <4>1. run' = [run EXCEPT ![r][del] = run[r][del]]
        BY <1>5, <3>3 DEF Send
      <4>2. UNCHANGED run
        BY <3>1, <4>1
      <4> QED
        BY <3>1, <4>2 DEF OnlyAt, SendMoves
    <3> QED
      BY <3>2, <3>3
  <2> QED
    BY <1>1, <1>5, <2>1, <2>2, <2>5, EditEffect
<1> QED
  BY <1>2, <1>3, <1>4, <1>5 DEF IssueStart, rec

LEMMA StartEffect ==
  ASSUME Types, NEW r \in Ids,
         \/ Started(r) \/ StartRefused(r) \/ StartAmbiguous(r)
         \/ StartAbsent(r) \/ StartFound(r)
  PROVE  ChainEffect(r)
<1>1. Still /\ chain[r].pc \in {"start", "lookup"} /\ Working(r)
  BY CopyFacts
     DEF Started, StartRefused, StartAmbiguous, StartAbsent, StartFound, Still
<1>2. CASE Started(r)
  <2> DEFINE rec == [StartedRow(row[r]) EXCEPT !.spawned = TRUE]
  <2>1. /\ rec \in RowType /\ rec.state = "started" /\ rec.del = row[r].del
        /\ rec.res = row[r].res /\ rec.released = row[r].released
    <3>1. /\ StartedRow(row[r]) \in RowType
          /\ StartedRow(row[r]).state = "started"
          /\ Kept3(StartedRow(row[r]), row[r])
      BY RowEdits, Unchains
    <3> HIDE DEF StartedRow
    <3> QED
      BY <3>1 DEF RowType, Kept3
  <2> HIDE DEF rec
  <2>2. CASE DeadlineExceeded(r, rec)
    BY <1>1, <1>2, <2>1, <2>2, DeadlineEffect DEF Started
  <2>3. CASE Put(r, rec) /\ ChainEnds(r) /\ UNCHANGED intent
    BY <1>1, <1>2, <2>1, <2>3, EndEffect DEF Started
  <2> QED
    BY <1>2, <2>2, <2>3 DEF Started, rec
<1>3. CASE StartFound(r)
  <2> DEFINE rec == StartedRow(row[r])
  <2>1. /\ rec \in RowType /\ rec.state = "started" /\ rec.del = row[r].del
        /\ rec.res = row[r].res /\ rec.released = row[r].released
    BY RowEdits, Unchains DEF Kept3
  <2> HIDE DEF rec
  <2>2. CASE DeadlineExceeded(r, rec)
    BY <1>1, <1>3, <2>1, <2>2, DeadlineEffect DEF StartFound
  <2>3. CASE Put(r, rec) /\ ChainEnds(r) /\ UNCHANGED intent
    BY <1>1, <1>3, <2>1, <2>3, EndEffect DEF StartFound
  <2> QED
    BY <1>3, <2>2, <2>3 DEF StartFound, rec
<1>4. CASE StartRefused(r) \/ StartAmbiguous(r)
  <2> DEFINE rec == [row[r] EXCEPT !.jit = FALSE]
  <2>1. /\ Carries(r, rec) /\ rec.res = row[r].res
    BY Unchains DEF Carries, RowType
  <2>2. HasId(r, rec, row[r].res)
    BY SameRow DEF HasId
  <2> HIDE DEF rec
  <2>3. CASE StartRefused(r)
    BY <1>1, <2>1, <2>2, <2>3, FailEffect DEF StartRefused, rec
  <2>4. CASE StartAmbiguous(r)
    <3>1. [pc |-> "lookup", after |-> "ambiguous"] \in ChainFrames
      BY DEF ChainFrames
    <3>2. /\ Put(r, rec) /\ UNCHANGED intent
          /\ ChainGoes(r, [pc |-> "lookup", after |-> "ambiguous"])
      BY <2>4 DEF StartAmbiguous, rec
    <3> QED
      BY <1>1, <2>1, <3>1, <3>2, EditEffect, StillFacts DEF Still
  <2> QED
    BY <1>4, <2>3, <2>4
<1>5. CASE StartAbsent(r)
  BY <1>1, <1>5, SameRow, FailEffect DEF StartAbsent
<1> QED
  BY <1>2, <1>3, <1>4, <1>5

LEMMA ReleaseEffect ==
  ASSUME Types, NEW r \in Ids,
         \/ ReleaseAtLedger(r) \/ ChainThrows(r) \/ JitAmbiguous(r)
  PROVE  ChainEffect(r)
<1>1. CASE ReleaseAtLedger(r)
  <2> DEFINE f == [chain[r] EXCEPT !.pc = "released"]
  <2>0. /\ chain[r].pc = "release" /\ ChainGoes(r, f) /\ LedgerEnds(r, chain[r].id)
        /\ ChainFrame /\ UNCHANGED <<intent, row, run>>
    BY <1>1 DEF ReleaseAtLedger
  <2>1. chain[r] \in [pc : Releases, id : LeaseIds,
                      after : {"cancelled", "failed", "cleanup"}]
    BY <2>0, Unchains, ChainFrameFacts DEF Releases
  <2>2. /\ f \in ChainFrames /\ f.pc = "released" /\ f.id = chain[r].id
        /\ f.after = chain[r].after
    BY <2>1 DEF ChainFrames, Releases
  <2>3. chain'[r] = f /\ OnlyAt(r, chain, chain')
    BY <2>0, <2>2, GoesFacts, Unchains
  <2>4. /\ OnlyAt(r, lease, lease')
        /\ lease'[r] \in [id : 0 .. MaxLeases, used : BOOLEAN]
        /\ lease'[r] = IF lease[r].id = f.id THEN NoLease ELSE lease[r]
    <3>1. NoLease \in [id : 0 .. MaxLeases, used : BOOLEAN]
      BY ConstantTypes DEF NoLease, NoId
    <3> QED
      BY <2>0, <2>2, <3>1, Unchains DEF LedgerEnds, OnlyAt
  <2>5. Elsewhere(r) /\ LedgerMoves(r)
    BY <2>0, <2>3, <2>4, SameFacts, Unchains
       DEF Elsewhere, ChainFrame, LedgerMoves, OnlyAt
  <2>6. lease'[r].id = IF lease[r].id = f.id THEN NoId ELSE lease[r].id
    BY <2>4 DEF NoLease
  <2>7. ChainMoves(r)
    <3>1. CleansUp(f) <=> CleansUp(chain[r])
      BY <2>0, <2>2 DEF CleansUp
    <3>2. Working(r) \/ CleansUp(f)
      BY <2>0, <3>1 DEF Working, Idle
    <3> HIDE DEF f
    <3> QED
      BY <2>0, <2>2, <2>3, <2>6, <3>1, <3>2 DEF ChainMoves
  <2> QED
    BY <2>0, <2>2, <2>4, <2>5, <2>7, Unchains, ReadEffect DEF ChainFrame
<1>2. CASE ChainThrows(r) \/ JitAmbiguous(r)
  <2>0. ChainGoes(r, Idle) /\ Still /\ UNCHANGED <<intent, row>>
    BY <1>2 DEF ChainThrows, JitAmbiguous, ChainEnds, Still
  <2>1. Idle \in ChainFrames
    BY DEF ChainFrames
  <2>2. chain'[r] = Idle /\ OnlyAt(r, chain, chain')
    BY <2>0, <2>1, GoesFacts, Unchains
  <2>3. Elsewhere(r) /\ LedgerMoves(r)
    BY <2>0, <2>2, StillFacts, SameFacts, Unchains DEF Elsewhere
  <2>4. ChainMoves(r)
    BY <2>2 DEF ChainMoves, CleansUp, Idle
  <2> QED
    BY <2>0, <2>1, <2>3, <2>4, StillFacts, ReadEffect
<1> QED
  BY <1>1, <1>2

LEMMA ReleasedEffect ==
  ASSUME Types, NEW r \in Ids, Released(r)
  PROVE  ChainEffect(r)
<1> DEFINE marked == [row[r] EXCEPT !.released = TRUE]
           after  == chain[r].after
           rec == CASE after = "cancelled" -> CancelledRow(marked)
                    [] after = "failed"    -> FailedRow(marked)
                    [] after = "cleanup"   -> marked
<1>1. /\ chain[r].pc = "released" /\ Still /\ chain[r] # Idle
      /\ after \in {"cancelled", "failed", "cleanup"}
      /\ Put(r, rec) /\ ChainGoes(r, Idle)
      /\ IF after = "cancelled" THEN IntentCancelled(r) ELSE UNCHANGED intent
  BY Unchains, ChainFrameFacts DEF Released, ChainEnds, Still, Releases, Idle
<1>2. /\ marked \in RowType /\ marked.state = row[r].state
      /\ marked.res = row[r].res /\ marked.del = row[r].del
  BY Unchains DEF RowType
<1> HIDE DEF marked
<1>3. /\ rec \in RowType /\ rec.res = row[r].res /\ rec.del = row[r].del
      /\ after = "cancelled" => rec.state = "cancelled"
      /\ after = "failed" => rec.state = "failed"
      /\ after = "cleanup" => rec.state = row[r].state
  BY <1>1, <1>2, RowEdits DEF Kept3
<1> HIDE DEF rec
<1>4. OnlyAt(r, row, row') /\ row'[r] \in RowType /\ Edited(r, rec)
  BY <1>1, <1>3, PutFacts, Unchains DEF Edited
<1>5. chain'[r] = Idle /\ OnlyAt(r, chain, chain') /\ Idle \in ChainFrames
  <2>1. Idle \in ChainFrames
    BY DEF ChainFrames
  <2> QED
    BY <1>1, <2>1, GoesFacts, Unchains
<1>6. RowMoves(r)
  <2>1. after = "cleanup" => CleansUp(chain[r])
    BY <1>1 DEF CleansUp
  <2>2. row'[r].state \in ActiveStates
          => after = "cleanup" /\ row[r].state \in ActiveStates
    BY <1>1, <1>3, <1>4, NewRows DEF Edited, ActiveStates
  <2> QED
    BY <1>1, <1>3, <1>4, <1>5, <2>1, <2>2, NewRows
       DEF Edited, RowMoves, Active
<1>7. ChainMoves(r)
  BY <1>5 DEF ChainMoves, Idle, CleansUp
<1>8. /\ OnlyAt(r, intent, intent') /\ intent'[r] \in IntentType
      /\ IntentMoves(r)
  <2>1. CASE after = "cancelled"
    <3>1. row'[r].state \notin ActiveStates
      BY <1>3, <1>4, <2>1, NewRows DEF Edited, ActiveStates
    <3>2. Working(r)
      BY <1>1, <2>1 DEF Working, CleansUp
    <3> QED
      BY <1>1, <2>1, <3>1, <3>2, IntentCancelledFacts, Unchains
         DEF IntentMoves
  <2>2. CASE after # "cancelled"
    BY <1>1, <2>2, SameFacts, Unchains DEF IntentMoves
  <2> QED
    BY <2>1, <2>2
<1>9. Elsewhere(r) /\ ChainTypes(r)
  BY <1>1, <1>4, <1>5, <1>8, StillFacts DEF Elsewhere, ChainTypes
<1> QED
  BY <1>1, <1>6, <1>7, <1>8, <1>9, StillFacts DEF ChainEffect

LEMMA ChainHasEffect ==
  ASSUME Types, NEW r \in Ids, ChainStep(r) \/ DispatchOne(r)
  PROVE  ChainEffect(r)
BY DispatchOneEffect, LedgerReservesEffect, ReservedEffect, PrepareEffect,
   JitGeneratedEffect, IssueStartEffect, StartEffect, ReleaseEffect,
   ReleasedEffect DEF ChainStep

-----------------------------------------------------------------------------
(***************************************************************************)
(* A request that a step does not touch, or only the Worker's answers and  *)
(* the clocks do, keeps its invariants.                                    *)
(***************************************************************************)
SameLease(q) ==
  \/ lease'[q] \in {lease[q], NoLease}
  \/ lease[q] # NoLease /\ lease'[q].id = lease[q].id

Harmless(q) ==
  /\ chain'[q] = chain[q] /\ intent'[q] = intent[q] /\ drawn'[q] = drawn[q]
  /\ Kept3(row'[q], row[q]) /\ row'[q].state = row[q].state
  /\ row'[q] = NoRow <=> row[q] = NoRow
  /\ q \in cancelled' <=> q \in cancelled
  /\ Late(q) => Late(q)'
  /\ age'[q] = "unborn" => age[q] = "unborn"
  /\ SameLease(q)
  /\ \A d \in Deliveries : /\ run'[q][d].res = run[q][d].res
                           /\ Recorded(q, d) => Recorded(q, d)'
  /\ UNCHANGED loop \/ (~LoopReleasing(q)' /\ ~Acquiring(q)')
  /\ UNCHANGED drain \/ ~DrainReleasing(q)'
  /\ Deleting(q)' => Deleting(q)

LEMMA SameRecords ==
  ASSUME NEW q, run'[q] = run[q]
  PROVE  /\ \A d : Recorded(q, d)' <=> Recorded(q, d)
         /\ Unrecorded(q)' <=> Unrecorded(q)
         /\ \A d : Alone(q, d)' <=> Alone(q, d)
<1>1. \A d : Recorded(q, d)' <=> Recorded(q, d)
  BY DEF Recorded
<1> QED
  BY <1>1 DEF Unrecorded, Alone

LEMMA Untouched ==
  ASSUME Types, NEW q \in Ids, Harmless(q)
  PROVE  /\ Always(q) => Always(q)'
         /\ Undisturbed(q) => Undisturbed(q)'
<1>1. /\ \A d \in Deliveries : Recorded(q, d) => Recorded(q, d)'
      /\ Unrecorded(q)' => Unrecorded(q)
      /\ \A d \in Deliveries : Alone(q, d)' => Alone(q, d)
      /\ IsCancelled(q)' <=> IsCancelled(q)
      /\ Active(q)' <=> Active(q)
      /\ Late(q) => Late(q)'
  BY DEF Harmless, IsCancelled, Active, Unrecorded, Alone
<1>2. /\ CleansUp(chain[q])' <=> CleansUp(chain[q])
      /\ ChainReleasing(q)' <=> ChainReleasing(q)
      /\ LoopReleasing(q)' => LoopReleasing(q) /\ UNCHANGED loop
      /\ Acquiring(q)' => Acquiring(q)
      /\ DrainReleasing(q)' => DrainReleasing(q) /\ UNCHANGED drain
  BY DEF Harmless, CleansUp, ChainReleasing, LoopReleasing, Acquiring,
         DrainReleasing
<1>3. /\ row'[q].res = row[q].res /\ row'[q].del = row[q].del
      /\ row'[q].released = row[q].released /\ row'[q].state = row[q].state
      /\ row'[q] = NoRow <=> row[q] = NoRow
      /\ chain'[q] = chain[q] /\ intent'[q] = intent[q]
      /\ drawn'[q] = drawn[q] /\ (age'[q] = "unborn" => age[q] = "unborn")
      /\ \A d \in Deliveries : run'[q][d].res = run[q][d].res
  BY DEF Harmless, Kept3
<1>4. /\ lease'[q].id \in {lease[q].id, NoId} /\ NoLease.id = NoId
      /\ lease'[q].id # NoId => lease'[q].id = lease[q].id
      /\ LeaseInv(q) => (lease'[q].id = NoId => lease'[q] = NoLease)
  <2>1. NoLease.id = NoId
    BY DEF NoLease
  <2>2. lease'[q] \in {lease[q], NoLease}
        \/ (lease[q] # NoLease /\ lease'[q].id = lease[q].id)
    BY DEF Harmless, SameLease
  <2>3. LeaseInv(q) => (lease[q].id = NoId => lease[q] = NoLease)
    BY DEF LeaseInv
  <2> QED
    BY <2>1, <2>2, <2>3
<1>5. RowInv(q) => RowInv(q)'
  <2>1. row[q].state = "started" /\ Recorded(q, row[q].del)
          => Recorded(q, row[q].del)'
    BY <1>1, <1>3, Unchains DEF Recorded
  <2> QED
    BY <1>1, <1>3, <2>1 DEF RowInv
<1>6. LeaseInv(q) => LeaseInv(q)'
  <2>1. /\ chain[q].pc \in Releases => chain[q].id # NoId
        /\ LoopReleasing(q) => loop.id # NoId
        /\ DrainReleasing(q) => drain.id # NoId
    <3>1. NoId \notin LeaseIds
      BY ConstantTypes DEF NoId, LeaseIds
    <3> QED
      BY <3>1, Unchains, ChainFrameFacts, LoopFrameFacts, DrainFrameFacts
         DEF Types, FramesOK, LoopReleasing, DrainReleasing
  <2>2. lease'[q].id <= drawn'[q] \/ ~(lease[q].id <= drawn[q])
    BY <1>3, <1>4, Unchains, ConstantTypes DEF NoId
  <2> QED
    BY <1>2, <1>3, <1>4, <2>1, <2>2 DEF LeaseInv, Releases
<1>7. CleanupInv(q) => CleanupInv(q)'
  BY <1>1, <1>2 DEF CleanupInv
<1>8. ChainInv(q) => ChainInv(q)'
  BY <1>1, <1>2, <1>3, <1>4 DEF ChainInv
<1>9. IntentInv(q) => IntentInv(q)'
  BY <1>1, <1>2, <1>3 DEF Harmless, IntentInv, Deleting
<1>10. MarkInv(q) => MarkInv(q)'
  BY <1>1, <1>2, <1>3 DEF MarkInv
<1>11. SentInv(q) => SentInv(q)'
  BY <1>1, <1>2, <1>3, <1>4 DEF SentInv, Sent
<1>12. ShareInv(q) => ShareInv(q)'
  <2>1. Foreign(q, row[q].res) => Foreign(q, row[q].res)'
    BY <1>1, <1>3 DEF Foreign
  <2>2. Foreign(q, chain[q].id) => Foreign(q, chain[q].id)'
    BY <1>1, <1>3 DEF Foreign
  <2> QED
    BY <1>1, <1>3, <2>1, <2>2 DEF ShareInv
<1> QED
  BY <1>5, <1>6, <1>7, <1>8, <1>9, <1>10, <1>11, <1>12
     DEF Always, Undisturbed

\* The requests a step leaves alone, and the one it is about
LEMMA OneRequest ==
  ASSUME Types, RequestsInv, NotResumed' => NotResumed, NEW r,
         \A q \in Ids \ {r} : Harmless(q),
         r \in Ids => Always(r)' /\ (NotResumed => Undisturbed(r)')
  PROVE  RequestsInv'
<1> SUFFICES ASSUME NEW q \in Ids
             PROVE  Always(q)' /\ (NotResumed' => Undisturbed(q)')
  BY DEF RequestsInv
<1>1. CASE q = r
  BY <1>1
<1>2. CASE q # r
  BY <1>2, Untouched DEF RequestsInv
<1> QED
  BY <1>1, <1>2

LEMMA NoRequest ==
  ASSUME Types, RequestsInv, NotResumed' => NotResumed,
         \A q \in Ids : Harmless(q)
  PROVE  RequestsInv'
BY Untouched DEF RequestsInv

\* What a step that keeps a request's tables and calls does to it
LEMMA SameHarmless ==
  ASSUME NEW q, UNCHANGED <<cancelled, age, run>>, chain'[q] = chain[q],
         row'[q] = row[q], intent'[q] = intent[q], drawn'[q] = drawn[q],
         SameLease(q), UNCHANGED loop \/ (~LoopReleasing(q)' /\ ~Acquiring(q)'),
         UNCHANGED drain \/ ~DrainReleasing(q)', Deleting(q)' => Deleting(q)
  PROVE  Harmless(q)
BY DEF Harmless, Kept3, Late, Recorded

-----------------------------------------------------------------------------
(***************************************************************************)
(* The steps of a chain keep the invariant.                                *)
(***************************************************************************)
LEMMA ChainOthers ==
  ASSUME Types, NEW r \in Ids, Elsewhere(r), NEW q \in Ids, q # r
  PROVE  Harmless(q)
BY Unchains
   DEF Elsewhere, OnlyAt, Harmless, SameLease, Kept3, Late, Recorded, Deleting,
       EndOf, Types, DispatchTypeOK, FramesOK

LEMMA ChainKeepsTypes ==
  ASSUME Types, NEW r \in Ids, Elsewhere(r), ChainTypes(r)
  PROVE  Types'
<1>1. /\ chain' \in [Ids -> ChainFrames] /\ row' \in [Ids -> RowType]
      /\ intent' \in [Ids -> IntentType]
      /\ lease' \in [Ids -> [id : 0 .. MaxLeases, used : BOOLEAN]]
      /\ drawn' \in [Ids -> 0 .. MaxLeases]
      /\ run' \in [Ids -> [Deliveries -> RunType]]
  BY Unchains DEF Elsewhere, OnlyAt, ChainTypes, Unchained
<1> QED
  BY <1>1 DEF Types, DispatchTypeOK, FramesOK, QueueOK, Elsewhere

LEMMA ChainKeepsPhases ==
  ASSUME Types, PhaseInv, NEW r \in Ids, ChainEffect(r),
         phase = "working" \/ chain[r] # Idle
  PROVE  PhaseInv'
BY DEF PhaseInv, ChainEffect, Elsewhere, NotResumed, Settling

LEMMA ChainKeepsOrder ==
  ASSUME OrderInv, NEW r \in Ids, Elsewhere(r)
  PROVE  OrderInv'
BY DEF OrderInv, Elsewhere, EndOf

LEMMA ChainKeepsEnds ==
  ASSUME Types, EndInv, NEW r \in Ids, ChainEffect(r)
  PROVE  EndInv'
<1> SUFFICES ASSUME NEW q \in Requests, Ended(q)'
             PROVE  /\ intent'[q].state \notin {"intended", "granted"}
                    /\ ~Acquiring(q)'
                    /\ IsCancelled(q)' \/ (chain'[q] = Idle /\ ~Active(q)')
  BY DEF EndInv
<1>1. q \in Ids
  BY DEF Ids
<1>2. Ended(q) /\ (Acquiring(q)' <=> Acquiring(q))
      /\ (IsCancelled(q)' <=> IsCancelled(q))
  BY DEF ChainEffect, Elsewhere, Ended, EndOf, Acquiring, IsCancelled
<1>3. CASE q # r
  BY <1>1, <1>2, <1>3, ChainOthers
     DEF EndInv, ChainEffect, Harmless, Active
<1>4. CASE q = r
  <2>1. intent'[q].state \in {intent[q].state, "cancelled"}
    BY <1>4, Unchains DEF ChainEffect, IntentMoves, IntentType
  <2>2. IsCancelled(q) \/ (chain'[q] = Idle /\ ~Active(q)')
    <3>1. CASE ~IsCancelled(q)
      <4>1. chain[q] = Idle /\ ~Active(q) /\ ~Working(q)
        BY <1>2, <3>1 DEF EndInv, Working
      <4>2. ~CleansUp(chain[q])
        BY <4>1 DEF Idle, CleansUp
      <4> QED
        BY <1>4, <4>1, <4>2
           DEF ChainEffect, RowMoves, ChainMoves, Active
    <3> QED
      BY <3>1
  <2> QED
    BY <1>2, <2>1, <2>2 DEF EndInv
<1> QED
  BY <1>3, <1>4

LEMMA ChainRecords ==
  ASSUME Types, NEW r \in Ids, ChainEffect(r)
  PROVE  /\ \A d \in Deliveries : Recorded(r, d)' <=> Recorded(r, d)
         /\ Unrecorded(r)' <=> Unrecorded(r)
         /\ \A d \in Deliveries : Alone(r, d)' <=> Alone(r, d)
         /\ IsCancelled(r)' <=> IsCancelled(r)
         /\ Late(r)' <=> Late(r)
         /\ LoopReleasing(r)' <=> LoopReleasing(r)
         /\ DrainReleasing(r)' <=> DrainReleasing(r)
         /\ Acquiring(r)' <=> Acquiring(r)
<1>1. \A d \in Deliveries : Recorded(r, d)' <=> Recorded(r, d)
  <2>1. CASE UNCHANGED run
    BY <2>1 DEF Recorded
  <2>2. CASE /\ run[r][row[r].del].state \in {"none", "refused"}
             /\ run' = [run EXCEPT ![r][row[r].del] =
                          [state |-> "flying", res |-> chain[r].id]]
    BY <2>2, Unchains DEF Recorded
  <2> QED
    BY <2>1, <2>2 DEF ChainEffect, SendMoves
<1>2. /\ IsCancelled(r)' <=> IsCancelled(r)
      /\ Late(r)' <=> Late(r)
      /\ LoopReleasing(r)' <=> LoopReleasing(r)
      /\ DrainReleasing(r)' <=> DrainReleasing(r)
      /\ Acquiring(r)' <=> Acquiring(r)
  BY DEF ChainEffect, Elsewhere, IsCancelled, Late, LoopReleasing,
         DrainReleasing, Acquiring
<1> QED
  BY <1>1, <1>2 DEF Unrecorded, Alone

LEMMA ChainKeepsRow ==
  ASSUME Types, NEW r \in Ids, ChainEffect(r), RowInv(r)
  PROVE  RowInv(r)'
<1>1. row[r].state = "absent" <=> row[r] = NoRow
  BY NewRows DEF RowInv
<1>2. /\ intent'[r].state \in {intent[r].state, "cancelled"}
      /\ intent'[r].state = "none" => intent'[r] = NoIntent
  BY Unchains DEF ChainEffect, IntentMoves, IntentType, RowInv
<1>3. row'[r].state = "absent" => row'[r] = NoRow
  BY <1>1 DEF ChainEffect, RowMoves
<1>4. row[r] # NoRow => row'[r] # NoRow
  BY <1>1, NewRows DEF ChainEffect, RowMoves
<1>5. (age[r] = "unborn")' => row'[r] = NoRow /\ r \notin Requests
  BY DEF ChainEffect, Elsewhere, RowMoves, RowInv
<1>6. row'[r].state = "started" => Recorded(r, row[r].del)'
                                   /\ row'[r].del = row[r].del
  BY <1>1, ChainRecords, NewRows, Unchains
     DEF ChainEffect, RowMoves, RowInv
<1>7. (row[r].state = "started" => Recorded(r, row[r].del))'
  BY <1>6 DEF Recorded
<1> QED
  BY <1>2, <1>3, <1>4, <1>5, <1>7, ChainRecords DEF RowInv

LEMMA ChainKeepsCleanup ==
  ASSUME Types, NEW r \in Ids, ChainEffect(r), CleanupInv(r)
  PROVE  CleanupInv(r)'
<1>1. Recorded(r, row[r].del) => ~Unrecorded(r)
  BY Unchains DEF Unrecorded
<1>2. CleansUp(chain[r])' => ~Unrecorded(r)
  BY <1>1 DEF ChainEffect, ChainMoves, CleanupInv
<1> QED
  BY <1>2, ChainRecords DEF CleanupInv, ChainEffect, Elsewhere

LEMMA ChainKeepsLease ==
  ASSUME Types, NEW r \in Ids, ChainEffect(r), RowInv(r),
         LeaseInv(r)
  PROVE  LeaseInv(r)'
<1> DEFINE top == drawn[r]  new == drawn'[r]  f == chain'[r]
<1>1. /\ top \in Nat /\ new \in {top, top + 1}
      /\ lease[r].id \in Nat /\ row[r].res \in Nat
      /\ \A d \in Deliveries : run[r][d].res \in Nat
      /\ lease[r].id <= top /\ row[r].res <= top
  BY Unchains, ConstantTypes
     DEF ChainEffect, LedgerMoves, LeaseInv, RunType
<1>2. /\ lease'[r].id = NoId => lease'[r] = NoLease
      /\ lease'[r].id \in Nat /\ lease'[r].id <= new
      /\ lease'[r].id \in {NoId, lease[r].id, top + 1}
      /\ lease'[r].id = top + 1 =>
           chain[r].pc = "permit" /\ lease[r] = NoLease
  BY <1>1 DEF ChainEffect, LedgerMoves, LeaseInv, NoLease, NoId
<1>3. /\ f \in ChainFrames /\ chain[r] \in ChainFrames
      /\ row'[r] \in RowType /\ row'[r].res \in Nat
  BY Unchains, ConstantTypes DEF ChainEffect, ChainTypes, RowType
<1>4. /\ chain[r].pc \in {"permit", "reserved", "control"}
           => chain[r].copy.res \in Nat /\ chain[r].copy.res <= top
      /\ chain[r].pc \in {"reserved", "control"} \cup Releases
           => chain[r].id \in Nat /\ chain[r].id <= top
      /\ chain[r].pc \in Releases => chain[r].id # NoId
  <2>1. chain[r].pc \in Releases => chain[r].id \in LeaseIds
    BY <1>3, ChainFrameFacts
  <2> QED
    BY <2>1, CopyFacts, ConstantTypes DEF LeaseInv, LeaseIds, NoId, Releases
<1>5. row'[r].res <= new
  <2>1. CASE row[r].state # "absent"
    BY <1>1, <1>4, <2>1 DEF ChainEffect, RowMoves
  <2>2. CASE row[r].state = "absent"
    BY <1>1, <2>2, NewRows DEF ChainEffect, RowMoves, RowInv, NoId
  <2> QED
    BY <2>1, <2>2
<1>6. \A d \in Deliveries : run'[r][d].res \in Nat /\ run'[r][d].res <= new
  <2>1. CASE UNCHANGED run
    BY <1>1, <2>1 DEF LeaseInv
  <2>2. CASE /\ chain[r].pc = "control" /\ UNCHANGED drawn
             /\ run' = [run EXCEPT ![r][row[r].del] =
                          [state |-> "flying", res |-> chain[r].id]]
    BY <1>1, <1>4, <2>2, Unchains DEF LeaseInv
  <2> QED
    BY <2>1, <2>2 DEF ChainEffect, SendMoves
<1>7. f.pc \in {"permit", "reserved", "control"} => f.copy.res <= new
  <2>1. CASE f.pc = "permit"
    BY <1>1, <2>1 DEF ChainEffect, ChainMoves
  <2>2. CASE f.pc = "reserved"
    BY <1>1, <1>4, <2>2 DEF ChainEffect, ChainMoves
  <2>3. CASE f.pc = "control"
    BY <1>1, <1>4, <2>3 DEF ChainEffect, ChainMoves
  <2> QED
    BY <2>1, <2>2, <2>3
<1>8. f.pc \in {"reserved", "control"} \cup Releases => f.id <= new
  <2>1. CASE f.pc = "reserved"
    BY <1>2, <2>1 DEF ChainEffect, ChainMoves
  <2>2. CASE f.pc = "control"
    BY <1>1, <1>4, <2>2 DEF ChainEffect, ChainMoves
  <2>3. CASE f.pc = "release"
    BY <1>1, <1>4, <1>5, <2>3 DEF ChainEffect, ChainMoves
  <2>4. CASE f.pc = "released"
    BY <1>1, <1>4, <2>4 DEF ChainEffect, ChainMoves, Releases
  <2> QED
    BY <2>1, <2>2, <2>3, <2>4 DEF Releases
<1>9. f.pc = "released" => lease'[r].id # f.id
  <2>1. ASSUME f.pc = "released"
        PROVE  f.id = chain[r].id /\ chain[r].pc = "release"
               /\ lease'[r].id = IF lease[r].id = f.id THEN NoId ELSE lease[r].id
    BY <2>1 DEF ChainEffect, ChainMoves
  <2> QED
    BY <1>4, <2>1 DEF Releases
<1>10. /\ LoopReleasing(r) => loop.id \in Nat /\ loop.id # NoId
       /\ DrainReleasing(r) => drain.id \in Nat /\ drain.id # NoId
  BY LoopFrameFacts, DrainFrameFacts, ConstantTypes
     DEF LoopReleasing, DrainReleasing, Types, FramesOK, LeaseIds, NoId
<1>11. /\ LoopReleasing(r) => loop.id <= new
       /\ DrainReleasing(r) => drain.id <= new
       /\ LoopReleasing(r) /\ loop.pc = "released" => lease'[r].id # loop.id
       /\ DrainReleasing(r) /\ drain.pc = "released"
            => lease'[r].id # drain.id
  BY <1>1, <1>2, <1>10 DEF LeaseInv
<1>12. UNCHANGED <<loop, drain>>
  BY DEF ChainEffect, Elsewhere
<1> HIDE DEF f, new, top
<1> QED
  BY <1>2, <1>5, <1>6, <1>7, <1>8, <1>9, <1>11, <1>12, ChainRecords
     DEF LeaseInv, f, new

LEMMA ChainKeepsChain ==
  ASSUME Types, NEW r \in Ids, ChainEffect(r), ChainInv(r)
  PROVE  ChainInv(r)'
<1> DEFINE f == chain'[r]
<1>1. Working(r) => row[r].state # "absent"
                    /\ (Active(r) \/ (row[r].state = "cancelled" /\ IsCancelled(r)))
  BY DEF Working, ChainInv, Active, ActiveStates
<1>2. f # Idle /\ ~CleansUp(f)
        => Active(r)' \/ (row'[r].state = "cancelled" /\ IsCancelled(r)')
  <2>1. ASSUME f # Idle, ~CleansUp(f)
        PROVE  /\ Active(r) \/ (row[r].state = "cancelled" /\ IsCancelled(r))
               /\ row'[r].state \in ActiveStates \cup {row[r].state}
    BY <1>1, <2>1 DEF ChainEffect, ChainMoves, Active, ActiveStates
  <2> QED
    BY <2>1, ChainRecords DEF Active
<1>3. chain[r].pc \in {"permit", "reserved", "register", "jit", "control"}
        => row[r].state # "absent"
  BY <1>1, CopyFacts
<1>4. f.pc = "permit" => f.copy.res = row'[r].res
  BY DEF ChainEffect, ChainMoves
<1>5. f.pc = "reserved" => /\ f.copy.res = row'[r].res
                           /\ lease'[r].id \in {NoId, f.id}
  BY DEF ChainEffect, ChainMoves, ChainInv
<1>6. f.pc = "control" => /\ f.copy.res = row'[r].res /\ f.id = row'[r].res
                          /\ lease'[r].id \in {NoId, f.id}
  BY <1>3 DEF ChainEffect, ChainMoves, ChainInv
<1>7. f.pc \in {"register", "jit"} => lease'[r].id \in {NoId, row'[r].res}
  BY <1>3 DEF ChainEffect, ChainMoves, ChainInv
<1> QED
  BY <1>2, <1>4, <1>5, <1>6, <1>7 DEF ChainInv

LEMMA ChainKeepsIntent ==
  ASSUME Types, NEW r \in Ids, ChainEffect(r), RowInv(r), ChainInv(r),
         IntentInv(r)
  PROVE  IntentInv(r)'
<1>1. Working(r) => Active(r) \/ IsCancelled(r)
  BY DEF Working, ChainInv
<1>2. Active(r)' => Active(r) \/ IsCancelled(r)
  BY <1>1 DEF ChainEffect, RowMoves, Active
<1>3. Active(r)' /\ r \in Requests
        => intent'[r].state = "granted" \/ IsCancelled(r)
  BY <1>2 DEF ChainEffect, IntentMoves, IntentInv, Active
<1>4. Acquiring(r) => intent'[r].state = "intended"
  <2>1. Acquiring(r) => r \in Requests
    BY LoopFrameFacts DEF Acquiring, Types, FramesOK
  <2>2. Acquiring(r) => ~IsCancelled(r) /\ ~Working(r)
    BY <1>1, <2>1 DEF IntentInv, RowInv
  <2> QED
    BY <2>2 DEF ChainEffect, IntentMoves, IntentInv
<1>5. (Deleting(r) => IsCancelled(r))'
  BY DEF ChainEffect, Elsewhere, Deleting, EndOf, IsCancelled, IntentInv
<1> QED
  BY <1>3, <1>4, <1>5, ChainRecords DEF IntentInv

LEMMA ChainKeepsMarks ==
  ASSUME Types, NEW r \in Ids, ChainEffect(r), ChainInv(r), CleanupInv(r),
         MarkInv(r)
  PROVE  MarkInv(r)'
<1>1. ASSUME Unrecorded(r), Active(r)', ~Late(r), ~IsCancelled(r)
      PROVE  ~row'[r].released
  <2>1. Active(r)
    BY <1>1 DEF ChainEffect, RowMoves, Active, Working, ChainInv
  <2>2. ~row[r].released /\ row[r].state # "absent"
    BY <1>1, <2>1 DEF MarkInv, Active, ActiveStates
  <2>3. ~CleansUp(chain[r])
    BY <1>1 DEF CleanupInv
  <2> QED
    BY <1>1, <2>2, <2>3 DEF ChainEffect, RowMoves, Active
<1> QED
  BY <1>1, ChainRecords DEF MarkInv

LEMMA ChainKeepsSent ==
  ASSUME Types, PhaseInv, NotResumed, NEW r \in Ids, ChainEffect(r),
         RowInv(r), LeaseInv(r), CleanupInv(r), ChainInv(r), MarkInv(r),
         SentInv(r)
  PROVE  SentInv(r)'
<1> SUFFICES ASSUME NEW d \in Deliveries, Sent(r, d)'
             PROVE  /\ row'[r].del = d /\ row'[r].res = lease'[r].id
                    /\ ~row'[r].released
                    /\ ChainReleasing(r)' => chain'[r].id = lease'[r].id
                    /\ LoopReleasing(r)' => (loop.id = lease[r].id)'
                    /\ DrainReleasing(r)' => (drain.id = lease[r].id)'
  BY DEF SentInv
<1>1. /\ run'[r][d].res = lease'[r].id /\ lease'[r].id # NoId /\ Alone(r, d)
  BY ChainRecords DEF Sent
<1>2. lease'[r] = lease[r]
  <2>1. lease'[r] # NoLease
    BY <1>1 DEF NoLease
  <2>2. ASSUME lease'[r].id = drawn[r] + 1, UNCHANGED run
        PROVE  FALSE
    <3>1. run[r][d].res <= drawn[r] /\ run[r][d].res = drawn[r] + 1
      BY <1>1, <2>2 DEF LeaseInv
    <3> QED
      BY <3>1, Unchains, ConstantTypes DEF RunType
  <2>3. drawn'[r] = drawn[r] + 1 => UNCHANGED run
    <3>1. drawn[r] \in Int
      BY Unchains, ConstantTypes
    <3> QED
      BY <3>1 DEF ChainEffect, LedgerMoves
  <2> QED
    BY <2>1, <2>2, <2>3 DEF ChainEffect, LedgerMoves
<1>3. UNCHANGED <<loop, drain>>
  BY DEF ChainEffect, Elsewhere
<1>4. CASE run'[r][d].res = run[r][d].res
  <2>1. Sent(r, d)
    BY <1>1, <1>2, <1>4 DEF Sent
  <2>2. /\ row[r].del = d /\ row[r].res = lease[r].id /\ ~row[r].released
        /\ ChainReleasing(r) => chain[r].id = lease[r].id
        /\ LoopReleasing(r) => loop.id = lease[r].id
        /\ DrainReleasing(r) => drain.id = lease[r].id
    BY <2>1 DEF SentInv
  <2>3. chain[r].pc = "reserved" => chain[r].id = lease[r].id
    BY <1>1, <1>2 DEF ChainInv
  <2>4. chain[r].pc # "released"
    BY <2>2 DEF LeaseInv, ChainReleasing, Releases
  <2>5. row[r].state # "absent"
    BY <1>1, <1>2, <2>2, NewRows DEF RowInv
  <2>6. row'[r].del = d /\ row'[r].res = lease'[r].id /\ ~row'[r].released
    BY <1>2, <2>2, <2>3, <2>4, <2>5 DEF ChainEffect, RowMoves
  <2>7. ChainReleasing(r)' => chain'[r].id = lease'[r].id
    <3>1. chain'[r].pc = "release" => chain'[r].id = lease'[r].id
      BY <1>2, <2>2, <2>3, <2>6 DEF ChainEffect, ChainMoves, ChainInv
    <3>2. chain'[r].pc # "released"
      BY <1>1, <1>2, <2>2
         DEF ChainEffect, ChainMoves, ChainReleasing, Releases
    <3> QED
      BY <3>1, <3>2 DEF ChainReleasing, Releases
  <2> QED
    BY <1>2, <1>3, <2>2, <2>6, <2>7, ChainRecords
<1>5. CASE run'[r][d].res # run[r][d].res
  <2>1. /\ chain[r].pc = "control" /\ ~IsCancelled(r) /\ ~Late(r)
        /\ chain'[r].pc = "start" /\ row'[r].del = row[r].del
        /\ run[r][row[r].del].state \in {"none", "refused"}
        /\ run' = [run EXCEPT ![r][row[r].del] =
                     [state |-> "flying", res |-> chain[r].id]]
    BY <1>5 DEF ChainEffect, SendMoves
  <2>2. d = row[r].del /\ run'[r][d].res = chain[r].id
    BY <1>5, <2>1, Unchains
  <2>3. Unrecorded(r)
    BY <1>1, <2>1, <2>2 DEF Alone, Unrecorded, Recorded
  <2>4. Working(r) /\ Active(r) /\ row[r].state # "absent"
    BY <2>1, CopyFacts DEF Working, ChainInv, Active, ActiveStates
  <2>5. ~row[r].released /\ ~LoopReleasing(r)
    BY <2>1, <2>3, <2>4 DEF MarkInv
  <2>6. ~DrainReleasing(r)
    BY <2>4 DEF Working, PhaseInv, Settling, DrainReleasing, Releases
  <2>7. row[r].res = chain[r].id
    BY <2>1 DEF ChainInv
  <2>8. row'[r].res = row[r].res /\ ~row'[r].released
    BY <2>1, <2>4, <2>5 DEF ChainEffect, RowMoves
  <2>9. ~ChainReleasing(r)'
    BY <2>1 DEF ChainReleasing, Releases
  <2> QED
    BY <1>1, <2>1, <2>2, <2>5, <2>6, <2>7, <2>8, <2>9, ChainRecords
<1> QED
  BY <1>4, <1>5

LEMMA ChainKeepsShares ==
  ASSUME Types, NEW r \in Ids, ChainEffect(r), RowInv(r), LeaseInv(r),
         ChainInv(r), SentInv(r), ShareInv(r)
  PROVE  ShareInv(r)'
<1>1. \/ UNCHANGED run
      \/ /\ chain[r].pc = "control" /\ row'[r].del = row[r].del
         /\ ~Recorded(r, row[r].del) /\ chain'[r].pc = "start"
         /\ run' = [run EXCEPT ![r][row[r].del] =
                      [state |-> "flying", res |-> chain[r].id]]
         /\ chain[r].id = row[r].res
  BY DEF ChainEffect, SendMoves, Recorded, ChainInv
<1>2. \A d \in Deliveries : d # row[r].del => run'[r][d].res = run[r][d].res
  BY <1>1, Unchains
<1>3. row'[r].res # NoId => row[r].state # "absent" /\ row'[r].del = row[r].del
  BY NewRows DEF ChainEffect, RowMoves, RowInv
<1>4. Foreign(r, row[r].res)'
  <2> SUFFICES ASSUME NEW d \in Deliveries, d # row'[r].del,
                      row'[r].res # NoId, run'[r][d].res = row'[r].res
               PROVE  ~Alone(r, d)
    BY ChainRecords DEF Foreign
  <2>1. d # row[r].del /\ run[r][d].res = row'[r].res
    BY <1>2, <1>3
  <2>2. row'[r].res = row[r].res
        \/ (chain[r].pc = "reserved" /\ row'[r].res = chain[r].id)
    BY <1>3 DEF ChainEffect, RowMoves
  <2> QED
    BY <2>1, <2>2 DEF ShareInv, Foreign
<1>5. chain'[r].pc = "reserved" => Foreign(r, chain[r].id)'
  <2> SUFFICES ASSUME chain'[r].pc = "reserved", NEW d \in Deliveries,
                      d # row'[r].del, chain'[r].id # NoId,
                      run'[r][d].res = chain'[r].id
               PROVE  ~Alone(r, d)
    BY ChainRecords DEF Foreign
  <2>1. UNCHANGED <<row, run>> /\ chain'[r].id = lease'[r].id
    BY <1>1 DEF ChainEffect, ChainMoves
  <2>2. lease'[r] # NoLease
    BY DEF ChainEffect, ChainMoves
  <2>3. CASE lease'[r] = lease[r]
    BY <2>1, <2>3 DEF SentInv, Sent
  <2>4. CASE lease'[r] = [id |-> drawn[r] + 1, used |-> FALSE]
    <3>1. run[r][d].res <= drawn[r] /\ run[r][d].res = drawn[r] + 1
      BY <2>1, <2>4 DEF LeaseInv
    <3> QED
      BY <3>1, Unchains, ConstantTypes DEF RunType
  <2> QED
    BY <2>2, <2>3, <2>4 DEF ChainEffect, LedgerMoves
<1>6. ASSUME NEW d \in Deliveries, NEW e \in Deliveries, d # e,
             run'[r][d].res # NoId, run'[r][d].res = run'[r][e].res
      PROVE  \E c \in Deliveries \ {d, e} : Recorded(r, c)'
  <2>1. CASE UNCHANGED run
    BY <1>6, <2>1, ChainRecords DEF ShareInv
  <2>2. CASE ~UNCHANGED run
    <3> DEFINE k == row[r].del
    <3>1. /\ ~Recorded(r, k) /\ k \in Deliveries /\ run'[r][k].res = row[r].res
      BY <1>1, <2>2, Unchains
    <3>2. ASSUME NEW j \in Deliveries, j # k, run[r][j].res = row[r].res,
                 row[r].res # NoId
          PROVE  \E c \in Deliveries \ {j, k} : Recorded(r, c)
      BY <3>1, <3>2 DEF ShareInv, Foreign, Alone
    <3>3. CASE d = k
      BY <1>2, <1>6, <3>1, <3>2, <3>3, ChainRecords
    <3>4. CASE e = k
      BY <1>2, <1>6, <3>1, <3>2, <3>4, ChainRecords
    <3>5. CASE d # k /\ e # k
      BY <1>2, <1>6, <3>5, ChainRecords DEF ShareInv
    <3> QED
      BY <3>3, <3>4, <3>5
  <2> QED
    BY <2>1, <2>2
<1> QED
  BY <1>4, <1>5, <1>6 DEF ShareInv

\* All of it
LEMMA ChainKeepsInv ==
  ASSUME DispatchInv, NEW r \in Ids, ChainStep(r) \/ DispatchOne(r)
  PROVE  DispatchInv'
<1>1. Types /\ PhaseInv /\ OrderInv /\ EndInv /\ RequestsInv
  BY DEF DispatchInv
<1>2. ChainEffect(r) /\ Elsewhere(r) /\ ChainTypes(r)
  BY <1>1, ChainHasEffect DEF ChainEffect
<1>3. phase = "working" \/ chain[r] # Idle
  BY DEF ChainStep, DispatchOne, PermitRefused, LedgerReserves, ReserveFails,
         Reserved, RegistrationBusy, RegistrationAbsent, JitAmbiguous,
         JitMismatch, JitGenerated, GateClosed, IssueStart, Started,
         StartRefused, StartAmbiguous, StartAbsent, StartFound,
         ReleaseAtLedger, Released, ChainThrows, Idle
<1>4. Types' /\ PhaseInv' /\ OrderInv' /\ EndInv'
  BY <1>1, <1>2, <1>3, ChainKeepsTypes, ChainKeepsPhases, ChainKeepsOrder,
     ChainKeepsEnds
<1>5. NotResumed' <=> NotResumed
  BY <1>2 DEF Elsewhere, NotResumed
<1>6. ASSUME NEW q \in Ids
      PROVE  Always(q)' /\ (NotResumed' => Undisturbed(q)')
  <2>1. CASE q # r
    BY <1>1, <1>2, <1>5, <2>1, ChainOthers, Untouched DEF RequestsInv
  <2>2. CASE q = r
    <3>1. Always(r)'
      BY <1>1, <1>2, ChainKeepsRow, ChainKeepsLease, ChainKeepsCleanup
         DEF RequestsInv, Always
    <3>2. ASSUME NotResumed
          PROVE  Undisturbed(r)'
      BY <1>1, <1>2, <3>2, ChainKeepsChain, ChainKeepsIntent, ChainKeepsMarks,
         ChainKeepsSent, ChainKeepsShares
         DEF RequestsInv, Always, Undisturbed
    <3> QED
      BY <1>5, <2>2, <3>1, <3>2
  <2> QED
    BY <2>1, <2>2
<1> QED
  BY <1>4, <1>6 DEF DispatchInv, RequestsInv

-----------------------------------------------------------------------------
(***************************************************************************)
(* The steps of the handler that only change what it waits for.            *)
(***************************************************************************)
LoopFits(q) ==
  /\ LoopReleasing(q)' =>
       /\ (loop.pc = "release")' /\ (loop.id)' = row[q].res
       /\ NotResumed /\ Unrecorded(q) => Late(q) \/ IsCancelled(q)
  /\ NotResumed /\ Acquiring(q)' => intent[q].state = "intended"
  /\ NotResumed /\ Deleting(q)' => IsCancelled(q)

LoopSteps ==
  UNCHANGED <<mode, intent, cancelled, row, chain, drain, age, lease, drawn,
              run, evictions, drains>>

LEMMA LoopStepsSame ==
  ASSUME LoopSteps, NEW q
  PROVE  /\ \A d : Recorded(q, d)' <=> Recorded(q, d)
         /\ Unrecorded(q)' <=> Unrecorded(q)
         /\ \A d : Alone(q, d)' <=> Alone(q, d)
         /\ IsCancelled(q)' <=> IsCancelled(q)
         /\ Active(q)' <=> Active(q)
         /\ Late(q)' <=> Late(q)
         /\ DrainReleasing(q)' <=> DrainReleasing(q)
         /\ NotResumed' <=> NotResumed
<1>1. run' = run
  BY DEF LoopSteps
<1> QED
  BY <1>1, SameRecords
     DEF LoopSteps, IsCancelled, Active, Late, DrainReleasing, NotResumed

LEMMA LoopKeepsRequests ==
  ASSUME Types, RequestsInv, LoopSteps, \A q \in Ids : LoopFits(q)
  PROVE  RequestsInv'
<1> SUFFICES ASSUME NEW q \in Ids
             PROVE  Always(q)' /\ (NotResumed' => Undisturbed(q)')
  BY DEF RequestsInv
<1>1. Always(q) /\ (NotResumed => Undisturbed(q)) /\ LoopFits(q)
  BY DEF RequestsInv
<1>2. RowInv(q)' /\ CleanupInv(q)'
  BY <1>1, LoopStepsSame
     DEF LoopSteps, Always, RowInv, CleanupInv, CleansUp
<1>3. LeaseInv(q)'
  BY <1>1, LoopStepsSame DEF LoopSteps, Always, LeaseInv, LoopFits
<1>4. ASSUME NotResumed
      PROVE  Undisturbed(q)'
  <2>1. Undisturbed(q)
    BY <1>1, <1>4
  <2>2. ChainInv(q)'
    BY <2>1, LoopStepsSame DEF LoopSteps, Undisturbed, ChainInv, CleansUp
  <2>3. IntentInv(q)'
    BY <1>1, <1>4, <2>1, LoopStepsSame
       DEF LoopSteps, Undisturbed, IntentInv, LoopFits
  <2>4. MarkInv(q)'
    BY <1>1, <1>4, <2>1, LoopStepsSame
       DEF LoopSteps, Undisturbed, MarkInv, LoopFits
  <2>5. SentInv(q)'
    <3> SUFFICES ASSUME NEW d \in Deliveries, Sent(q, d)'
                 PROVE  /\ row'[q].del = d /\ row'[q].res = lease'[q].id
                        /\ ~row'[q].released
                        /\ ChainReleasing(q)' => chain'[q].id = lease'[q].id
                        /\ LoopReleasing(q)' => (loop.id = lease[q].id)'
                        /\ DrainReleasing(q)' => (drain.id = lease[q].id)'
      BY DEF SentInv
    <3>1. Sent(q, d)
      BY LoopStepsSame DEF LoopSteps, Sent
    <3> QED
      BY <1>1, <2>1, <3>1
         DEF LoopSteps, Undisturbed, SentInv, LoopFits, ChainReleasing,
             DrainReleasing
  <2>6. ShareInv(q)'
    BY <2>1, LoopStepsSame DEF LoopSteps, Undisturbed, ShareInv, Foreign
  <2> QED
    BY <2>2, <2>3, <2>4, <2>5, <2>6 DEF Undisturbed
<1> QED
  BY <1>2, <1>3, <1>4, LoopStepsSame DEF Always

InFlight == {"polling", "polled", "working"}

LEMMA LoopKeepsPhases ==
  ASSUME PhaseInv, UNCHANGED <<mode, chain, drain, drains>>,
         phase \in InFlight \cup {"closing"},
         phase' \in InFlight \cup {"closing"}, phase' = "closing" => loop' = Idle
  PROVE  PhaseInv'
BY DEF PhaseInv, InFlight, NotResumed, Settling

LEMMA LoopKeepsOrder ==
  ASSUME OrderInv, UNCHANGED <<queue, inbox>>, loop'.pc # "delete"
  PROVE  OrderInv'
BY DEF OrderInv, EndOf

LEMMA LoopKeepsEnds ==
  ASSUME EndInv, UNCHANGED <<queue, inbox, intent, cancelled, chain, row>>,
         \A q \in Requests : Acquiring(q)'
           => Acquiring(q) \/ intent[q].state = "intended"
  PROVE  EndInv'
BY DEF EndInv, Ended, EndOf, Active, IsCancelled

\* A handler with a call of its own is polling or working.
LEMMA LoopBusy ==
  ASSUME Types, PhaseInv, loop # Idle
  PROVE  phase \in InFlight
BY DEF Types, DispatchTypeOK, PhaseInv, InFlight

LEMMA IdleLoop ==
  ASSUME loop' = Idle, NEW q
  PROVE  LoopFits(q) /\ ~Acquiring(q)' /\ loop'.pc # "delete"
BY DEF LoopFits, LoopReleasing, Acquiring, Deleting, Idle, Releases

LEMMA LoopFrameKeepsTypes ==
  ASSUME Types, LoopSteps, UNCHANGED <<queue, inbox>>, loop' \in LoopFrames,
         loop'.pc # "delete",
         phase' \in InFlight \cup {"none", "settling", "closing"}
  PROVE  Types'
BY DEF Types, DispatchTypeOK, FramesOK, QueueOK, LoopSteps, InFlight

\* What a row holds while it has not been given back
LEMMA UnreleasedRow ==
  ASSUME Types, NEW r \in Ids, Unreleased(r)
  PROVE  row[r].res \in LeaseIds /\ row[r].res # NoId
BY Unchains, ConstantTypes DEF Unreleased, LeaseIds, NoId

ReleaseFrame(r, id, after) ==
  [pc |-> "release", req |-> r, id |-> id, after |-> after]

LEMMA LoopReleaseFrames ==
  ASSUME NEW r \in Ids, NEW id \in LeaseIds,
         NEW after \in {"message", "completed", "settled", "undelivered",
                        "deregistered", "unassigned"}
  PROVE  /\ ReleaseFrame(r, id, after) \in LoopFrames
         /\ ReleaseFrame(r, id, after).pc = "release"
         /\ ReleaseFrame(r, id, after).req = r
         /\ ReleaseFrame(r, id, after).id = id
BY DEF ReleaseFrame, LoopFrames, Releases

\* A pass that finds a reservation to give back
LEMMA ReleaseBegins ==
  ASSUME DispatchInv, NEW r \in Ids,
         \/ RunnerCompleted(r) \/ SettleExpired(r) \/ ReclaimUndelivered(r)
         \/ ProbeAbsent(r)
  PROVE  DispatchInv'
<1>1. Types /\ PhaseInv /\ OrderInv /\ EndInv /\ RequestsInv
  BY DEF DispatchInv
<1>2. PICK after \in {"completed", "settled", "undelivered", "deregistered"} :
        loop' = ReleaseFrame(r, row[r].res, after)
  BY DEF RunnerCompleted, SettleExpired, ReclaimUndelivered, ProbeAbsent,
         LoopReleases, LoopGoes, ReleaseFrame
<1>3. /\ LoopSteps /\ UNCHANGED <<queue, inbox>> /\ Unreleased(r)
      /\ phase \in InFlight /\ phase' \in InFlight
  BY DEF RunnerCompleted, SettleExpired, ReclaimUndelivered, ProbeAbsent,
         Probed, LoopFrame, Maintains, LoopSteps, tables, world, InFlight
<1>4. row[r].res \in LeaseIds
  BY <1>1, <1>3, UnreleasedRow
<1>5. /\ loop' \in LoopFrames /\ loop'.pc = "release" /\ loop'.req = r
      /\ loop'.id = row[r].res
  BY <1>2, <1>4, LoopReleaseFrames
<1>6. Unrecorded(r) => Late(r)
  <2>1. \A d \in Deliveries :
          run[r][d].state \in {"ended", "undelivered"} => ~Unrecorded(r)
    BY DEF Unrecorded, Recorded
  <2>2. row[r].state = "started" => ~Unrecorded(r)
    BY <1>1, Unchains DEF RequestsInv, Always, RowInv, Unrecorded
  <2> QED
    BY <2>1, <2>2
       DEF RunnerCompleted, SettleExpired, ReclaimUndelivered, ProbeAbsent,
           Probed, Late
<1>7. \A q \in Ids : LoopFits(q)
  BY <1>5, <1>6 DEF LoopFits, LoopReleasing, Acquiring, Deleting
<1>8. RequestsInv'
  BY <1>1, <1>3, <1>7, LoopKeepsRequests
<1>9. Types'
  BY <1>1, <1>3, <1>5, LoopFrameKeepsTypes
<1>10. PhaseInv'
  BY <1>1, <1>3, LoopKeepsPhases DEF LoopSteps, InFlight
<1>11. OrderInv'
  BY <1>1, <1>3, <1>5, LoopKeepsOrder
<1>12. EndInv'
  BY <1>1, <1>3, <1>5, LoopKeepsEnds DEF LoopSteps, Acquiring
<1> QED
  BY <1>8, <1>9, <1>10, <1>11, <1>12 DEF DispatchInv

\* An acquisition under way
LEMMA AcquisitionBegins ==
  ASSUME DispatchInv,
         GateOpen \/ \E r \in Requests : ResumeIntended(r)
  PROVE  DispatchInv'
<1>1. Types /\ PhaseInv /\ OrderInv /\ EndInv /\ RequestsInv
  BY DEF DispatchInv
<1>2. PICK r \in Requests :
        /\ r \in Ids
        /\ \/ /\ loop.pc = "gate" /\ loop.req = r /\ phase' = phase
              /\ loop' = [pc |-> "acquire", req |-> r, del |-> intent[r].del]
           \/ /\ phase = "working" /\ phase' = phase
              /\ intent[r].state = "intended"
              /\ loop' = [pc |-> "gate", req |-> r]
  <2>1. CASE GateOpen
    <3>1. loop.req \in Requests
      BY <1>1, <2>1, LoopFrameFacts DEF GateOpen, Types, FramesOK
    <3> QED
      BY <2>1, <3>1 DEF GateOpen, LoopGoes, LoopFrame, Ids
  <2>2. ASSUME NEW r \in Requests, ResumeIntended(r)
        PROVE  /\ phase = "working" /\ phase' = phase
               /\ intent[r].state = "intended"
               /\ loop' = [pc |-> "gate", req |-> r] /\ r \in Ids
    BY <2>2 DEF ResumeIntended, LoopGoes, LoopFrame, Ids
  <2> QED
    BY <2>1, <2>2
<1>3. LoopSteps /\ UNCHANGED <<queue, inbox>>
  BY DEF GateOpen, ResumeIntended, LoopFrame, LoopSteps
<1>4. phase \in InFlight /\ phase' \in InFlight
  <2>1. loop.pc = "gate" => loop # Idle
    BY DEF Idle
  <2> QED
    BY <1>1, <1>2, <2>1, LoopBusy DEF InFlight
<1>5. /\ loop' \in LoopFrames /\ loop'.pc \in {"gate", "acquire"}
      /\ loop'.req = r
  <2>1. intent[r].del \in Deliveries
    BY <1>1, <1>2, Unchains DEF IntentType
  <2> QED
    BY <1>2, <2>1 DEF LoopFrames
<1>6. \A q : Acquiring(q)' => q = r
                              /\ (Acquiring(r) \/ intent[r].state = "intended")
  BY <1>2, <1>5 DEF Acquiring
<1>7. \A q \in Ids : LoopFits(q)
  <2>1. NotResumed => IntentInv(r)
    BY <1>1, <1>2 DEF RequestsInv, Undisturbed
  <2> QED
    BY <1>5, <1>6, <2>1
       DEF LoopFits, LoopReleasing, Deleting, Releases, IntentInv
<1>8. RequestsInv'
  BY <1>1, <1>3, <1>7, LoopKeepsRequests
<1>9. Types'
  BY <1>1, <1>3, <1>4, <1>5, LoopFrameKeepsTypes
<1>10. PhaseInv'
  BY <1>1, <1>3, <1>4, LoopKeepsPhases DEF LoopSteps, InFlight
<1>11. OrderInv'
  BY <1>1, <1>3, <1>5, LoopKeepsOrder
<1>12. EndInv'
  BY <1>1, <1>3, <1>6, LoopKeepsEnds DEF LoopSteps
<1> QED
  BY <1>8, <1>9, <1>10, <1>11, <1>12 DEF DispatchInv

\* A call that throws, whatever it was for
LEMMA LoopThrowsKeeps ==
  ASSUME DispatchInv, LoopThrows
  PROVE  DispatchInv'
<1>1. Types /\ PhaseInv /\ OrderInv /\ EndInv /\ RequestsInv
  BY DEF DispatchInv
<1>2. /\ LoopSteps /\ UNCHANGED inbox /\ loop' = Idle /\ loop # Idle
      /\ phase' \in {phase, "closing"}
  BY DEF LoopThrows, LoopGoes, LoopSteps, tables
<1>3. phase \in InFlight
  BY <1>1, <1>2, LoopBusy
<1>4. /\ queue' \in [Messages -> [kind : {"unsent", "offer", "end"},
                                  req : Requests \cup {NoId}, held : BOOLEAN]]
      /\ \A m \in Messages :
           /\ queue'[m].kind = queue[m].kind /\ queue'[m].req = queue[m].req
           /\ queue'[m].held => queue[m].held
  <2>1. CASE queue' = queue
    BY <1>1, <2>1 DEF Types, QueueOK
  <2>2. CASE /\ loop.pc = "delete"
             /\ queue' = [queue EXCEPT ![loop.msg].held = FALSE]
    BY <1>1, <2>2 DEF Types, QueueOK
  <2> QED
    BY <2>1, <2>2 DEF LoopThrows
<1>5. Types'
  <2>1. Idle \in LoopFrames
    BY DEF LoopFrames
  <2>2. loop'.pc # "delete"
    BY <1>2 DEF Idle
  <2>3. QueueOK'
    BY <1>1, <1>4, <2>2 DEF Types, QueueOK
  <2> QED
    BY <1>1, <1>2, <1>3, <2>1, <2>3
       DEF Types, DispatchTypeOK, FramesOK, LoopSteps, InFlight
<1>6. RequestsInv'
  BY <1>1, <1>2, IdleLoop, LoopKeepsRequests
<1>7. PhaseInv'
  BY <1>1, <1>2, <1>3, LoopKeepsPhases DEF LoopSteps
<1>8. OrderInv'
  BY <1>1, <1>2, <1>4 DEF OrderInv, EndOf, Idle
<1>9. EndInv'
  BY <1>1, <1>2, <1>4, IdleLoop
     DEF EndInv, Ended, EndOf, Active, IsCancelled, LoopSteps
<1> QED
  BY <1>5, <1>6, <1>7, <1>8, <1>9 DEF DispatchInv

\* The handler between two calls
LEMMA HandlerKeeps ==
  ASSUME DispatchInv,
         \/ \E from \in InFlight, to \in InFlight : HandlerMoves(from, to)
         \/ HandlerCloses \/ HandlerEnds
  PROVE  DispatchInv'
<1>1. Types /\ PhaseInv /\ OrderInv /\ EndInv /\ RequestsInv
  BY DEF DispatchInv
<1>2. /\ LoopSteps /\ UNCHANGED <<queue, inbox, loop>>
      /\ phase \in InFlight \cup {"closing"}
      /\ phase' \in InFlight \cup {"closing", "none"}
      /\ phase' = "none" => phase = "closing" /\ \A r \in Ids : chain[r] = Idle
      /\ phase' = "closing" => loop = Idle
  BY DEF HandlerMoves, HandlerCloses, HandlerEnds, LoopSteps, tables, world,
         InFlight
<1>3. Types'
  BY <1>1, <1>2
     DEF Types, DispatchTypeOK, FramesOK, QueueOK, LoopSteps, InFlight
<1>4. PhaseInv'
  <2>1. CASE phase' = "none"
    BY <1>1, <1>2, <2>1 DEF PhaseInv, LoopSteps, NotResumed, Settling
  <2>2. CASE phase' # "none"
    BY <1>1, <1>2, <2>2, LoopKeepsPhases DEF LoopSteps
  <2> QED
    BY <2>1, <2>2
<1>5. OrderInv'
  BY <1>1, <1>2 DEF OrderInv, EndOf
<1>6. EndInv'
  BY <1>1, <1>2, LoopKeepsEnds DEF LoopSteps, Acquiring
<1>7. RequestsInv'
  <2>1. \A q \in Ids : Harmless(q)
    BY <1>2, SameHarmless DEF LoopSteps, SameLease, Deleting, EndOf
  <2>2. NotResumed' <=> NotResumed
    BY <1>2, LoopStepsSame
  <2> QED
    BY <1>1, <2>1, <2>2, NoRequest
<1> QED
  BY <1>3, <1>4, <1>5, <1>6, <1>7 DEF DispatchInv

\* A probe that finds the runner at work notes it.
LEMMA ProbeBusyKeeps ==
  ASSUME DispatchInv, NEW r \in Ids, ProbeBusy(r)
  PROVE  DispatchInv'
<1>1. Types /\ PhaseInv /\ OrderInv /\ EndInv /\ RequestsInv
  BY DEF DispatchInv
<1>2. /\ UNCHANGED <<mode, chain, phase, drain, drawn, run, evictions, drains,
                     inbox, intent, cancelled, queue, age, lease, loop>>
      /\ row' = [row EXCEPT ![r] = [row[r] EXCEPT !.spawned = TRUE]]
      /\ row[r].state = "started"
  BY DEF ProbeBusy, Probed, LoopFrame, Maintains
<1>3. /\ row' \in [Ids -> RowType] /\ \A q \in Ids \ {r} : row'[q] = row[q]
      /\ Kept3(row'[r], row[r]) /\ row'[r].state = row[r].state
      /\ row'[r] # NoRow /\ row[r] # NoRow
  <2>1. row \in [Ids -> RowType] /\ row[r] \in RowType /\ TRUE \in BOOLEAN
    BY <1>1, Unchains DEF Unchained
  <2>2. [row[r] EXCEPT !.spawned = TRUE] \in RowType
    BY <2>1 DEF RowType
  <2> QED
    BY <1>2, <2>1, <2>2, NewRows DEF Kept3, RowType
<1>4. \A q \in Ids : row'[q].state = row[q].state
  BY <1>3
<1>5. Types'
  BY <1>1, <1>2, <1>3 DEF Types, DispatchTypeOK, FramesOK, QueueOK
<1>6. PhaseInv' /\ OrderInv'
  BY <1>1, <1>2 DEF PhaseInv, NotResumed, Settling, OrderInv, EndOf
<1>7. EndInv'
  BY <1>1, <1>2, <1>4
     DEF EndInv, Ended, EndOf, Acquiring, IsCancelled, Active, Ids
<1>8. RequestsInv'
  <2>1. ASSUME NEW q \in Ids
        PROVE  Harmless(q)
    <3>1. /\ Kept3(row'[q], row[q]) /\ row'[q].state = row[q].state
          /\ row'[q] = NoRow <=> row[q] = NoRow
      BY <1>3 DEF Kept3
    <3> QED
      BY <1>2, <3>1
         DEF Harmless, SameLease, Late, Recorded, Deleting, EndOf
  <2>2. NotResumed' => NotResumed
    BY <1>2 DEF NotResumed
  <2> QED
    BY <1>1, <2>1, <2>2, NoRequest
<1> QED
  BY <1>5, <1>6, <1>7, <1>8 DEF DispatchInv

\* A runner that was never given its job: the row fails, then gives back.
LEMMA ProbeIdleKeeps ==
  ASSUME DispatchInv, NEW r \in Ids, ProbeIdle(r)
  PROVE  DispatchInv'
<1>1. Types /\ PhaseInv /\ OrderInv /\ EndInv /\ RequestsInv
  BY DEF DispatchInv
<1>2. /\ UNCHANGED <<mode, chain, phase, drain, drawn, run, evictions, drains,
                     inbox, intent, cancelled, queue, age, lease>>
      /\ row' = [row EXCEPT ![r] = FailedRow(row[r])]
      /\ row[r].state = "started" /\ Unreleased(r) /\ Late(r)
      /\ loop' = ReleaseFrame(r, row[r].res, "unassigned")
      /\ phase = "working"
  BY DEF ProbeIdle, Probed, LoopFrame, Maintains, LoopReleases, LoopGoes,
         ReleaseFrame
<1>3. /\ row' \in [Ids -> RowType] /\ \A q \in Ids \ {r} : row'[q] = row[q]
      /\ row'[r].res = row[r].res /\ row'[r].del = row[r].del
      /\ row'[r].released = row[r].released /\ row'[r].state = "failed"
      /\ row'[r] # NoRow /\ row[r] # NoRow
  <2>1. row \in [Ids -> RowType] /\ row[r] \in RowType
    BY <1>1, Unchains DEF Unchained
  <2> QED
    BY <1>2, <2>1, RowEdits, NewRows DEF Kept3
<1>4. /\ loop' \in LoopFrames /\ loop'.pc = "release" /\ loop'.req = r
      /\ loop'.id = row[r].res
  BY <1>1, <1>2, UnreleasedRow, LoopReleaseFrames
<1>5. /\ Always(r) /\ (NotResumed => Undisturbed(r)) /\ Recorded(r, row[r].del)
      /\ ~Unrecorded(r) /\ ~Active(r)' /\ (NotResumed' <=> NotResumed)
  <2>1. Always(r) /\ (NotResumed => Undisturbed(r))
    BY <1>1 DEF RequestsInv
  <2>2. Recorded(r, row[r].del) /\ row[r].del \in Deliveries
    BY <1>1, <1>2, <2>1, Unchains DEF Always, RowInv
  <2> QED
    BY <1>2, <1>3, <2>1, <2>2
       DEF Unrecorded, Active, ActiveStates, NotResumed
<1>6. /\ \A d : Recorded(r, d)' <=> Recorded(r, d)
      /\ Unrecorded(r)' <=> Unrecorded(r)
      /\ \A d : Alone(r, d)' <=> Alone(r, d)
  BY <1>2, SameRecords
<1>7. Types'
  BY <1>1, <1>2, <1>3, <1>4 DEF Types, DispatchTypeOK, FramesOK, QueueOK
<1>8. PhaseInv' /\ OrderInv'
  BY <1>1, <1>2, <1>4 DEF PhaseInv, NotResumed, Settling, OrderInv, EndOf
<1>9. EndInv'
  <2>1. \A q \in Requests : ~Acquiring(q)'
    BY <1>4 DEF Acquiring
  <2>2. \A q \in Requests : Active(q)' => Active(q)
    BY <1>3, <1>5 DEF Active, Ids
  <2> QED
    BY <1>1, <1>2, <2>1, <2>2 DEF EndInv, Ended, EndOf, IsCancelled
<1>10. Always(r)'
  <2>1. RowInv(r)'
    BY <1>2, <1>3, <1>5 DEF Always, RowInv, IsCancelled
  <2>2. LeaseInv(r)'
    BY <1>2, <1>3, <1>4, <1>5
       DEF Always, LeaseInv, LoopReleasing, DrainReleasing
  <2>3. CleanupInv(r)'
    BY <1>2, <1>5, <1>6 DEF Always, CleanupInv, CleansUp, DrainReleasing
  <2> QED
    BY <2>1, <2>2, <2>3 DEF Always
<1>11. ASSUME NotResumed
       PROVE  Undisturbed(r)'
  <2> USE <1>5, <1>11 DEF Undisturbed
  <2>1. ChainInv(r)'
    <3>1. chain[r] = Idle \/ CleansUp(chain[r])
      BY <1>2 DEF ChainInv, Active, ActiveStates
    <3> QED
      BY <1>2, <1>3, <3>1 DEF ChainInv, Idle, CleansUp
  <2>2. IntentInv(r)'
    BY <1>4 DEF IntentInv, Acquiring, Deleting
  <2>3. MarkInv(r)'
    BY <1>6 DEF MarkInv
  <2>4. SentInv(r)'
    BY <1>2, <1>3, <1>4, <1>6
       DEF SentInv, Sent, ChainReleasing, LoopReleasing, DrainReleasing
  <2>5. ShareInv(r)'
    BY <1>2, <1>3, <1>6 DEF ShareInv, Foreign
  <2> QED
    BY <2>1, <2>2, <2>3, <2>4, <2>5
<1>12. RequestsInv'
  <2>1. ASSUME NEW q \in Ids \ {r}
        PROVE  Harmless(q)
    BY <1>2, <1>3, <1>4, SameHarmless
       DEF SameLease, LoopReleasing, Acquiring, Deleting
  <2> QED
    BY <1>1, <1>5, <1>10, <1>11, <2>1, OneRequest
<1> QED
  BY <1>7, <1>8, <1>9, <1>12 DEF DispatchInv

\* The ledger ends what the handler or the settlement gives back.
LEMMA LoopFrameAt ==
  ASSUME Types, loop.pc \in Releases
  PROVE  /\ loop.req \in Ids /\ loop.id \in LeaseIds
         /\ LET f == [loop EXCEPT !.pc = "released"] IN
            /\ f \in LoopFrames /\ f.pc = "released" /\ f.req = loop.req
            /\ f.id = loop.id
<1>1. loop \in [pc : Releases, req : Ids, id : LeaseIds,
                after : {"message", "completed", "settled", "undelivered",
                         "deregistered", "unassigned"}]
  BY LoopFrameFacts DEF Types, FramesOK
<1> QED
  BY <1>1 DEF LoopFrames, Releases

LEMMA DrainFrameAt ==
  ASSUME Types, drain.pc \in Releases
  PROVE  /\ drain.req \in Ids /\ drain.id \in LeaseIds
         /\ drain.todo \subseteq Ids
         /\ LET f == [drain EXCEPT !.pc = "released"] IN
            /\ f \in DrainFrames /\ f.pc = "released" /\ f.req = drain.req
            /\ f.id = drain.id /\ f.after = drain.after
<1>1. drain \in [pc : Releases, req : Ids, id : LeaseIds,
                 after : {"cancelled", "cleanup"}, todo : SUBSET Ids]
  BY DrainFrameFacts DEF Types, FramesOK
<1> QED
  BY <1>1 DEF DrainFrames, Releases

LEMMA LedgerEndsKeeps ==
  ASSUME Types, RequestsInv, NEW r \in Ids, NEW id \in LeaseIds,
         UNCHANGED <<mode, drains, cancelled, age, run, chain, row, intent,
                     drawn, queue>>,
         LedgerEnds(r, id),
         \/ /\ LoopReleasing(r) /\ id = loop.id /\ UNCHANGED drain
            /\ loop'.pc = "released" /\ loop'.req = r /\ loop'.id = id
         \/ /\ DrainReleasing(r) /\ id = drain.id /\ UNCHANGED loop
            /\ drain'.pc = "released" /\ drain'.req = r /\ drain'.id = id
            /\ drain'.after = drain.after
  PROVE  RequestsInv'
<1>1. /\ \A q \in Ids \ {r} : lease'[q] = lease[q]
      /\ lease'[r] = IF lease[r].id = id THEN NoLease ELSE lease[r]
  BY Unchains DEF LedgerEnds
<1>2. id # NoId /\ NoLease.id = NoId
  BY ConstantTypes DEF LeaseIds, NoId, NoLease
<1>3. /\ \A d : Recorded(r, d)' <=> Recorded(r, d)
      /\ Unrecorded(r)' <=> Unrecorded(r)
      /\ \A d : Alone(r, d)' <=> Alone(r, d)
      /\ NotResumed' <=> NotResumed
  BY SameRecords DEF NotResumed
<1>4. /\ LoopReleasing(r)' => LoopReleasing(r) /\ (loop.id)' = loop.id
      /\ DrainReleasing(r)' => /\ DrainReleasing(r) /\ (drain.id)' = drain.id
                               /\ (drain.after)' = drain.after
      /\ Acquiring(r)' => Acquiring(r)
      /\ \A q : Deleting(q)' => Deleting(q)
  BY DEF LoopReleasing, DrainReleasing, Acquiring, Deleting, EndOf, Releases
<1>5. Always(r)'
  <2>1. Always(r)
    BY DEF RequestsInv
  <2>2. RowInv(r)' /\ CleanupInv(r)'
    BY <1>3, <1>4, <2>1
       DEF Always, RowInv, CleanupInv, CleansUp, IsCancelled
  <2>3. LeaseInv(r)'
    <3>1. lease'[r].id \in {lease[r].id, NoId} /\ lease'[r].id # id
      BY <1>1, <1>2
    <3>2. lease'[r].id = NoId => lease'[r] = NoLease
      BY <1>1, <2>1 DEF Always, LeaseInv
    <3>3. lease'[r].id <= drawn[r]
      BY <1>2, <2>1, <3>1, Unchains, ConstantTypes DEF Always, LeaseInv, NoId
    <3>4. /\ chain[r].pc \in Releases => chain[r].id # NoId
          /\ LoopReleasing(r) => loop.id # NoId
          /\ DrainReleasing(r) => drain.id # NoId
      <4>1. NoId \notin LeaseIds
        BY ConstantTypes DEF NoId, LeaseIds
      <4> QED
        BY <4>1, Unchains, ChainFrameFacts, LoopFrameAt, DrainFrameAt
           DEF LoopReleasing, DrainReleasing
    <3>5. /\ (LoopReleasing(r) /\ loop.pc = "released")'
               => loop'.id = id \/ (LoopReleasing(r) /\ loop.pc = "released")
          /\ (DrainReleasing(r) /\ drain.pc = "released")'
               => drain'.id = id \/ (DrainReleasing(r) /\ drain.pc = "released")
      BY <1>4
    <3> QED
      BY <1>4, <2>1, <3>1, <3>2, <3>3, <3>4, <3>5
         DEF Always, LeaseInv, Releases
  <2> QED
    BY <2>2, <2>3 DEF Always
<1>6. ASSUME NotResumed
      PROVE  Undisturbed(r)'
  <2>1. Undisturbed(r)
    BY <1>6 DEF RequestsInv
  <2>2. ChainInv(r)'
    BY <1>1, <1>2, <2>1
       DEF Undisturbed, ChainInv, CleansUp, Active, IsCancelled
  <2>3. IntentInv(r)'
    BY <1>4, <1>6, <2>1 DEF Undisturbed, IntentInv, Active, IsCancelled
  <2>4. MarkInv(r)'
    BY <1>3, <1>4, <2>1 DEF Undisturbed, MarkInv, Active, Late, IsCancelled
  <2>5. ASSUME NEW d \in Deliveries, Sent(r, d)'
        PROVE  FALSE
    <3>1. lease'[r] = lease[r] /\ Sent(r, d) /\ lease[r].id # id
      BY <1>1, <1>2, <1>3, <2>5 DEF Sent
    <3> QED
      BY <2>1, <3>1 DEF Undisturbed, SentInv
  <2>6. ShareInv(r)'
    BY <1>3, <2>1 DEF Undisturbed, ShareInv, Foreign
  <2> QED
    BY <2>2, <2>3, <2>4, <2>5, <2>6 DEF Undisturbed, SentInv
<1>7. ASSUME NEW q \in Ids \ {r}
      PROVE  Harmless(q)
  <2>1. /\ UNCHANGED loop \/ (~LoopReleasing(q)' /\ ~Acquiring(q)')
        /\ UNCHANGED drain \/ ~DrainReleasing(q)'
    BY DEF LoopReleasing, Acquiring, DrainReleasing, Releases
  <2> QED
    BY <1>1, <1>4, <2>1, SameHarmless DEF SameLease
<1> QED
  BY <1>3, <1>5, <1>6, <1>7, OneRequest

LEMMA LoopReleaseAtLedgerKeeps ==
  ASSUME DispatchInv, LoopReleaseAtLedger
  PROVE  DispatchInv'
<1>1. Types /\ PhaseInv /\ OrderInv /\ EndInv /\ RequestsInv
  BY DEF DispatchInv
<1>2. /\ UNCHANGED <<mode, chain, phase, drain, drawn, run, evictions, drains,
                     inbox, intent, cancelled, row, queue, age>>
      /\ LedgerEnds(loop.req, loop.id) /\ loop.pc = "release"
      /\ loop' = [loop EXCEPT !.pc = "released"]
  BY DEF LoopReleaseAtLedger, LoopFrame, LoopGoes
<1>3. /\ loop.req \in Ids /\ loop.id \in LeaseIds /\ loop' \in LoopFrames
      /\ loop'.pc = "released" /\ loop'.req = loop.req /\ loop'.id = loop.id
      /\ LoopReleasing(loop.req)
  BY <1>1, <1>2, LoopFrameAt DEF Releases, LoopReleasing
<1>4. lease' \in [Ids -> [id : 0 .. MaxLeases, used : BOOLEAN]]
  <2>1. NoLease \in [id : 0 .. MaxLeases, used : BOOLEAN]
    BY ConstantTypes DEF NoLease, NoId
  <2> QED
    BY <1>1, <1>2, <1>3, <2>1, Unchains DEF LedgerEnds
<1>5. Types'
  BY <1>1, <1>2, <1>3, <1>4 DEF Types, DispatchTypeOK, FramesOK, QueueOK
<1>6. PhaseInv' /\ OrderInv'
  <2>1. phase \in InFlight
    BY <1>1, <1>2, LoopBusy DEF Idle
  <2> QED
    BY <1>1, <1>2, <1>3, <2>1
       DEF PhaseInv, InFlight, NotResumed, Settling, OrderInv, EndOf
<1>7. EndInv'
  BY <1>1, <1>2, <1>3, LoopKeepsEnds DEF Acquiring
<1>8. RequestsInv'
  BY <1>1, <1>2, <1>3, LedgerEndsKeeps
<1> QED
  BY <1>5, <1>6, <1>7, <1>8 DEF DispatchInv

LEMMA SettleReleaseAtLedgerKeeps ==
  ASSUME DispatchInv, SettleReleaseAtLedger
  PROVE  DispatchInv'
<1>1. Types /\ PhaseInv /\ OrderInv /\ EndInv /\ RequestsInv
  BY DEF DispatchInv
<1>2. /\ UNCHANGED <<mode, chain, phase, loop, drawn, run, evictions, drains,
                     inbox, intent, cancelled, row, queue, age>>
      /\ LedgerEnds(drain.req, drain.id) /\ drain.pc = "release"
      /\ drain' = [drain EXCEPT !.pc = "released"]
  BY DEF SettleReleaseAtLedger, DrainFrame, DrainGoes
<1>3. /\ drain.req \in Ids /\ drain.id \in LeaseIds /\ drain' \in DrainFrames
      /\ drain'.pc = "released" /\ drain'.req = drain.req
      /\ drain'.id = drain.id /\ drain'.after = drain.after
      /\ DrainReleasing(drain.req)
  BY <1>1, <1>2, DrainFrameAt DEF Releases, DrainReleasing
<1>4. lease' \in [Ids -> [id : 0 .. MaxLeases, used : BOOLEAN]]
  <2>1. NoLease \in [id : 0 .. MaxLeases, used : BOOLEAN]
    BY ConstantTypes DEF NoLease, NoId
  <2> QED
    BY <1>1, <1>2, <1>3, <2>1, Unchains DEF LedgerEnds
<1>5. Types'
  BY <1>1, <1>2, <1>3, <1>4 DEF Types, DispatchTypeOK, FramesOK, QueueOK
<1>6. PhaseInv' /\ OrderInv'
  <2>1. drain # Idle
    BY <1>2 DEF Idle
  <2> QED
    BY <1>1, <1>2, <1>3, <2>1
       DEF PhaseInv, NotResumed, Settling, OrderInv, EndOf
<1>7. EndInv'
  BY <1>1, <1>2, LoopKeepsEnds DEF Acquiring
<1>8. RequestsInv'
  BY <1>1, <1>2, <1>3, LedgerEndsKeeps
<1> QED
  BY <1>5, <1>6, <1>7, <1>8 DEF DispatchInv

\* The reply marks the row, whichever row it is now.
MarkedRow(rec) == [rec EXCEPT !.released = TRUE]

LEMMA MarkedRows ==
  ASSUME NEW rec \in RowType
  PROVE  /\ MarkedRow(rec) \in RowType
         /\ MarkedRow(rec).state = rec.state /\ MarkedRow(rec).res = rec.res
         /\ MarkedRow(rec).del = rec.del /\ MarkedRow(rec).released
<1>1. TRUE \in BOOLEAN
  OBVIOUS
<1> QED
  BY <1>1 DEF MarkedRow, RowType

LEMMA LoopReleasedKeeps ==
  ASSUME DispatchInv, LoopReleased
  PROVE  DispatchInv'
<1>1. Types /\ PhaseInv /\ OrderInv /\ EndInv /\ RequestsInv
  BY DEF DispatchInv
<1>2. PICK r \in Ids :
      /\ r = loop.req /\ LoopReleasing(r) /\ loop.id \in LeaseIds
      /\ UNCHANGED <<mode, chain, phase, drain, drawn, run, evictions, drains,
                     inbox, intent, cancelled, queue, age, lease>>
      /\ Put(r, MarkedRow(row[r])) /\ loop.pc = "released"
      /\ loop' = Idle
  <2>1. loop.pc = "released" /\ loop.pc \in Releases
    BY DEF LoopReleased, Releases
  <2>2. /\ loop.req \in Ids /\ loop.id \in LeaseIds
        /\ LoopReleasing(loop.req)
    BY <1>1, <2>1, LoopFrameAt DEF LoopReleasing
  <2> QED
    BY <2>1, <2>2
       DEF LoopReleased, LoopFrame, Maintains, LoopGoes, MarkedRow
<1>3. /\ row' \in [Ids -> RowType] /\ \A q \in Ids \ {r} : row'[q] = row[q]
      /\ row'[r].state = row[r].state /\ row'[r].res = row[r].res
      /\ row'[r].del = row[r].del
      /\ row'[r] = NoRow <=> row[r] = NoRow
      /\ row[r].state = "absent" /\ row[r] # NoRow => row'[r].state = "absent"
  <2>1. row \in [Ids -> RowType] /\ row[r] \in RowType
    BY <1>1, <1>2, Unchains DEF Unchained
  <2>2. /\ MarkedRow(row[r]) \in RowType /\ MarkedRow(row[r]) # NoRow
        /\ MarkedRow(row[r]).state = row[r].state
        /\ MarkedRow(row[r]).res = row[r].res
        /\ MarkedRow(row[r]).del = row[r].del
    BY <2>1, MarkedRows, NewRows
  <2> QED
    BY <1>2, <2>1, <2>2, NewRows DEF Put
<1>4. /\ Always(r) /\ (NotResumed => Undisturbed(r))
      /\ NotResumed' <=> NotResumed
      /\ \A q \in Ids : Active(q)' <=> Active(q)
  BY <1>1, <1>2, <1>3 DEF RequestsInv, NotResumed, Active
<1>5. /\ \A d : Recorded(r, d)' <=> Recorded(r, d)
      /\ Unrecorded(r)' <=> Unrecorded(r)
      /\ \A d : Alone(r, d)' <=> Alone(r, d)
  BY <1>2, SameRecords
<1>6. \A q : LoopFits(q) /\ ~Acquiring(q)' /\ ~LoopReleasing(q)' /\ ~Deleting(q)'
  BY <1>2, IdleLoop DEF LoopReleasing, Deleting, Idle, Releases
<1>7. Types'
  <2>1. Idle \in LoopFrames /\ Idle.pc # "delete"
    BY DEF LoopFrames, Idle
  <2> QED
    BY <1>1, <1>2, <1>3, <2>1 DEF Types, DispatchTypeOK, FramesOK, QueueOK
<1>8. PhaseInv' /\ OrderInv'
  BY <1>1, <1>2
     DEF PhaseInv, NotResumed, Settling, OrderInv, EndOf, Idle
<1>9. EndInv'
  BY <1>1, <1>2, <1>4, <1>6 DEF EndInv, Ended, EndOf, IsCancelled, Ids
<1>10. Always(r)'
  <2>1. RowInv(r)'
    BY <1>2, <1>3, <1>4, <1>5 DEF Always, RowInv, IsCancelled, Recorded
  <2>2. LeaseInv(r)' /\ CleanupInv(r)'
    BY <1>2, <1>3, <1>4, <1>5, <1>6
       DEF Always, LeaseInv, DrainReleasing, CleanupInv, CleansUp
  <2> QED
    BY <2>1, <2>2 DEF Always
<1>11. ASSUME NotResumed
       PROVE  Undisturbed(r)'
  <2>1. Undisturbed(r) /\ Always(r)
    BY <1>4, <1>11
  <2>2. ChainInv(r)' /\ IntentInv(r)'
    BY <1>2, <1>3, <1>4, <1>6, <2>1
       DEF Undisturbed, ChainInv, IntentInv, CleansUp, IsCancelled
  <2>3. MarkInv(r)'
    BY <1>2, <1>4, <1>5, <1>6, <2>1
       DEF Undisturbed, MarkInv, Late, IsCancelled
  <2>4. ASSUME NEW d \in Deliveries, Sent(r, d)'
        PROVE  FALSE
    <3>1. Sent(r, d)
      BY <1>2, <1>5, <2>4 DEF Sent
    <3>2. lease[r].id # loop.id
      BY <1>2, <2>1 DEF Always, LeaseInv
    <3> QED
      BY <1>2, <2>1, <3>1, <3>2 DEF Undisturbed, SentInv
  <2>5. ShareInv(r)'
    BY <1>2, <1>3, <1>5, <2>1 DEF Undisturbed, ShareInv, Foreign
  <2> QED
    BY <2>2, <2>3, <2>4, <2>5 DEF Undisturbed, SentInv
<1>12. RequestsInv'
  <2>1. ASSUME NEW q \in Ids \ {r}
        PROVE  Harmless(q)
    BY <1>2, <1>3, <1>6, SameHarmless DEF SameLease
  <2> QED
    BY <1>1, <1>4, <1>10, <1>11, <2>1, OneRequest
<1> QED
  BY <1>7, <1>8, <1>9, <1>12 DEF DispatchInv

-----------------------------------------------------------------------------
(***************************************************************************)
(* The drain and its settlement.                                           *)
(***************************************************************************)
\* Until a resume the settlement is alone.
LEMMA SettlingAlone ==
  ASSUME PhaseInv, NotResumed, Settling
  PROVE  loop = Idle /\ \A r \in Ids : chain[r] = Idle
BY DEF PhaseInv

LEMMA IntentCancels ==
  ASSUME Types, NEW r \in Ids, IntentCancelled(r)
  PROVE  /\ intent' \in [Ids -> IntentType]
         /\ \A q \in Ids \ {r} : intent'[q] = intent[q]
         /\ intent'[r].state \in {intent[r].state, "cancelled"}
         /\ intent'[r].state = "none" => intent'[r] = intent[r]
<1>1. OnlyAt(r, intent, intent') /\ intent'[r] \in IntentType
      /\ \/ intent'[r] = intent[r]
         \/ intent'[r] = [intent[r] EXCEPT !.state = "cancelled"]
  BY Unchains, IntentCancelledFacts
<1>2. intent \in [Ids -> IntentType] /\ intent[r] \in IntentType
  BY Unchains DEF Unchained
<1> QED
  BY <1>1, <1>2 DEF OnlyAt, IntentType

\* The settlement decides a row: it fails or cancels it, marks it perhaps, and
\* cancels the intent perhaps.
LEMMA SettledRowKeeps ==
  ASSUME DispatchInv, NEW r \in Ids, Settling,
         UNCHANGED <<mode, chain, phase, loop, drawn, run, evictions, drains,
                     inbox, cancelled, queue, age, lease>>,
         drain' \in DrainFrames,
         row' \in [Ids -> RowType], \A q \in Ids \ {r} : row'[q] = row[q],
         row'[r].res = row[r].res, row'[r].del = row[r].del,
         row'[r] = NoRow <=> row[r] = NoRow,
         row'[r].state # "absent" \/ row'[r] = NoRow,
         row'[r].state \in {row[r].state, "failed", "cancelled"},
         intent' \in [Ids -> IntentType],
         \A q \in Ids \ {r} : intent'[q] = intent[q],
         intent'[r].state \in {intent[r].state, "cancelled"},
         intent'[r].state = "none" => intent'[r] = intent[r],
         Active(r)' => intent'[r] = intent[r],
         \* whether it marks the row as it should
         \/ row'[r].released = row[r].released
         \/ /\ Always(r) => \A d \in Deliveries : NotResumed => ~Sent(r, d)
            /\ NotResumed /\ Unrecorded(r) => ~Active(r)',
         \* what it waits for next
         \A q \in Ids \ {r} : ~DrainReleasing(q)',
         DrainReleasing(r)' =>
           /\ drain'.pc = "release" /\ drain'.id = row[r].res
           /\ drain'.after = "cleanup" => Recorded(r, row[r].del)
  PROVE  DispatchInv'
<1>1. Types /\ PhaseInv /\ OrderInv /\ EndInv /\ RequestsInv
  BY DEF DispatchInv
<1>2. /\ Always(r) /\ (NotResumed => Undisturbed(r))
      /\ NotResumed' <=> NotResumed
      /\ \A q \in Ids : Active(q)' => Active(q)
  <2>1. Active(r)' => Active(r)
    BY DEF Active, ActiveStates
  <2> QED
    BY <1>1, <2>1 DEF RequestsInv, NotResumed, Active
<1>3. /\ \A d : Recorded(r, d)' <=> Recorded(r, d)
      /\ Unrecorded(r)' <=> Unrecorded(r)
      /\ \A d : Alone(r, d)' <=> Alone(r, d)
      /\ Recorded(r, row[r].del) => ~Unrecorded(r)
  BY <1>1, SameRecords, Unchains DEF Unrecorded
<1>4. Types'
  BY <1>1 DEF Types, DispatchTypeOK, FramesOK, QueueOK
<1>5. PhaseInv' /\ OrderInv'
  BY <1>1 DEF PhaseInv, NotResumed, Settling, OrderInv, EndOf, Idle
<1>6. EndInv'
  <2> SUFFICES ASSUME NEW q \in Requests, Ended(q)'
               PROVE  /\ intent'[q].state \notin {"intended", "granted"}
                      /\ ~Acquiring(q)'
                      /\ IsCancelled(q)' \/ (chain'[q] = Idle /\ ~Active(q)')
    BY DEF EndInv
  <2>1. q \in Ids /\ Ended(q)
    BY DEF Ids, Ended, EndOf
  <2>2. intent'[q].state \in {intent[q].state, "cancelled"}
    BY <2>1
  <2> QED
    BY <1>1, <1>2, <2>1, <2>2 DEF EndInv, Acquiring, IsCancelled
<1>7. Always(r)'
  <2>1. RowInv(r)'
    <3>1. row'[r].state = "started" => row[r].state = "started"
      OBVIOUS
    <3> QED
      BY <1>2, <1>3, <3>1 DEF Always, RowInv, IsCancelled, Recorded
  <2>2. LeaseInv(r)'
    BY <1>2 DEF Always, LeaseInv, LoopReleasing, Releases
  <2>3. CleanupInv(r)'
    BY <1>2, <1>3 DEF Always, CleanupInv, CleansUp
  <2> QED
    BY <2>1, <2>2, <2>3 DEF Always
<1>8. ASSUME NotResumed
      PROVE  Undisturbed(r)'
  <2>1. Undisturbed(r) /\ Always(r) /\ chain[r] = Idle /\ loop = Idle
    BY <1>1, <1>2, <1>8, SettlingAlone
  <2>2. ChainInv(r)'
    BY <2>1 DEF ChainInv, Idle
  <2>3. IntentInv(r)'
    BY <1>2, <2>1
       DEF Undisturbed, IntentInv, IsCancelled, Acquiring, Deleting, Idle
  <2>4. MarkInv(r)'
    BY <1>2, <1>3, <1>8, <2>1
       DEF Undisturbed, MarkInv, Late, IsCancelled, LoopReleasing, Releases,
           Idle
  <2>5. SentInv(r)'
    <3> SUFFICES ASSUME NEW d \in Deliveries, Sent(r, d)'
                 PROVE  /\ row'[r].del = d /\ row'[r].res = lease'[r].id
                        /\ ~row'[r].released
                        /\ ~ChainReleasing(r)' /\ ~LoopReleasing(r)'
                        /\ DrainReleasing(r)' => (drain.id = lease[r].id)'
      BY DEF SentInv
    <3>1. Sent(r, d)
      BY <1>3 DEF Sent
    <3>2. ~ChainReleasing(r)' /\ ~LoopReleasing(r)'
      BY <2>1 DEF ChainReleasing, LoopReleasing, Releases, Idle
    <3> QED
      BY <1>8, <2>1, <3>1, <3>2 DEF Undisturbed, SentInv
  <2>6. ShareInv(r)'
    BY <1>3, <2>1 DEF Undisturbed, ShareInv, Foreign
  <2> QED
    BY <2>2, <2>3, <2>4, <2>5, <2>6 DEF Undisturbed
<1>9. RequestsInv'
  <2>1. ASSUME NEW q \in Ids \ {r}
        PROVE  Harmless(q)
    BY SameHarmless DEF SameLease, Deleting, EndOf
  <2> QED
    BY <1>1, <1>2, <1>7, <1>8, <2>1, OneRequest
<1> QED
  BY <1>4, <1>5, <1>6, <1>9 DEF DispatchInv

\* The operator's calls, and what of a settlement decides no row
LEMMA DrainAside ==
  ASSUME DispatchInv,
         UNCHANGED <<chain, loop, drawn, run, evictions, inbox, intent,
                     cancelled, row, queue, age, lease>>,
         mode' \in {"running", "drained"}, drains' \in Nat,
         phase' \in {phase, "none"}, drain' \in DrainFrames,
         \A q \in Ids : ~DrainReleasing(q)',
         NotResumed' => NotResumed, PhaseInv'
  PROVE  DispatchInv'
<1>1. Types /\ PhaseInv /\ OrderInv /\ EndInv /\ RequestsInv
  BY DEF DispatchInv
<1>2. Types'
  BY <1>1 DEF Types, DispatchTypeOK, FramesOK, QueueOK
<1>3. OrderInv' /\ EndInv'
  BY <1>1, LoopKeepsEnds DEF OrderInv, EndOf, Acquiring
<1>4. ASSUME NEW q \in Ids
      PROVE  Harmless(q)
  BY SameHarmless DEF SameLease, Deleting, EndOf
<1>5. RequestsInv'
  BY <1>1, <1>4, NoRequest
<1> QED
  BY <1>2, <1>3, <1>5 DEF DispatchInv

LEMMA PlainDrainFrames ==
  /\ Idle \in DrainFrames /\ Idle.pc = "idle"
  /\ [pc |-> "waiting"] \in DrainFrames
  /\ \A todo \in SUBSET Ids :
       /\ [pc |-> "settling", todo |-> todo] \in DrainFrames
       /\ \A r \in Ids :
            /\ [pc |-> "lookup", req |-> r, todo |-> todo] \in DrainFrames
            /\ \A id \in LeaseIds, after \in {"cancelled", "cleanup"} :
                 [pc |-> "release", req |-> r, id |-> id, after |-> after,
                  todo |-> todo] \in DrainFrames
BY DEF DrainFrames, Idle, Releases

LEMMA DrainCalledKeeps ==
  ASSUME DispatchInv, DrainCalled
  PROVE  DispatchInv'
<1>1. Types /\ PhaseInv
  BY DEF DispatchInv
<1>2. /\ UNCHANGED <<chain, loop, drawn, run, evictions, inbox, intent,
                     cancelled, row, queue, age, lease, phase>>
      /\ mode' = "drained" /\ drains' = drains + 1 /\ drain = Idle
      /\ drain' = [pc |-> "waiting"] /\ phase # "settling"
  BY DEF DrainCalled, DrainGoes, world
<1>3. drains \in Nat /\ drains' \in Nat /\ drains' # 0
  BY <1>1, <1>2 DEF Types, FramesOK
<1>4. NotResumed' => NotResumed
  BY <1>2, <1>3 DEF NotResumed
<1>5. PhaseInv'
  BY <1>1, <1>2, <1>3 DEF PhaseInv, Settling
<1>6. \A q \in Ids : ~DrainReleasing(q)'
  BY <1>2 DEF DrainReleasing, Releases
<1> QED
  BY <1>2, <1>3, <1>4, <1>5, <1>6, PlainDrainFrames, DrainAside

LEMMA ResumeKeeps ==
  ASSUME DispatchInv, Resume
  PROVE  DispatchInv'
<1>1. Types /\ PhaseInv /\ RequestsInv /\ OrderInv /\ EndInv
  BY DEF DispatchInv
<1>2. /\ UNCHANGED <<chain, loop, drawn, run, evictions, inbox, intent,
                     cancelled, row, queue, age, lease, phase, drain, drains>>
      /\ mode = "drained" /\ mode' = "running"
  BY DEF Resume, memory, world
<1>3. drains # 0 /\ ~NotResumed'
  BY <1>1, <1>2 DEF PhaseInv, NotResumed
<1>4. Types' /\ PhaseInv' /\ OrderInv'
  BY <1>1, <1>2, <1>3
     DEF Types, DispatchTypeOK, FramesOK, QueueOK, PhaseInv, OrderInv, EndOf
<1>5. EndInv'
  BY <1>1, <1>2, LoopKeepsEnds DEF Acquiring
<1>6. ASSUME NEW q \in Ids
      PROVE  Harmless(q)
  BY <1>2, SameHarmless DEF SameLease, Deleting, EndOf
<1>7. RequestsInv'
  BY <1>1, <1>3, <1>6, NoRequest
<1> QED
  BY <1>4, <1>5, <1>7 DEF DispatchInv

LEMMA DrainThrowsKeeps ==
  ASSUME DispatchInv, DrainThrows
  PROVE  DispatchInv'
<1>1. Types /\ PhaseInv
  BY DEF DispatchInv
<1>2. /\ UNCHANGED <<chain, loop, drawn, run, evictions, inbox, intent,
                     cancelled, row, queue, age, lease, mode, drains>>
      /\ drain' = Idle /\ phase' = IF phase = "settling" THEN "none" ELSE phase
  BY DEF DrainThrows, SettlementOver, DrainGoes, DrainFrame
<1>3. /\ NotResumed' => NotResumed
      /\ drains' \in Nat /\ mode' \in {"running", "drained"}
  BY <1>1, <1>2 DEF NotResumed, Types, FramesOK, DispatchTypeOK
<1>4. PhaseInv'
  BY <1>1, <1>2, PlainDrainFrames DEF PhaseInv, Settling, NotResumed
<1>5. \A q \in Ids : ~DrainReleasing(q)'
  BY <1>2, PlainDrainFrames DEF DrainReleasing, Releases
<1> QED
  BY <1>2, <1>3, <1>4, <1>5, PlainDrainFrames, DrainAside

LEMMA SettleKeeps ==
  ASSUME DispatchInv, NEW r \in Ids, Settle(r)
  PROVE  DispatchInv'
<1> DEFINE rest == drain.todo \ {r}
<1>1. /\ Types /\ PhaseInv /\ RequestsInv
      /\ Always(r) /\ row[r] \in RowType /\ row \in [Ids -> RowType]
      /\ intent \in [Ids -> IntentType]
  BY Unchains DEF DispatchInv, RequestsInv, Unchained
<1>2. /\ UNCHANGED <<inbox, cancelled, chain, loop, queue, age, drawn, run,
                     evictions, drains, mode, phase, lease>>
      /\ drain.pc = "settling" /\ Settling
  BY DEF Settle, DrainFrame, Settling
<1>3. drain \in [pc : {"settling"}, todo : SUBSET Ids]
  BY <1>1, <1>2, DrainFrameFacts DEF Types, FramesOK
<1>4. /\ rest \in SUBSET Ids
      /\ [drain EXCEPT !.todo = rest] = [pc |-> "settling", todo |-> rest]
  BY <1>3
<1> HIDE DEF rest
<1>5. row[r].state \in Cancellable => /\ Active(r)
                                      /\ row[r].state # "start-requested"
  BY DEF Cancellable, Active, ActiveStates
<1>6. CASE /\ drain' \in {[pc |-> "settling", todo |-> rest],
                          [pc |-> "lookup", req |-> r, todo |-> rest]}
           /\ UNCHANGED <<intent, row>>
  <2>1. drain' \in DrainFrames /\ drain'.pc \in {"settling", "lookup"}
    <3>1. /\ [pc |-> "settling", todo |-> rest] \in DrainFrames
          /\ [pc |-> "lookup", req |-> r, todo |-> rest] \in DrainFrames
      BY <1>4, PlainDrainFrames
    <3> QED
      BY <1>6, <3>1
  <2>2. \A q \in Ids : ~DrainReleasing(q)'
    BY <2>1 DEF DrainReleasing, Releases
  <2>3. /\ NotResumed' => NotResumed
        /\ drains' \in Nat /\ mode' \in {"running", "drained"}
    BY <1>1, <1>2 DEF NotResumed, Types, FramesOK, DispatchTypeOK
  <2>4. PhaseInv'
    BY <1>1, <1>2 DEF PhaseInv, Settling, NotResumed, Idle
  <2> QED
    BY <1>2, <1>6, <2>1, <2>2, <2>3, <2>4, DrainAside
<1>7. CASE /\ row[r].state \in Cancellable /\ row[r].res # NoId
           /\ drain' = [pc |-> "release", req |-> r, id |-> row[r].res,
                        after |-> "cancelled", todo |-> rest]
           /\ UNCHANGED <<intent, row>>
  <2>1. row[r].res \in LeaseIds
    BY <1>1, <1>7, Unchains, ConstantTypes DEF LeaseIds, NoId
  <2>2. drain' \in DrainFrames
    BY <1>4, <1>7, <2>1, PlainDrainFrames
  <2>3. /\ drain'.pc = "release" /\ drain'.req = r /\ drain'.id = row[r].res
        /\ drain'.after = "cancelled"
    BY <1>7
  <2>4. \A q \in Ids \ {r} : ~DrainReleasing(q)'
    BY <2>3 DEF DrainReleasing
  <2>5. row[r].state # "absent" \/ row[r] = NoRow
    BY <1>1 DEF Always, RowInv
  <2> QED
    BY <1>1, <1>2, <1>7, <2>2, <2>3, <2>4, <2>5, SettledRowKeeps
<1>8. CASE /\ row[r].state \in Cancellable /\ row[r].res = NoId
           /\ row' = [row EXCEPT ![r] = CancelledRow(row[r])]
           /\ IntentCancelled(r)
           /\ drain' = [pc |-> "settling", todo |-> rest]
  <2>1. drain' \in DrainFrames /\ \A q \in Ids : ~DrainReleasing(q)'
    BY <1>4, <1>8, PlainDrainFrames DEF DrainReleasing, Releases
  <2>2. /\ row' \in [Ids -> RowType] /\ \A q \in Ids \ {r} : row'[q] = row[q]
        /\ row'[r].res = row[r].res /\ row'[r].del = row[r].del
        /\ row'[r].released = row[r].released /\ row'[r].state = "cancelled"
        /\ row'[r] # NoRow /\ row[r] # NoRow
    BY <1>1, <1>5, <1>8, RowEdits, NewRows
       DEF Kept3, Cancellable
  <2>3. ~Active(r)'
    BY <2>2 DEF Active, ActiveStates
  <2> QED
    BY <1>1, <1>2, <1>8, <2>1, <2>2, <2>3, IntentCancels, SettledRowKeeps
<1>9. \/ ~Active(r) \/ (row[r].state = "start-requested" /\ ~Late(r))
      \/ Active(r) /\ row[r].state = "start-requested" /\ Late(r)
      \/ row[r].state \in Cancellable /\ row[r].res # NoId
      \/ row[r].state \in Cancellable /\ row[r].res = NoId
  BY DEF Active, ActiveStates, Cancellable
<1> QED
  BY <1>4, <1>5, <1>6, <1>7, <1>8, <1>9 DEF Settle, DrainGoes, rest

LEMMA SettleLookupKeeps ==
  ASSUME DispatchInv, SettleLookup
  PROVE  DispatchInv'
<1>1. Types /\ PhaseInv /\ RequestsInv
  BY DEF DispatchInv
<1>2. PICK r \in Ids :
        /\ r = drain.req /\ drain.todo \subseteq Ids
        /\ UNCHANGED <<inbox, cancelled, chain, loop, queue, age, drawn, run,
                       evictions, drains, mode, phase, lease, intent>>
        /\ Put(r, FailedRow(row[r])) /\ Settling
        /\ \/ drain' = [pc |-> "settling", todo |-> drain.todo]
           \/ /\ Recorded(r, row[r].del) /\ row[r].res # NoId
              /\ drain' = [pc |-> "release", req |-> r, id |-> row[r].res,
                           after |-> "cleanup", todo |-> drain.todo]
  <2>1. drain.pc = "lookup"
    BY DEF SettleLookup
  <2>2. drain.req \in Ids /\ drain.todo \subseteq Ids
    BY <1>1, <2>1, DrainFrameFacts DEF Types, FramesOK
  <2>3. \/ drain' = [pc |-> "settling", todo |-> drain.todo]
        \/ /\ Recorded(drain.req, row[drain.req].del)
           /\ row[drain.req].res # NoId
           /\ drain' = [pc |-> "release", req |-> drain.req,
                        id |-> row[drain.req].res, after |-> "cleanup",
                        todo |-> drain.todo]
    BY DEF SettleLookup, DrainGoes
  <2> QED
    BY <2>1, <2>2, <2>3 DEF SettleLookup, DrainFrame, Settling
<1>3. row[r] \in RowType /\ row \in [Ids -> RowType] /\ Always(r)
      /\ intent \in [Ids -> IntentType]
  BY <1>1, Unchains DEF Unchained, RequestsInv
<1>4. /\ row' \in [Ids -> RowType] /\ \A q \in Ids \ {r} : row'[q] = row[q]
      /\ row'[r].res = row[r].res /\ row'[r].del = row[r].del
      /\ row'[r].released = row[r].released
      /\ row'[r] = NoRow <=> row[r] = NoRow
      /\ row'[r] = NoRow \/ row'[r].state = "failed"
      /\ row'[r].state \in {row[r].state, "failed"}
  BY <1>2, <1>3, RowEdits, NewRows DEF Put, Kept3
<1>5. ~Active(r)' /\ (row'[r].state # "absent" \/ row'[r] = NoRow)
  BY <1>4, NewRows DEF Active, ActiveStates
<1>6. /\ drain' \in DrainFrames
      /\ \A q \in Ids \ {r} : ~DrainReleasing(q)'
      /\ DrainReleasing(r)' =>
           /\ drain'.pc = "release" /\ drain'.id = row[r].res
           /\ drain'.after = "cleanup" => Recorded(r, row[r].del)
  <2>1. CASE drain' = [pc |-> "settling", todo |-> drain.todo]
    BY <1>2, <2>1, PlainDrainFrames DEF DrainReleasing, Releases
  <2>2. CASE /\ Recorded(r, row[r].del) /\ row[r].res # NoId
             /\ drain' = [pc |-> "release", req |-> r, id |-> row[r].res,
                          after |-> "cleanup", todo |-> drain.todo]
    <3>1. row[r].res \in LeaseIds
      BY <1>1, <2>2, Unchains, ConstantTypes DEF LeaseIds, NoId
    <3> QED
      BY <1>2, <2>2, <3>1, PlainDrainFrames DEF DrainReleasing
  <2> QED
    BY <1>2, <2>1, <2>2
<1> QED
  BY <1>2, <1>3, <1>4, <1>5, <1>6, SettledRowKeeps

LEMMA SettleReleasedKeeps ==
  ASSUME DispatchInv, SettleReleased
  PROVE  DispatchInv'
<1>1. Types /\ PhaseInv /\ RequestsInv
  BY DEF DispatchInv
<1>2. PICK r \in Ids :
        /\ DrainReleasing(r) /\ drain.todo \subseteq Ids
        /\ drain.pc = "released" /\ drain.after \in {"cancelled", "cleanup"}
        /\ UNCHANGED <<inbox, cancelled, chain, loop, queue, age, drawn, run,
                       evictions, drains, mode, phase, lease>>
        /\ \/ /\ Put(r, CancelledRow(MarkedRow(row[r]))) /\ IntentCancelled(r)
              /\ drain.after = "cancelled"
           \/ /\ Put(r, MarkedRow(row[r])) /\ UNCHANGED intent
              /\ drain.after = "cleanup"
        /\ drain' = [pc |-> "settling", todo |-> drain.todo]
  <2>1. drain.pc = "released" /\ drain.pc \in Releases
    BY DEF SettleReleased, Releases
  <2>2. /\ drain.req \in Ids /\ drain.todo \subseteq Ids
        /\ DrainReleasing(drain.req)
        /\ drain.after \in {"cancelled", "cleanup"}
    BY <1>1, <2>1, DrainFrameFacts DEF Types, FramesOK, DrainReleasing
  <2> QED
    BY <2>1, <2>2
       DEF SettleReleased, DrainFrame, DrainGoes, MarkedRow
<1>3. row[r] \in RowType /\ row \in [Ids -> RowType] /\ Always(r)
      /\ intent \in [Ids -> IntentType] /\ (NotResumed => Undisturbed(r))
  BY <1>1, Unchains DEF Unchained, RequestsInv
<1>4. Settling
  BY <1>2 DEF Settling
<1>5. /\ row' \in [Ids -> RowType] /\ \A q \in Ids \ {r} : row'[q] = row[q]
      /\ row'[r].res = row[r].res /\ row'[r].del = row[r].del
      /\ row'[r] = NoRow <=> row[r] = NoRow
      /\ row'[r].state \in {row[r].state, "failed", "cancelled"}
      /\ drain.after = "cancelled"
           => row'[r] = NoRow \/ row'[r].state = "cancelled"
      /\ row[r].state # "absent" => row'[r].state # "absent"
  <2>1. row[r].state = "absent" => row[r] = NoRow
    BY <1>3 DEF Always, RowInv
  <2>2. MarkedRow(row[r]) \in RowType
        /\ CancelledRow(MarkedRow(row[r])) \in RowType
    BY <1>3, MarkedRows, RowEdits
  <2>3. /\ MarkedRow(row[r]).res = row[r].res
        /\ MarkedRow(row[r]).del = row[r].del
        /\ MarkedRow(row[r]).state = row[r].state
        /\ CancelledRow(MarkedRow(row[r])).res = row[r].res
        /\ CancelledRow(MarkedRow(row[r])).del = row[r].del
        /\ CancelledRow(MarkedRow(row[r])).state = "cancelled"
        /\ MarkedRow(row[r]) # NoRow
        /\ CancelledRow(MarkedRow(row[r])) # NoRow
    BY <1>3, <2>2, MarkedRows, RowEdits, NewRows DEF Kept3
  <2> QED
    BY <1>2, <1>3, <2>1, <2>2, <2>3, NewRows DEF Put
<1>6. /\ intent' \in [Ids -> IntentType]
      /\ \A q \in Ids \ {r} : intent'[q] = intent[q]
      /\ intent'[r].state \in {intent[r].state, "cancelled"}
      /\ intent'[r].state = "none" => intent'[r] = intent[r]
      /\ drain.after = "cleanup" => intent'[r] = intent[r]
  BY <1>1, <1>2, <1>3, IntentCancels
<1>7. drain.after = "cancelled" => ~Active(r)'
  BY <1>5, NewRows DEF Active, ActiveStates
<1>8. /\ Active(r)' => intent'[r] = intent[r]
      /\ Unrecorded(r) => ~Active(r)'
  BY <1>2, <1>3, <1>6, <1>7 DEF Always, CleanupInv
<1>9. NotResumed => \A d \in Deliveries : ~Sent(r, d)
  <2>1. lease[r].id # drain.id
    BY <1>2, <1>3 DEF Always, LeaseInv
  <2> QED
    BY <1>2, <1>3, <2>1 DEF Undisturbed, SentInv
<1>10. drain' \in DrainFrames /\ \A q \in Ids : ~DrainReleasing(q)'
  BY <1>2, PlainDrainFrames DEF DrainReleasing, Releases
<1>11. row'[r].state # "absent" \/ row'[r] = NoRow
  BY <1>3, <1>5 DEF Always, RowInv
<1> QED
  BY <1>2, <1>4, <1>5, <1>6, <1>8, <1>9, <1>10, <1>11, SettledRowKeeps

\* The settlement begins: what was not acquired yet never will be.
LEMMA SettleBeginsKeeps ==
  ASSUME DispatchInv, SettleBegins
  PROVE  DispatchInv'
<1>1. Types /\ PhaseInv /\ OrderInv /\ EndInv /\ RequestsInv
  BY DEF DispatchInv
<1>2. /\ UNCHANGED <<mode, cancelled, row, chain, phase, loop, age, lease,
                     drawn, run, evictions, drains>>
      /\ inbox' = [m \in Messages |->
                     IF inbox[m] = "stored" THEN "acknowledged" ELSE inbox[m]]
      /\ queue' = [m \in Messages |->
                     IF inbox[m] = "stored"
                       THEN [queue[m] EXCEPT !.held = FALSE] ELSE queue[m]]
      /\ intent' = [r \in Ids |->
                      IF intent[r].state \in {"intended", "ambiguous"}
                        THEN [intent[r] EXCEPT !.state = "cancelled"]
                        ELSE intent[r]]
      /\ drain' = [pc |-> "settling", todo |-> {r \in Ids : Active(r)}]
  <2>1. \A m \in Messages :
          m \in {n \in Messages : inbox[n] = "stored"} <=> inbox[m] = "stored"
    OBVIOUS
  <2> QED
    BY <2>1 DEF SettleBegins, DrainGoes
<1>3. loop = Idle /\ \A r \in Ids : chain[r] = Idle
  BY <1>1 DEF SettleBegins, Quiet, PhaseInv
<1>4. /\ queue' \in [Messages -> [kind : {"unsent", "offer", "end"},
                                  req : Requests \cup {NoId}, held : BOOLEAN]]
      /\ \A m \in Messages :
           /\ queue'[m].kind = queue[m].kind /\ queue'[m].req = queue[m].req
           /\ queue'[m].held => queue[m].held
           /\ inbox'[m] # "none" <=> inbox[m] # "none"
      /\ inbox' \in [Messages -> {"none", "stored", "acknowledged"}]
  <2>1. /\ queue \in [Messages -> [kind : {"unsent", "offer", "end"},
                                  req : Requests \cup {NoId}, held : BOOLEAN]]
        /\ inbox \in [Messages -> {"none", "stored", "acknowledged"}]
    BY <1>1 DEF Types, QueueOK, DispatchTypeOK
  <2>2. ASSUME NEW m \in Messages
        PROVE  /\ queue'[m] \in [kind : {"unsent", "offer", "end"},
                                 req : Requests \cup {NoId}, held : BOOLEAN]
               /\ queue'[m].kind = queue[m].kind
               /\ queue'[m].req = queue[m].req
               /\ queue'[m].held => queue[m].held
               /\ inbox'[m] # "none" <=> inbox[m] # "none"
               /\ inbox'[m] \in {"none", "stored", "acknowledged"}
    <3>1. queue[m] \in [kind : {"unsent", "offer", "end"},
                        req : Requests \cup {NoId}, held : BOOLEAN]
          /\ FALSE \in BOOLEAN
      BY <2>1
    <3> QED
      BY <1>2, <2>1, <3>1
  <2> QED
    BY <1>2, <2>2
<1>5. /\ intent' \in [Ids -> IntentType]
      /\ \A r \in Ids :
           /\ intent'[r].state \in {intent[r].state, "cancelled"}
           /\ intent'[r].state \in {"none", "granted"}
                => intent'[r] = intent[r]
           /\ intent[r].state = "granted" => intent'[r] = intent[r]
           /\ intent'[r].state # "intended"
  <2>1. ASSUME NEW r \in Ids
        PROVE  /\ intent'[r] \in IntentType
               /\ intent'[r].state \in {intent[r].state, "cancelled"}
               /\ intent'[r].state \in {"none", "granted"}
                    => intent'[r] = intent[r]
               /\ intent[r].state = "granted" => intent'[r] = intent[r]
               /\ intent'[r].state # "intended"
    <3>1. intent[r] \in IntentType
      BY <1>1, Unchains
    <3> QED
      BY <1>2, <3>1 DEF IntentType
  <2> QED
    BY <1>2, <2>1
<1>6. drain' \in DrainFrames /\ \A q \in Ids : ~DrainReleasing(q)'
  <2>1. {r \in Ids : Active(r)} \in SUBSET Ids
    OBVIOUS
  <2> QED
    BY <1>2, <2>1, PlainDrainFrames DEF DrainReleasing, Releases
<1>7. Types'
  <2>1. loop'.pc # "delete"
    BY <1>2, <1>3 DEF Idle
  <2>2. QueueOK'
    BY <1>1, <1>4, <2>1 DEF Types, QueueOK
  <2> QED
    BY <1>1, <1>2, <1>4, <1>5, <1>6, <2>2
       DEF Types, DispatchTypeOK, FramesOK
<1>8. PhaseInv'
  <2>1. drains # 0
    BY <1>1 DEF SettleBegins, PhaseInv, Idle
  <2>2. phase \in {"none", "settling"}
    BY DEF SettleBegins, Quiet
  <2> QED
    BY <1>1, <1>2, <1>3, <2>1, <2>2 DEF PhaseInv
<1>9. OrderInv'
  BY <1>1, <1>2, <1>3, <1>4 DEF OrderInv, EndOf, Idle
<1>10. EndInv'
  <2> SUFFICES ASSUME NEW q \in Requests, Ended(q)'
               PROVE  /\ intent'[q].state \notin {"intended", "granted"}
                      /\ ~Acquiring(q)'
                      /\ IsCancelled(q)' \/ (chain'[q] = Idle /\ ~Active(q)')
    BY DEF EndInv
  <2>1. q \in Ids /\ Ended(q)
    BY <1>4 DEF Ids, Ended, EndOf
  <2>2. intent'[q].state \in {intent[q].state, "cancelled"}
    BY <1>5, <2>1
  <2>3. ~Acquiring(q)'
    BY <1>2, <1>3 DEF Acquiring, Idle
  <2> QED
    BY <1>1, <1>2, <2>1, <2>2, <2>3 DEF EndInv, IsCancelled, Active
<1>11. RequestsInv'
  <2> SUFFICES ASSUME NEW q \in Ids
               PROVE  Always(q)' /\ (NotResumed' => Undisturbed(q)')
    BY DEF RequestsInv
  <2>1. /\ Always(q) /\ (NotResumed => Undisturbed(q))
        /\ NotResumed' <=> NotResumed
    BY <1>1, <1>2 DEF RequestsInv, NotResumed
  <2>2. /\ \A d : Recorded(q, d)' <=> Recorded(q, d)
        /\ Unrecorded(q)' <=> Unrecorded(q)
        /\ \A d : Alone(q, d)' <=> Alone(q, d)
    BY <1>2, SameRecords
  <2>3. /\ ~LoopReleasing(q)' /\ ~Acquiring(q)' /\ ~Deleting(q)'
        /\ ~ChainReleasing(q)'
    BY <1>2, <1>3
       DEF LoopReleasing, Acquiring, Deleting, ChainReleasing, Idle, Releases
  <2>4. RowInv(q)'
    BY <1>2, <1>5, <2>1, <2>2 DEF Always, RowInv, IsCancelled, Recorded
  <2>5. LeaseInv(q)' /\ CleanupInv(q)'
    BY <1>2, <1>6, <2>1, <2>2, <2>3
       DEF Always, LeaseInv, CleanupInv, CleansUp
  <2>6. ASSUME NotResumed
        PROVE  Undisturbed(q)'
    <3>1. Undisturbed(q)
      BY <2>1, <2>6
    <3>2. ChainInv(q)'
      BY <1>2, <1>3 DEF ChainInv, Idle
    <3>3. IntentInv(q)'
      BY <1>2, <1>5, <2>3, <3>1
         DEF Undisturbed, IntentInv, Active, IsCancelled
    <3>4. MarkInv(q)'
      BY <1>2, <2>2, <2>3, <3>1
         DEF Undisturbed, MarkInv, Active, IsCancelled, Late
    <3>5. SentInv(q)'
      BY <1>2, <1>6, <2>2, <2>3, <3>1 DEF Undisturbed, SentInv, Sent
    <3>6. ShareInv(q)'
      BY <1>2, <2>2, <3>1 DEF Undisturbed, ShareInv, Foreign
    <3> QED
      BY <3>2, <3>3, <3>4, <3>5, <3>6 DEF Undisturbed
  <2> QED
    BY <2>1, <2>4, <2>5, <2>6 DEF Always
<1> QED
  BY <1>7, <1>8, <1>9, <1>10, <1>11 DEF DispatchInv

-----------------------------------------------------------------------------
(***************************************************************************)
(* The compaction, between two handlers or after a drain.                  *)
(***************************************************************************)
LEMMA CompactFacts ==
  ASSUME Types, RequestsInv, NEW forced, Compact(forced),
         UNCHANGED <<age>>, NEW q \in Ids
  PROVE  /\ row'[q] = row[q] \/ (row'[q] = NoRow /\ ~Unreleased(q)
                                 /\ row[q].state \in TerminalStates)
         /\ intent'[q] = intent[q]
            \/ /\ intent'[q] = NoIntent
               /\ intent[q].state = "granted" => row'[q] = NoRow
         /\ intent'[q].state = "granted" => row'[q] # NoRow
         /\ IsCancelled(q)' => IsCancelled(q)
         /\ IsCancelled(q) /\ Active(q)' => IsCancelled(q)'
         /\ Active(q)' <=> Active(q)
<1>1. /\ row'[q] = IF Kept(q, forced) THEN row[q] ELSE NoRow
      /\ intent'[q] = IF \/ intent[q].state \in {"not-granted", "cancelled"}
                         \/ intent[q].state = "granted" /\ row'[q] = NoRow
                        THEN NoIntent ELSE intent[q]
      /\ q \in cancelled' <=>
           /\ q \in cancelled
           /\ \/ ~forced /\ age[q] # "aged"
              \/ intent'[q].state \in {"intended", "granted", "ambiguous"}
              \/ row'[q].state \in ActiveStates
  BY DEF Compact
<1>2. row'[q] = row[q] \/ (row'[q] = NoRow /\ ~Unreleased(q)
                           /\ row[q].state \in TerminalStates)
  BY <1>1 DEF Kept
<1>3. Active(q)' <=> Active(q)
  BY <1>2, NewRows DEF Active, ActiveStates, TerminalStates
<1>4. intent'[q].state = "granted" => row'[q] # NoRow
  BY <1>1 DEF NoIntent
<1> QED
  BY <1>1, <1>2, <1>3, <1>4 DEF IsCancelled, Active

LEMMA CompactKeeps ==
  ASSUME Types, EndInv, RequestsInv, NEW forced, Compact(forced),
         loop = Idle, \A r \in Ids : chain[r] = Idle,
         UNCHANGED <<chain, loop, mode, drains, queue, age, lease, drawn, run>>,
         UNCHANGED drain \/ drain' = Idle
  PROVE  /\ row' \in [Ids -> RowType] /\ intent' \in [Ids -> IntentType]
         /\ cancelled' \subseteq cancelled /\ UNCHANGED inbox
         /\ EndInv' /\ RequestsInv'
<1>1. /\ row' \in [Ids -> RowType] /\ intent' \in [Ids -> IntentType]
      /\ cancelled' \subseteq cancelled /\ UNCHANGED inbox
  <2>1. NoIntent \in IntentType /\ NoRow \in RowType
    BY NewRows, ConstantTypes DEF NoIntent, IntentType
  <2>2. \A q \in Ids : row[q] \in RowType /\ intent[q] \in IntentType
    BY Unchains
  <2>3. /\ row' = [r \in Ids |-> IF Kept(r, forced) THEN row[r] ELSE NoRow]
        /\ intent' = [r \in Ids |->
             IF \/ intent[r].state \in {"not-granted", "cancelled"}
                \/ intent[r].state = "granted" /\ row'[r] = NoRow
               THEN NoIntent ELSE intent[r]]
        /\ cancelled' \subseteq cancelled /\ UNCHANGED inbox
    BY DEF Compact
  <2> QED
    BY <2>1, <2>2, <2>3
<1>2. \A q : ~Acquiring(q)' /\ ~LoopReleasing(q)' /\ ~Deleting(q)'
  BY DEF Acquiring, LoopReleasing, Deleting, Idle, Releases
<1>3. EndInv'
  <2> SUFFICES ASSUME NEW q \in Requests, Ended(q)'
               PROVE  /\ intent'[q].state \notin {"intended", "granted"}
                      /\ IsCancelled(q)' \/ ~Active(q)'
    BY <1>2 DEF EndInv, Ids
  <2>1. q \in Ids /\ Ended(q)
    BY <1>1 DEF Ids, Ended, EndOf
  <2>2. /\ intent[q].state \notin {"intended", "granted"}
        /\ IsCancelled(q) \/ ~Active(q)
    BY <2>1 DEF EndInv
  <2> QED
    BY <2>1, <2>2, CompactFacts DEF NoIntent
<1>4. RequestsInv'
  <2> SUFFICES ASSUME NEW q \in Ids
               PROVE  Always(q)' /\ (NotResumed' => Undisturbed(q)')
    BY DEF RequestsInv
  <2>1. /\ Always(q) /\ (NotResumed => Undisturbed(q))
        /\ NotResumed' <=> NotResumed
    BY DEF RequestsInv, NotResumed
  <2>2. /\ \A d : Recorded(q, d)' <=> Recorded(q, d)
        /\ Unrecorded(q)' <=> Unrecorded(q)
        /\ \A d : Alone(q, d)' <=> Alone(q, d)
    BY SameRecords
  <2>3. DrainReleasing(q)' => DrainReleasing(q) /\ UNCHANGED drain
    BY DEF DrainReleasing, Idle, Releases
  <2>4. row'[q] = row[q] \/ (row'[q] = NoRow /\ ~Unreleased(q)
                             /\ row[q].state \in TerminalStates)
    BY CompactFacts
  <2>5. RowInv(q)'
    <3>1. row'[q].state = "started" => Recorded(q, row'[q].del)
      BY <2>1, <2>4, NewRows DEF Always, RowInv
    <3>2. (row[q].state = "started" => Recorded(q, row[q].del))'
      BY <3>1 DEF Recorded
    <3>3. /\ (row[q].state = "absent" => row[q] = NoRow)'
          /\ (age[q] = "unborn" => row[q] = NoRow /\ q \notin Requests)'
      BY <2>1, <2>4 DEF Always, RowInv
    <3>4. /\ (intent[q].state = "granted" => row[q] # NoRow)'
          /\ (intent[q].state = "none" => intent[q] = NoIntent)'
          /\ (IsCancelled(q) => intent[q].state \notin {"intended", "granted"})'
      BY <2>1, CompactFacts DEF Always, RowInv, NoIntent
    <3> QED
      BY <3>2, <3>3, <3>4 DEF RowInv
  <2>6. LeaseInv(q)' /\ CleanupInv(q)'
    <3>1. row'[q].res <= drawn[q]
      BY <2>1, <2>4, NewRows, Unchains, ConstantTypes
         DEF Always, LeaseInv, NoId
    <3> QED
      BY <1>2, <2>1, <2>2, <2>3, <3>1
         DEF Always, LeaseInv, CleanupInv, CleansUp
  <2>7. ASSUME NotResumed
        PROVE  Undisturbed(q)'
    <3>1. Undisturbed(q)
      BY <2>1, <2>7
    <3>2. ChainInv(q)'
      BY DEF ChainInv, Idle
    <3>3. IntentInv(q)'
      <4>1. ASSUME Active(q)', q \in Requests
            PROVE  (intent[q].state = "granted" \/ IsCancelled(q))'
        <5>1. Active(q) /\ row'[q] # NoRow
          BY <4>1, CompactFacts, NewRows DEF Active, ActiveStates
        <5>2. intent[q].state = "granted" \/ IsCancelled(q)
          BY <3>1, <4>1, <5>1 DEF Undisturbed, IntentInv
        <5> QED
          BY <4>1, <5>1, <5>2, CompactFacts
      <4> QED
        BY <1>2, <4>1 DEF IntentInv
    <3>4. MarkInv(q)'
      <4>1. ASSUME Unrecorded(q), Active(q)', ~Late(q)', ~IsCancelled(q)'
            PROVE  ~row'[q].released
        <5>1. Active(q) /\ ~IsCancelled(q) /\ ~Late(q)
          BY <4>1, CompactFacts DEF Late
        <5> QED
          BY <2>4, <3>1, <4>1, <5>1, NewRows DEF Undisturbed, MarkInv
      <4> QED
        BY <1>2, <2>2, <4>1 DEF MarkInv
    <3>5. SentInv(q)'
      <4> SUFFICES ASSUME NEW d \in Deliveries, Sent(q, d)'
                   PROVE  /\ row'[q].del = d /\ row'[q].res = lease'[q].id
                          /\ ~row'[q].released
                          /\ ~ChainReleasing(q)' /\ ~LoopReleasing(q)'
                          /\ DrainReleasing(q)' => (drain.id = lease[q].id)'
        BY DEF SentInv
      <4>1. Sent(q, d) /\ lease[q].id # NoId
        BY <2>2 DEF Sent
      <4>2. /\ row[q].del = d /\ row[q].res = lease[q].id /\ ~row[q].released
            /\ DrainReleasing(q) => drain.id = lease[q].id
        BY <3>1, <4>1 DEF Undisturbed, SentInv
      <4>3. Unreleased(q)
        BY <4>1, <4>2 DEF Unreleased
      <4>4. ~ChainReleasing(q)'
        BY DEF ChainReleasing, Idle, Releases
      <4> QED
        BY <1>2, <2>3, <2>4, <4>2, <4>3, <4>4
    <3>6. ShareInv(q)'
      <4>1. Foreign(q, row[q].res)'
        BY <2>2, <2>4, <3>1, NewRows DEF Undisturbed, ShareInv, Foreign
      <4> QED
        BY <2>2, <3>1, <4>1 DEF Undisturbed, ShareInv, Idle
    <3> QED
      BY <3>2, <3>3, <3>4, <3>5, <3>6 DEF Undisturbed
  <2> QED
    BY <2>1, <2>5, <2>6, <2>7 DEF Always
<1> QED
  BY <1>1, <1>3, <1>4

LEMMA SettleEndsKeeps ==
  ASSUME DispatchInv, SettleEnds
  PROVE  DispatchInv'
<1>1. Types /\ PhaseInv /\ OrderInv /\ EndInv /\ RequestsInv
  BY DEF DispatchInv
<1>2. /\ UNCHANGED <<mode, chain, loop, queue, age, lease, drawn, run,
                     evictions, drains>>
      /\ drain' = Idle /\ drain # Idle
      /\ phase' = IF phase = "settling" THEN "none" ELSE phase
  BY DEF SettleEnds, SettlementOver, DrainGoes, world, Idle
<1>3. PhaseInv'
  BY <1>1, <1>2, PlainDrainFrames DEF PhaseInv, Settling, NotResumed
<1>4. CASE Drained /\ Compact(TRUE)
  <2>1. loop = Idle /\ \A r \in Ids : chain[r] = Idle
    BY <1>4 DEF Drained, Quiet
  <2>2. /\ row' \in [Ids -> RowType] /\ intent' \in [Ids -> IntentType]
        /\ cancelled' \subseteq cancelled /\ UNCHANGED inbox
        /\ EndInv' /\ RequestsInv'
    BY <1>1, <1>2, <1>4, <2>1, CompactKeeps
  <2>3. Types'
    BY <1>1, <1>2, <2>2, PlainDrainFrames
       DEF Types, DispatchTypeOK, FramesOK, QueueOK
  <2>4. OrderInv'
    BY <1>1, <1>2, <2>2 DEF OrderInv, EndOf
  <2> QED
    BY <1>3, <2>2, <2>3, <2>4 DEF DispatchInv
<1>5. CASE UNCHANGED <<inbox, intent, cancelled, row>>
  <2>1. /\ NotResumed' => NotResumed
        /\ drains' \in Nat /\ mode' \in {"running", "drained"}
    BY <1>1, <1>2 DEF NotResumed, Types, FramesOK, DispatchTypeOK
  <2>2. \A q \in Ids : ~DrainReleasing(q)'
    BY <1>2, PlainDrainFrames DEF DrainReleasing, Releases
  <2> QED
    BY <1>2, <1>3, <1>5, <2>1, <2>2, PlainDrainFrames, DrainAside
<1> QED
  BY <1>4, <1>5 DEF SettleEnds

LEMMA HandlerStartsKeeps ==
  ASSUME DispatchInv, HandlerStarts
  PROVE  DispatchInv'
<1>1. Types /\ PhaseInv /\ OrderInv /\ EndInv /\ RequestsInv
  BY DEF DispatchInv
<1>2. /\ UNCHANGED <<mode, chain, loop, drain, queue, age, lease, drawn, run,
                     evictions, drains>>
      /\ phase = "none" /\ \E forced \in BOOLEAN : Compact(forced)
      /\ \/ mode = "running" /\ phase' = "polling"
         \/ mode # "running" /\ drain = Idle /\ phase' = "settling"
  BY DEF HandlerStarts, world
<1>3. loop = Idle /\ \A r \in Ids : chain[r] = Idle
  BY <1>1, <1>2 DEF PhaseInv
<1>4. /\ row' \in [Ids -> RowType] /\ intent' \in [Ids -> IntentType]
      /\ cancelled' \subseteq cancelled /\ UNCHANGED inbox
      /\ EndInv' /\ RequestsInv'
  <2>1. PICK forced \in BOOLEAN : Compact(forced)
    BY <1>2
  <2> QED BY <1>1, <1>2, <1>3, <2>1, CompactKeeps
<1>5. Types'
  BY <1>1, <1>2, <1>4 DEF Types, DispatchTypeOK, FramesOK, QueueOK
<1>6. OrderInv'
  BY <1>1, <1>2, <1>4 DEF OrderInv, EndOf
<1>7. PhaseInv'
  BY <1>1, <1>2, <1>3 DEF PhaseInv, NotResumed, Settling, Idle
<1> QED
  BY <1>4, <1>5, <1>6, <1>7 DEF DispatchInv

-----------------------------------------------------------------------------
(***************************************************************************)
(* The messages, the acquisition and scale-up.                             *)
(***************************************************************************)
LEMMA ScaleUpKeeps ==
  ASSUME DispatchInv, NEW r \in Surplus, ScaleUp(r)
  PROVE  DispatchInv'
<1>1. Types /\ PhaseInv /\ OrderInv /\ EndInv /\ RequestsInv
  BY DEF DispatchInv
<1>2. /\ UNCHANGED <<mode, inbox, intent, cancelled, chain, phase, loop, drain,
                     queue, lease, drawn, run, evictions, drains>>
      /\ phase = "working" /\ loop = Idle /\ age[r] = "unborn"
      /\ row' = [row EXCEPT ![r] = NewRow("pending", 0)]
      /\ age' = [age EXCEPT ![r] = "fresh"]
  BY DEF ScaleUp, memory
<1>3. /\ r \in Ids /\ r \notin Requests /\ row[r] = NoRow
      /\ Always(r) /\ (NotResumed => Undisturbed(r))
      /\ NotResumed' <=> NotResumed
  BY <1>1, <1>2 DEF Ids, RequestsInv, Always, RowInv, NotResumed
<1>4. /\ row' \in [Ids -> RowType] /\ \A q \in Ids \ {r} : row'[q] = row[q]
      /\ row'[r].state = "pending" /\ row'[r].res = NoId
      /\ ~row'[r].released /\ row'[r] # NoRow
      /\ age' \in [Ids -> {"unborn", "fresh", "late", "aged"}]
      /\ \A q \in Ids \ {r} : age'[q] = age[q]
      /\ age'[r] = "fresh"
  BY <1>1, <1>2, <1>3, NewRows, ConstantTypes DEF Types, DispatchTypeOK
<1>5. /\ \A d : Recorded(r, d)' <=> Recorded(r, d)
      /\ Unrecorded(r)' <=> Unrecorded(r)
      /\ \A d : Alone(r, d)' <=> Alone(r, d)
  BY <1>2, SameRecords
<1>6. \A q : ~Acquiring(q)' /\ ~LoopReleasing(q)' /\ ~Deleting(q)'
  BY <1>2 DEF Acquiring, LoopReleasing, Deleting, Idle, Releases
<1>7. Types'
  BY <1>1, <1>2, <1>4 DEF Types, DispatchTypeOK, FramesOK, QueueOK
<1>8. PhaseInv' /\ OrderInv'
  BY <1>1, <1>2 DEF PhaseInv, NotResumed, Settling, OrderInv, EndOf
<1>9. EndInv'
  BY <1>1, <1>2, <1>3, <1>4, <1>6
     DEF EndInv, Ended, EndOf, IsCancelled, Active, Ids
<1>10. Always(r)'
  <2>1. RowInv(r)'
    BY <1>2, <1>3, <1>4 DEF Always, RowInv, IsCancelled
  <2>2. LeaseInv(r)'
    BY <1>1, <1>2, <1>3, <1>4, <1>6, Unchains, ConstantTypes
       DEF Always, LeaseInv, DrainReleasing, NoId
  <2>3. CleanupInv(r)'
    BY <1>2, <1>3, <1>5 DEF Always, CleanupInv, CleansUp, DrainReleasing
  <2> QED
    BY <2>1, <2>2, <2>3 DEF Always
<1>11. ASSUME NotResumed
       PROVE  Undisturbed(r)'
  <2>1. Undisturbed(r) /\ Always(r)
    BY <1>3, <1>11
  <2>2. chain[r] = Idle \/ CleansUp(chain[r])
    BY <1>3, <2>1, NewRows
       DEF Undisturbed, ChainInv, Active, ActiveStates
  <2>3. ChainInv(r)'
    BY <1>2, <2>2 DEF ChainInv, Idle, CleansUp
  <2>4. IntentInv(r)' /\ MarkInv(r)'
    BY <1>3, <1>4, <1>6 DEF IntentInv, MarkInv
  <2>5. ASSUME NEW d \in Deliveries, Sent(r, d)'
        PROVE  FALSE
    <3>1. Sent(r, d) /\ lease[r].id # NoId
      BY <1>2, <1>5, <2>5 DEF Sent
    <3> QED
      BY <1>3, <2>1, <3>1, NewRows DEF Undisturbed, SentInv
  <2>6. ShareInv(r)'
    BY <1>2, <1>4, <1>5, <2>1, <2>2
       DEF Undisturbed, ShareInv, Foreign, Idle, CleansUp
  <2> QED
    BY <2>3, <2>4, <2>5, <2>6 DEF Undisturbed, SentInv
<1>12. RequestsInv'
  <2>1. ASSUME NEW q \in Ids \ {r}
        PROVE  Harmless(q)
    BY <1>2, <1>4, <1>6
       DEF Harmless, SameLease, Kept3, Late, Recorded
  <2> QED
    BY <1>1, <1>3, <1>10, <1>11, <2>1, OneRequest
<1> QED
  BY <1>7, <1>8, <1>9, <1>12 DEF DispatchInv

\* The result of an acquisition; a grant brings the row.
LEMMA AnsweredKeeps ==
  ASSUME DispatchInv,
         Granted \/ NotGranted("not-granted") \/ NotGranted("ambiguous")
  PROVE  DispatchInv'
<1>1. Types /\ PhaseInv /\ OrderInv /\ EndInv /\ RequestsInv
  BY DEF DispatchInv
<1>2. PICK r \in Requests, state \in {"granted", "not-granted", "ambiguous"},
           new \in {NewRow("pending", loop.del), NewRow("cancelled", loop.del)} :
      /\ r \in Ids /\ Acquiring(r) /\ loop.del \in Deliveries /\ loop # Idle
      /\ UNCHANGED <<mode, inbox, cancelled, chain, phase, drain, queue, age,
                     lease, drawn, run, evictions, drains>>
      /\ loop' = Idle
      /\ intent' = [intent EXCEPT ![r] =
                      IF intent[r].state = "intended"
                        THEN [intent[r] EXCEPT !.state = state] ELSE intent[r]]
      /\ \/ /\ state = "granted"
            /\ row' = [row EXCEPT ![r] =
                         IF row[r] # NoRow THEN row[r] ELSE new]
         \/ state # "granted" /\ UNCHANGED row
  <2>1. loop.pc = "acquire"
    BY DEF Granted, NotGranted
  <2>2. loop.req \in Requests /\ loop.del \in Deliveries /\ loop # Idle
    BY <1>1, <2>1, LoopFrameFacts DEF Types, FramesOK
  <2>3. loop.req \in Ids /\ Acquiring(loop.req)
    BY <2>1, <2>2 DEF Ids, Acquiring
  <2>4. intent[loop.req] \in IntentType
    BY <1>1, <2>3, Unchains
  <2>5. \A state : Answered(state)
          => intent' = [intent EXCEPT ![loop.req] =
               IF intent[loop.req].state = "intended"
                 THEN [intent[loop.req] EXCEPT !.state = state]
                 ELSE intent[loop.req]]
    BY <2>4 DEF Answered, IntentType
  <2>6. CASE Granted
    <3>1. /\ UNCHANGED <<mode, inbox, cancelled, chain, phase, drain, queue,
                         age, lease, drawn, run, evictions, drains>>
          /\ loop' = Idle /\ Answered("granted")
          /\ row' = [row EXCEPT ![loop.req] =
               IF row[loop.req] # NoRow THEN row[loop.req]
               ELSE NewRow(IF IsCancelled(loop.req) THEN "cancelled"
                                                    ELSE "pending", loop.del)]
      BY <2>6 DEF Granted, LoopFrame, LoopGoes
    <3> QED
      BY <2>2, <2>3, <2>5, <3>1
  <2>7. ASSUME NEW state \in {"not-granted", "ambiguous"}, NotGranted(state)
        PROVE  /\ UNCHANGED <<mode, inbox, cancelled, chain, phase, drain,
                              queue, age, lease, drawn, run, evictions, drains,
                              row>>
               /\ loop' = Idle /\ Answered(state)
    BY <2>7 DEF NotGranted, LoopFrame, LoopGoes
  <2> QED
    BY <2>2, <2>3, <2>5, <2>6, <2>7
<1>3. /\ Always(r) /\ (NotResumed => Undisturbed(r))
      /\ NotResumed' <=> NotResumed
      /\ ~Ended(r) /\ phase \in InFlight
      /\ NotResumed => intent[r].state = "intended"
  BY <1>1, <1>2, LoopBusy
     DEF RequestsInv, NotResumed, EndInv, Undisturbed, IntentInv
<1>4. /\ intent' \in [Ids -> IntentType]
      /\ \A q \in Ids \ {r} : intent'[q] = intent[q]
      /\ intent'[r].state \in {intent[r].state, state}
      /\ intent'[r].state # "intended"
      /\ intent'[r].state = "none" => intent'[r] = intent[r]
      /\ intent'[r].state = "granted"
           => intent[r].state = "granted" \/ state = "granted"
      /\ intent[r].state \notin {"intended"} => intent'[r] = intent[r]
      /\ intent[r].state = "intended" => intent'[r].state = state
  <2>1. intent \in [Ids -> IntentType] /\ intent[r] \in IntentType
    BY <1>1, <1>2, Unchains DEF Unchained
  <2>2. [intent[r] EXCEPT !.state = state] \in IntentType
        /\ [intent[r] EXCEPT !.state = state].state = state
    BY <2>1 DEF IntentType
  <2> QED
    BY <1>2, <2>1, <2>2
<1>5. /\ row' \in [Ids -> RowType] /\ \A q \in Ids \ {r} : row'[q] = row[q]
      /\ \/ row'[r] = row[r]
         \/ /\ row[r] = NoRow /\ state = "granted"
            /\ row'[r].state \in {"pending", "cancelled"}
            /\ row'[r].res = NoId /\ ~row'[r].released /\ row'[r] # NoRow
      /\ state = "granted" => row'[r] # NoRow
  <2>1. row \in [Ids -> RowType] /\ row[r] \in RowType
    BY <1>1, <1>2, Unchains DEF Unchained
  <2>2. /\ new \in RowType /\ new.state \in {"pending", "cancelled"}
        /\ new.res = NoId /\ ~new.released /\ new # NoRow
    BY <1>2, NewRows
  <2> QED
    BY <1>2, <2>1, <2>2
<1>6. /\ \A d : Recorded(r, d)' <=> Recorded(r, d)
      /\ Unrecorded(r)' <=> Unrecorded(r)
      /\ \A d : Alone(r, d)' <=> Alone(r, d)
  BY <1>2, SameRecords
<1>7. \A q : ~Acquiring(q)' /\ ~LoopReleasing(q)' /\ ~Deleting(q)'
  BY <1>2 DEF Acquiring, LoopReleasing, Deleting, Idle, Releases
<1>8. Types'
  <2>1. Idle \in LoopFrames /\ Idle.pc # "delete"
    BY DEF LoopFrames, Idle
  <2> QED
    BY <1>1, <1>2, <1>4, <1>5, <2>1
       DEF Types, DispatchTypeOK, FramesOK, QueueOK
<1>9. PhaseInv' /\ OrderInv'
  BY <1>1, <1>2, <1>3
     DEF PhaseInv, NotResumed, Settling, OrderInv, EndOf, Idle
<1>10. EndInv'
  <2> SUFFICES ASSUME NEW q \in Requests, Ended(q)'
               PROVE  /\ intent'[q].state \notin {"intended", "granted"}
                      /\ IsCancelled(q)' \/ (chain'[q] = Idle /\ ~Active(q)')
    BY <1>7 DEF EndInv
  <2>1. q \in Ids /\ Ended(q) /\ q # r
    BY <1>2, <1>3 DEF Ids, Ended, EndOf
  <2> QED
    BY <1>1, <1>2, <1>4, <1>5, <2>1 DEF EndInv, IsCancelled, Active
<1>11. Always(r)'
  <2>1. RowInv(r)'
    <3>1. IsCancelled(r) => intent'[r].state \notin {"intended", "granted"}
      BY <1>3, <1>4 DEF Always, RowInv
    <3>2. row'[r].state = "started" => Recorded(r, row'[r].del)
      BY <1>3, <1>5 DEF Always, RowInv
    <3>3. age[r] # "unborn"
      BY <1>2, <1>3 DEF Always, RowInv
    <3>4. (intent[r].state = "granted" => row[r] # NoRow)'
      BY <1>3, <1>4, <1>5 DEF Always, RowInv
    <3>5. row'[r].state = "absent" => row'[r] = NoRow
      BY <1>3, <1>5 DEF Always, RowInv
    <3>6. intent'[r].state = "none" => intent'[r] = NoIntent
      BY <1>3, <1>4 DEF Always, RowInv
    <3> QED
      BY <1>2, <3>1, <3>2, <3>3, <3>4, <3>5, <3>6
         DEF RowInv, IsCancelled, Recorded
  <2>2. LeaseInv(r)'
    BY <1>1, <1>2, <1>3, <1>5, <1>7, Unchains, ConstantTypes
       DEF Always, LeaseInv, DrainReleasing, NoId
  <2>3. CleanupInv(r)'
    BY <1>2, <1>3, <1>6 DEF Always, CleanupInv, CleansUp, DrainReleasing
  <2> QED
    BY <2>1, <2>2, <2>3 DEF Always
<1>12. ASSUME NotResumed
       PROVE  Undisturbed(r)'
  <2>1. Undisturbed(r) /\ Always(r) /\ intent[r].state = "intended"
    BY <1>3, <1>12
  <2>2. ~IsCancelled(r) /\ (Active(r) => FALSE)
    BY <1>2, <2>1 DEF Undisturbed, IntentInv, Always, RowInv
  <2>3. chain[r] = Idle \/ CleansUp(chain[r])
    BY <2>1, <2>2 DEF Undisturbed, ChainInv
  <2>4. ChainInv(r)'
    BY <1>2, <2>3 DEF ChainInv, Idle, CleansUp
  <2>5. IntentInv(r)'
    <3>1. Active(r)' => intent'[r].state = "granted"
      BY <1>4, <1>5, <2>1, <2>2 DEF Active
    <3> QED
      BY <1>7, <3>1 DEF IntentInv
  <2>6. MarkInv(r)'
    <3>1. Active(r)' => ~row'[r].released
      BY <1>5, <2>2 DEF Active
    <3> QED
      BY <1>7, <3>1 DEF MarkInv
  <2>7. SentInv(r)'
    <3> SUFFICES ASSUME NEW d \in Deliveries, Sent(r, d)'
                 PROVE  /\ row'[r].del = d /\ row'[r].res = lease'[r].id
                        /\ ~row'[r].released
                        /\ ChainReleasing(r)' => chain'[r].id = lease'[r].id
                        /\ DrainReleasing(r)' => (drain.id = lease[r].id)'
      BY <1>7 DEF SentInv
    <3>1. Sent(r, d) /\ lease[r].id # NoId
      BY <1>2, <1>6 DEF Sent
    <3>2. row[r] # NoRow
      BY <2>1, <3>1, NewRows DEF Undisturbed, SentInv
    <3> QED
      BY <1>2, <1>5, <2>1, <3>1, <3>2
         DEF Undisturbed, SentInv, ChainReleasing, DrainReleasing
  <2>8. ShareInv(r)'
    BY <1>2, <1>5, <1>6, <2>1, <2>3
       DEF Undisturbed, ShareInv, Foreign, Idle, CleansUp
  <2> QED
    BY <2>4, <2>5, <2>6, <2>7, <2>8 DEF Undisturbed
<1>13. RequestsInv'
  <2>1. ASSUME NEW q \in Ids \ {r}
        PROVE  Harmless(q)
    BY <1>2, <1>4, <1>5, <1>7, SameHarmless DEF SameLease
  <2> QED
    BY <1>1, <1>3, <1>11, <1>12, <2>1, OneRequest
<1> QED
  BY <1>8, <1>9, <1>10, <1>13 DEF DispatchInv

\* A message is deleted at GitHub and acknowledged; what it says is done next.
LEMMA MessageDeletedKeeps ==
  ASSUME DispatchInv, MessageDeleted
  PROVE  DispatchInv'
<1>1. Types /\ PhaseInv /\ OrderInv /\ EndInv /\ RequestsInv
  BY DEF DispatchInv
<1>2. PICK m \in Messages, r \in Requests :
        /\ m = loop.msg /\ loop.pc = "delete" /\ loop # Idle
        /\ r = queue[m].req /\ r \in Ids
        /\ LoopSteps /\ UNCHANGED phase
        /\ inbox' = [inbox EXCEPT ![m] = "acknowledged"]
        /\ queue' = [queue EXCEPT ![m].held = FALSE]
        /\ \/ loop' = Idle
           \/ /\ EndOf(m, r) /\ row[r].res # NoId
              /\ loop' = ReleaseFrame(r, row[r].res, "message")
           \/ /\ intent[r].state = "intended"
              /\ loop' = [pc |-> "gate", req |-> r]
  <2>1. loop.pc = "delete" /\ UNCHANGED row /\ UNCHANGED intent
    BY DEF MessageDeleted
  <2>2. loop.msg \in Messages /\ loop # Idle
    BY <1>1, <2>1, LoopFrameFacts DEF Types, FramesOK
  <2>3. queue[loop.msg].req \in Requests
    BY <1>1, <2>1, <2>2 DEF Types, QueueOK
  <2>4. LoopSteps /\ UNCHANGED phase
    BY DEF MessageDeleted, LoopFrame, LoopSteps
  <2>5. \/ loop' = Idle
        \/ /\ EndOf(loop.msg, queue[loop.msg].req)
           /\ row[queue[loop.msg].req].res # NoId
           /\ loop' = ReleaseFrame(queue[loop.msg].req,
                                   row[queue[loop.msg].req].res, "message")
        \/ /\ intent[queue[loop.msg].req].state = "intended"
           /\ loop' = [pc |-> "gate", req |-> queue[loop.msg].req]
    BY <2>1 DEF MessageDeleted, AfterAcknowledgement, LoopGoes, ReleaseFrame,
                EndOf
  <2> QED
    BY <2>1, <2>2, <2>3, <2>4, <2>5 DEF MessageDeleted, Ids
<1>3. /\ queue' \in [Messages -> [kind : {"unsent", "offer", "end"},
                                  req : Requests \cup {NoId}, held : BOOLEAN]]
      /\ inbox' \in [Messages -> {"none", "stored", "acknowledged"}]
      /\ \A n \in Messages :
           /\ queue'[n].kind = queue[n].kind /\ queue'[n].req = queue[n].req
           /\ queue'[n].held => queue[n].held
           /\ inbox'[n] # "none" <=> inbox[n] # "none"
  <2>1. /\ queue \in [Messages -> [kind : {"unsent", "offer", "end"},
                                   req : Requests \cup {NoId}, held : BOOLEAN]]
        /\ inbox \in [Messages -> {"none", "stored", "acknowledged"}]
        /\ inbox[m] # "none"
    BY <1>1, <1>2 DEF Types, QueueOK, DispatchTypeOK, OrderInv
  <2> QED
    BY <1>2, <2>1
<1>4. /\ loop' \in LoopFrames /\ loop'.pc \in {"idle", "release", "gate"}
      /\ loop'.pc # "delete"
      /\ \A q \in Ids : LoopReleasing(q)' =>
           /\ q = r /\ EndOf(m, r) /\ (loop.pc = "release")'
           /\ (loop.id)' = row[r].res
      /\ \A q : Acquiring(q)' => q = r /\ intent[r].state = "intended"
  <2>1. CASE loop' = Idle
    BY <2>1
       DEF LoopFrames, Idle, LoopReleasing, Acquiring, Releases
  <2>2. CASE /\ EndOf(m, r) /\ row[r].res # NoId
             /\ loop' = ReleaseFrame(r, row[r].res, "message")
    <3>1. row[r].res \in LeaseIds
      BY <1>1, <1>2, <2>2, Unchains, ConstantTypes DEF LeaseIds, NoId
    <3>2. /\ loop' \in LoopFrames /\ loop'.pc = "release" /\ loop'.req = r
          /\ loop'.id = row[r].res
      BY <1>2, <2>2, <3>1, LoopReleaseFrames
    <3> QED
      BY <2>2, <3>2 DEF LoopReleasing, Acquiring
  <2>3. CASE intent[r].state = "intended" /\ loop' = [pc |-> "gate", req |-> r]
    BY <2>3 DEF LoopFrames, LoopReleasing, Acquiring, Releases
  <2> QED
    BY <1>2, <2>1, <2>2, <2>3
<1>5. phase \in InFlight
  BY <1>1, <1>2, LoopBusy
<1>6. Types'
  <2>1. QueueOK'
    BY <1>1, <1>3, <1>4 DEF Types, QueueOK
  <2> QED
    BY <1>1, <1>2, <1>3, <1>4, <2>1
       DEF Types, DispatchTypeOK, FramesOK, LoopSteps
<1>7. PhaseInv'
  BY <1>1, <1>2, <1>5, LoopKeepsPhases DEF LoopSteps, InFlight
<1>8. OrderInv'
  BY <1>1, <1>3, <1>4 DEF OrderInv, EndOf
<1>9. EndInv'
  <2> SUFFICES ASSUME NEW q \in Requests, Ended(q)'
               PROVE  /\ intent'[q].state \notin {"intended", "granted"}
                      /\ ~Acquiring(q)'
                      /\ IsCancelled(q)' \/ (chain'[q] = Idle /\ ~Active(q)')
    BY DEF EndInv
  <2>1. Ended(q)
    BY <1>3 DEF Ended, EndOf
  <2> QED
    BY <1>1, <1>2, <1>4, <2>1 DEF EndInv, LoopSteps, IsCancelled, Active
<1>10. ASSUME NEW q \in Ids
       PROVE  LoopFits(q)
  <2>1. NotResumed /\ EndOf(m, r) => IsCancelled(r)
    BY <1>1, <1>2 DEF RequestsInv, Undisturbed, IntentInv, Deleting
  <2>2. ~Deleting(q)'
    BY <1>4 DEF Deleting
  <2> QED
    BY <1>4, <2>1, <2>2 DEF LoopFits
<1>11. RequestsInv'
  BY <1>1, <1>2, <1>10, LoopKeepsRequests
<1> QED
  BY <1>6, <1>7, <1>8, <1>9, <1>11 DEF DispatchInv

\* A message is committed: what that is for every message
Polls(m) ==
  /\ UNCHANGED <<mode, chain, drain, queue, drawn, lease, run, evictions,
                 drains>>
  /\ phase = "polling" /\ phase' = "polled" /\ loop = Idle
  /\ loop' = [pc |-> "delete", msg |-> m]
  /\ queue[m].held /\ \A n \in Messages : queue[n].held => m <= n
  /\ inbox' = [inbox EXCEPT ![m] = IF @ = "none" THEN "stored" ELSE @]

LEMMA PollFacts ==
  ASSUME Types, PhaseInv, OrderInv, NEW m \in Messages, Polls(m)
  PROVE  /\ queue[m].req \in Requests /\ queue[m].req \in Ids
         /\ queue[m].kind \in {"offer", "end"}
         /\ inbox' \in [Messages -> {"none", "stored", "acknowledged"}]
         /\ inbox'[m] # "none"
         /\ \A n \in Messages \ {m} : inbox'[n] = inbox[n]
         /\ inbox[m] # "none" => inbox'[m] # "none"
         /\ loop' \in LoopFrames /\ QueueOK' /\ PhaseInv' /\ OrderInv'
         /\ \A q : ~Acquiring(q)' /\ ~LoopReleasing(q)'
         /\ \A q : Deleting(q)' <=> EndOf(m, q)
         /\ NotResumed' <=> NotResumed
         /\ \A q \in Ids :
              /\ \A d : Recorded(q, d)' <=> Recorded(q, d)
              /\ Unrecorded(q)' <=> Unrecorded(q)
              /\ \A d : Alone(q, d)' <=> Alone(q, d)
              /\ DrainReleasing(q)' <=> DrainReleasing(q)
              /\ ChainReleasing(q)' <=> ChainReleasing(q)
<1>1. queue[m].kind # "unsent" /\ queue[m].req \in Requests
      /\ queue[m].kind \in {"unsent", "offer", "end"}
  BY DEF Polls, Types, QueueOK
<1>2. /\ inbox' \in [Messages -> {"none", "stored", "acknowledged"}]
      /\ inbox'[m] # "none"
      /\ \A n \in Messages \ {m} : inbox'[n] = inbox[n]
  BY DEF Polls, Types, DispatchTypeOK
<1>3. /\ loop' \in LoopFrames /\ loop'.pc = "delete" /\ loop'.msg = m
  BY DEF Polls, LoopFrames
<1>4. QueueOK'
  BY <1>1, <1>3 DEF Polls, Types, QueueOK
<1>5. PhaseInv'
  BY DEF Polls, PhaseInv, NotResumed, Settling
<1>6. OrderInv'
  <2>1. /\ \A k, n \in Messages :
             (queue[k].kind # "unsent" /\ queue[n].kind = "unsent" => k < n)'
        /\ \A k, n \in Messages, r \in Requests :
             (EndOf(k, r) /\ queue[n].kind # "unsent" /\ queue[n].req = r
                => n <= k)'
    BY DEF Polls, OrderInv, EndOf
  <2>2. \A k \in Messages : inbox'[k] # "none" => queue'[k].kind # "unsent"
    BY <1>1, <1>2 DEF Polls, OrderInv
  <2>3. ASSUME NEW k \in Messages, NEW n \in Messages, inbox'[k] # "none",
               queue'[k].kind = "end", n < k
        PROVE  ~queue'[n].held
    <3>1. CASE k = m
      <4>1. n \in Int /\ m \in Int
        BY ConstantTypes
      <4> QED
        BY <2>3, <3>1, <4>1 DEF Polls
    <3>2. CASE k # m
      BY <1>2, <2>3, <3>2 DEF Polls, OrderInv
    <3> QED
      BY <3>1, <3>2
  <2>4. loop'.pc = "delete" => /\ (queue[loop.msg].held)'
                               /\ (inbox[loop.msg] # "none")'
    BY <1>2, <1>3 DEF Polls
  <2> QED
    BY <2>1, <2>2, <2>3, <2>4 DEF OrderInv
<1>7. /\ \A q : ~Acquiring(q)' /\ ~LoopReleasing(q)'
      /\ \A q : Deleting(q)' <=> EndOf(m, q)
      /\ NotResumed' <=> NotResumed
  BY <1>3
     DEF Polls, Acquiring, LoopReleasing, Releases, Deleting, EndOf,
         NotResumed
<1>8. \A q \in Ids :
        /\ \A d : Recorded(q, d)' <=> Recorded(q, d)
        /\ Unrecorded(q)' <=> Unrecorded(q)
        /\ \A d : Alone(q, d)' <=> Alone(q, d)
        /\ DrainReleasing(q)' <=> DrainReleasing(q)
        /\ ChainReleasing(q)' <=> ChainReleasing(q)
  <2>1. run' = run /\ drain' = drain /\ chain' = chain
    BY DEF Polls
  <2> QED
    BY <2>1, SameRecords DEF DrainReleasing, ChainReleasing
<1> QED
  BY <1>1, <1>2, <1>3, <1>4, <1>5, <1>6, <1>7, <1>8 DEF Ids

\* An offer of a request whose end is committed is not delivered any more.
LEMMA OfferedNotEnded ==
  ASSUME Types, OrderInv, NEW m \in Messages, queue[m].held,
         queue[m].kind = "offer"
  PROVE  ~Ended(queue[m].req)
<1> SUFFICES ASSUME NEW n \in Messages, EndOf(n, queue[m].req),
                    inbox[n] # "none"
             PROVE  FALSE
  BY DEF Ended
<1>1. queue[m].req \in Requests
  BY DEF Types, QueueOK
<1>2. m <= n
  BY <1>1 DEF OrderInv
<1>3. m # n
  BY DEF EndOf
<1>4. m < n
  BY <1>2, <1>3, ConstantTypes
<1> QED
  BY <1>4 DEF OrderInv, EndOf

\* A request is offered for the first time, or again after a failed start.
LEMMA OfferKeeps ==
  ASSUME DispatchInv, NEW m \in Messages, Polls(m), queue[m].kind = "offer",
         UNCHANGED cancelled, NEW r \in Requests, r = queue[m].req,
         NEW i \in IntentType, intent' = [intent EXCEPT ![r] = i],
         age' = [age EXCEPT ![r] = "fresh"],
         i.state \in {"intended", "cancelled"},
         IsCancelled(r) => i.state = "cancelled",
         \/ UNCHANGED row /\ intent[r] = NoIntent
         \/ /\ row' = [row EXCEPT ![r] = NoRow] /\ ~Unreleased(r)
            /\ ~IsCancelled(r) /\ row[r].state \in {"absent", "failed"}
  PROVE  DispatchInv'
<1>1. Types /\ PhaseInv /\ OrderInv /\ EndInv /\ RequestsInv
  BY DEF DispatchInv
<1>2. /\ UNCHANGED <<mode, chain, drain, queue, drawn, lease, run, evictions,
                     drains>>
      /\ loop = Idle /\ phase' = "polled"
  BY DEF Polls
<1>3. /\ r \in Ids /\ ~Ended(r)
      /\ Always(r) /\ (NotResumed => Undisturbed(r))
  BY <1>1, OfferedNotEnded DEF Polls, RequestsInv, Ids
<1>4. /\ intent' \in [Ids -> IntentType] /\ intent'[r] = i
      /\ \A q \in Ids \ {r} : intent'[q] = intent[q]
      /\ age' \in [Ids -> {"unborn", "fresh", "late", "aged"}]
      /\ age'[r] = "fresh" /\ \A q \in Ids \ {r} : age'[q] = age[q]
  BY <1>1, <1>3 DEF Types, DispatchTypeOK
<1>5. /\ row' \in [Ids -> RowType] /\ \A q \in Ids \ {r} : row'[q] = row[q]
      /\ \/ row'[r] = row[r] /\ intent[r] = NoIntent
         \/ /\ row'[r] = NoRow /\ ~Unreleased(r) /\ ~IsCancelled(r)
            /\ row[r].state \in {"absent", "failed"}
  <2>1. row \in [Ids -> RowType] /\ NoRow \in RowType
    BY <1>1, NewRows DEF Types, DispatchTypeOK
  <2>2. CASE UNCHANGED row /\ intent[r] = NoIntent
    BY <2>1, <2>2
  <2>3. CASE /\ row' = [row EXCEPT ![r] = NoRow] /\ ~Unreleased(r)
             /\ ~IsCancelled(r) /\ row[r].state \in {"absent", "failed"}
    <3>1. /\ row' \in [Ids -> RowType] /\ row'[r] = NoRow
          /\ \A q \in Ids \ {r} : row'[q] = row[q]
      BY <1>3, <2>1, <2>3
    <3> QED
      BY <2>3, <3>1
  <2> QED
    BY <2>2, <2>3
<1>6. \A q \in Ids : Active(q)' => Active(q)
  BY <1>5, NewRows DEF Active, ActiveStates
<1>7. Types'
  BY <1>1, <1>2, <1>4, <1>5, PollFacts DEF Types, DispatchTypeOK, FramesOK
<1>8. PhaseInv' /\ OrderInv'
  BY <1>1, PollFacts
<1>9. EndInv'
  <2> SUFFICES ASSUME NEW q \in Requests, Ended(q)'
               PROVE  /\ intent'[q].state \notin {"intended", "granted"}
                      /\ IsCancelled(q)' \/ (chain'[q] = Idle /\ ~Active(q)')
    BY <1>1, PollFacts DEF EndInv
  <2>1. Ended(q)
    <3>1. PICK n \in Messages : EndOf(n, q)' /\ inbox'[n] # "none"
      BY DEF Ended
    <3>2. EndOf(n, q) /\ n # m
      BY <1>2, <3>1 DEF EndOf
    <3> QED
      BY <1>1, <3>1, <3>2, PollFacts DEF Ended
  <2>2. q \in Ids /\ q # r
    BY <1>3, <2>1 DEF Ids
  <2> QED
    BY <1>1, <1>2, <1>4, <1>6, <2>1, <2>2 DEF EndInv, IsCancelled
<1>10. Always(r)'
  <2>1. RowInv(r)'
    BY <1>3, <1>4, <1>5, NewRows DEF Always, RowInv, IsCancelled, Recorded, Polls
  <2>2. LeaseInv(r)'
    <3>1. row'[r].res <= drawn[r]
      BY <1>1, <1>3, <1>5, NewRows, Unchains, ConstantTypes
         DEF Always, LeaseInv, NoId
    <3> QED
      BY <1>1, <1>2, <1>3, <3>1, PollFacts DEF Always, LeaseInv
  <2>3. CleanupInv(r)'
    BY <1>1, <1>2, <1>3, PollFacts DEF Always, CleanupInv, CleansUp
  <2> QED
    BY <2>1, <2>2, <2>3 DEF Always
<1>11. ASSUME NotResumed
       PROVE  Undisturbed(r)'
  <2>1. Undisturbed(r) /\ Always(r)
    BY <1>3, <1>11
  <2>2. ~Deleting(r)'
    BY <1>1, PollFacts DEF EndOf
  <2>3. ChainInv(r)'
    <3>1. CASE row'[r] = row[r]
      BY <1>2, <2>1, <3>1
         DEF Undisturbed, ChainInv, CleansUp, Active, IsCancelled
    <3>2. CASE row[r].state \in {"absent", "failed"}
      <4>1. chain[r] = Idle \/ CleansUp(chain[r])
        BY <2>1, <3>2 DEF Undisturbed, ChainInv, Active, ActiveStates
      <4> QED
        BY <1>2, <4>1 DEF ChainInv, Idle, CleansUp
    <3> QED
      BY <1>5, <3>1, <3>2
  <2>4. Active(r)' => IsCancelled(r)
    <3>1. CASE row'[r] = row[r] /\ intent[r] = NoIntent
      BY <2>1, <3>1 DEF Undisturbed, IntentInv, Active, NoIntent
    <3>2. CASE row'[r] = NoRow
      BY <3>2, NewRows DEF Active, ActiveStates
    <3> QED
      BY <1>5, <3>1, <3>2
  <2>5. IntentInv(r)' /\ MarkInv(r)'
    BY <1>1, <2>2, <2>4, PollFacts DEF IntentInv, MarkInv, IsCancelled
  <2>6. SentInv(r)'
    <3> SUFFICES ASSUME NEW d \in Deliveries, Sent(r, d)'
                 PROVE  /\ row'[r].del = d /\ row'[r].res = lease'[r].id
                        /\ ~row'[r].released
                        /\ ChainReleasing(r)' => chain'[r].id = lease'[r].id
                        /\ DrainReleasing(r)' => (drain.id = lease[r].id)'
      BY <1>1, PollFacts DEF SentInv
    <3>1. Sent(r, d) /\ lease[r].id # NoId
      BY <1>1, <1>2, <1>3, PollFacts DEF Sent
    <3>2. Unreleased(r)
      BY <2>1, <3>1 DEF Undisturbed, SentInv, Unreleased
    <3> QED
      BY <1>2, <1>5, <2>1, <3>1, <3>2
         DEF Undisturbed, SentInv, ChainReleasing, DrainReleasing
  <2>7. ShareInv(r)'
    <3>1. CASE row'[r] = row[r]
      BY <1>1, <1>2, <1>3, <2>1, <3>1, PollFacts
         DEF Undisturbed, ShareInv, Foreign
    <3>2. CASE row'[r] = NoRow /\ row[r].state \in {"absent", "failed"}
      <4>1. chain[r] = Idle \/ CleansUp(chain[r])
        BY <2>1, <3>2 DEF Undisturbed, ChainInv, Active, ActiveStates
      <4>2. chain'[r].pc # "reserved"
        BY <1>2, <4>1 DEF Idle, CleansUp
      <4>3. Foreign(r, row[r].res)'
        BY <3>2, NewRows DEF Foreign
      <4> QED
        BY <1>1, <1>2, <1>3, <2>1, <4>2, <4>3, PollFacts
           DEF Undisturbed, ShareInv
    <3> QED
      BY <1>5, <3>1, <3>2
  <2> QED
    BY <2>3, <2>5, <2>6, <2>7 DEF Undisturbed
<1>12. RequestsInv'
  <2>1. ASSUME NEW q \in Ids \ {r}
        PROVE  Harmless(q)
    <3>1. ~Deleting(q)' /\ ~LoopReleasing(q)' /\ ~Acquiring(q)'
      BY <1>1, PollFacts DEF EndOf
    <3> QED
      BY <1>2, <1>4, <1>5, <3>1
         DEF Harmless, SameLease, Kept3, Late, Recorded
  <2>2. NotResumed' <=> NotResumed
    BY <1>1, PollFacts
  <2> QED
    BY <1>1, <1>10, <1>11, <2>1, <2>2, OneRequest
<1> QED
  BY <1>7, <1>8, <1>9, <1>12 DEF DispatchInv

\* An offer that is refused
LEMMA RefusedKeeps ==
  ASSUME DispatchInv, NEW m \in Messages, Polls(m), queue[m].kind = "offer",
         UNCHANGED <<cancelled, intent, row, age>>
  PROVE  DispatchInv'
<1>1. Types /\ PhaseInv /\ OrderInv /\ EndInv /\ RequestsInv
  BY DEF DispatchInv
<1>2. Types' /\ PhaseInv' /\ OrderInv'
  BY <1>1, PollFacts DEF Types, DispatchTypeOK, FramesOK, Polls
<1>3. EndInv'
  <2>1. \A q : Ended(q)' => Ended(q)
    BY <1>1, PollFacts DEF Ended, EndOf, Polls
  <2>2. UNCHANGED chain
    BY DEF Polls
  <2> QED
    BY <1>1, <2>1, <2>2, PollFacts DEF EndInv, IsCancelled, Active
<1>4. ASSUME NEW q \in Ids
      PROVE  Harmless(q)
  <2>1. ~Deleting(q)' /\ ~LoopReleasing(q)' /\ ~Acquiring(q)'
    BY <1>1, PollFacts DEF EndOf
  <2> QED
    BY <2>1, SameHarmless DEF SameLease, Polls
<1>5. RequestsInv'
  BY <1>1, <1>4, NoRequest, PollFacts
<1> QED
  BY <1>2, <1>3, <1>5 DEF DispatchInv

\* GitHub reports the end of a request.
LEMMA EndKeeps ==
  ASSUME DispatchInv, NEW m \in Messages, Polls(m), queue[m].kind = "end",
         CommitEnd(queue[m].req)
  PROVE  DispatchInv'
<1>1. Types /\ PhaseInv /\ OrderInv /\ EndInv /\ RequestsInv
  BY DEF DispatchInv
<1>2. PICK r \in Requests :
        /\ r = queue[m].req /\ r \in Ids
        /\ UNCHANGED <<mode, chain, drain, queue, drawn, lease, run, evictions,
                       drains, age>>
        /\ phase' = "polled" /\ loop = Idle
        /\ cancelled' = cancelled \cup {r}
        /\ intent' = [intent EXCEPT ![r] =
             [intent[r] EXCEPT !.state =
                IF intent[r].state \in {"intended", "granted"}
                  THEN "cancelled" ELSE intent[r].state]]
        /\ row' = [row EXCEPT ![r] =
             IF row[r].state \in Cancellable THEN CancelledRow(row[r])
             ELSE row[r]]
  BY <1>1, PollFacts DEF Polls, CommitEnd
<1>3. Always(r) /\ (NotResumed => Undisturbed(r))
  BY <1>1, <1>2 DEF RequestsInv
<1>4. /\ intent' \in [Ids -> IntentType]
      /\ \A q \in Ids \ {r} : intent'[q] = intent[q]
      /\ intent'[r].state \notin {"intended", "granted"}
      /\ intent'[r].state = "none" => intent'[r] = intent[r]
  <2>1. intent \in [Ids -> IntentType] /\ intent[r] \in IntentType
    BY <1>1, <1>2, Unchains DEF Unchained
  <2>2. /\ [intent[r] EXCEPT !.state = "cancelled"] \in IntentType
        /\ [intent[r] EXCEPT !.state = "cancelled"].state = "cancelled"
        /\ [intent[r] EXCEPT !.state = intent[r].state] = intent[r]
    BY <2>1 DEF IntentType
  <2>3. \A new : intent' = [intent EXCEPT ![r] = new]
          => /\ intent'[r] = new
             /\ \A q \in Ids \ {r} : intent'[q] = intent[q]
    <3>1. r \in Ids
      BY <1>2
    <3> QED
      BY <2>1, <3>1
  <2>4. CASE intent[r].state \in {"intended", "granted"}
    <3>1. intent' = [intent EXCEPT ![r] =
                       [intent[r] EXCEPT !.state = "cancelled"]]
      BY <1>2, <2>4
    <3>2. /\ intent'[r] = [intent[r] EXCEPT !.state = "cancelled"]
          /\ \A q \in Ids \ {r} : intent'[q] = intent[q]
      BY <2>3, <3>1
    <3> QED
      BY <1>2, <2>1, <2>2, <3>1, <3>2
  <2>5. CASE intent[r].state \notin {"intended", "granted"}
    <3>1. intent' = [intent EXCEPT ![r] = intent[r]]
      BY <1>2, <2>2, <2>5
    <3>2. /\ intent'[r] = intent[r]
          /\ \A q \in Ids \ {r} : intent'[q] = intent[q]
      BY <2>3, <3>1
    <3> QED
      BY <1>2, <2>1, <2>5, <3>1, <3>2
  <2> QED
    BY <2>4, <2>5
<1>5. /\ row' \in [Ids -> RowType] /\ \A q \in Ids \ {r} : row'[q] = row[q]
      /\ row'[r].res = row[r].res /\ row'[r].del = row[r].del
      /\ row'[r].released = row[r].released
      /\ row'[r] = NoRow <=> row[r] = NoRow
      /\ \/ row'[r] = row[r]
         \/ row[r].state \in ActiveStates /\ row'[r].state = "cancelled"
  <2>1. row \in [Ids -> RowType] /\ row[r] \in RowType
    BY <1>1, <1>2, Unchains DEF Unchained
  <2>2. row[r].state \in Cancellable
          => row[r].state \in ActiveStates /\ row[r] # NoRow
    BY NewRows DEF Cancellable, ActiveStates
  <2> QED
    BY <1>2, <2>1, <2>2, RowEdits, NewRows DEF Kept3
<1>6. /\ IsCancelled(r)' /\ cancelled' \subseteq Requests
      /\ \A q \in Ids \ {r} : IsCancelled(q)' <=> IsCancelled(q)
      /\ \A q \in Ids : Active(q)' => Active(q)
  BY <1>1, <1>2, <1>5 DEF IsCancelled, Active, Types, DispatchTypeOK
<1>7. Types'
  BY <1>1, <1>2, <1>4, <1>5, <1>6, PollFacts DEF Types, DispatchTypeOK, FramesOK
<1>8. PhaseInv' /\ OrderInv'
  BY <1>1, PollFacts
<1>9. EndInv'
  <2> SUFFICES ASSUME NEW q \in Requests, Ended(q)', q # r
               PROVE  /\ intent'[q].state \notin {"intended", "granted"}
                      /\ IsCancelled(q)' \/ (chain'[q] = Idle /\ ~Active(q)')
    BY <1>1, <1>4, <1>6, PollFacts DEF EndInv
  <2>1. Ended(q)
    <3>1. PICK n \in Messages : EndOf(n, q)' /\ inbox'[n] # "none"
      BY DEF Ended
    <3>2. EndOf(n, q) /\ n # m
      BY <1>2, <3>1 DEF EndOf
    <3> QED
      BY <1>1, <3>1, <3>2, PollFacts DEF Ended
  <2>2. q \in Ids
    BY DEF Ids
  <2> QED
    BY <1>1, <1>2, <1>4, <1>6, <2>1, <2>2 DEF EndInv
<1>10. Always(r)'
  <2>1. RowInv(r)'
    <3>1. row'[r].state = "started" => row[r].state = "started"
      BY <1>5
    <3>2. (row[r].state = "started" => Recorded(r, row[r].del))'
      BY <1>1, <1>2, <1>3, <1>5, <3>1, PollFacts
         DEF Always, RowInv, Recorded, Polls
    <3>3. row'[r].state = "absent" => row'[r] = NoRow
      BY <1>3, <1>5 DEF Always, RowInv
    <3>4. age'[r] = "unborn" => row'[r] = NoRow /\ r \notin Requests
      BY <1>2, <1>3, <1>5 DEF Always, RowInv
    <3> QED
      BY <1>3, <1>4, <3>2, <3>3, <3>4 DEF Always, RowInv
  <2>2. LeaseInv(r)'
    BY <1>1, <1>2, <1>3, <1>5, PollFacts DEF Always, LeaseInv
  <2>3. CleanupInv(r)'
    BY <1>1, <1>2, <1>3, PollFacts DEF Always, CleanupInv, CleansUp
  <2> QED
    BY <2>1, <2>2, <2>3 DEF Always
<1>11. ASSUME NotResumed
       PROVE  Undisturbed(r)'
  <2>1. Undisturbed(r) /\ Always(r)
    BY <1>3, <1>11
  <2>2. ChainInv(r)'
    <3>1. Active(r) \/ row[r].state = "cancelled"
            => Active(r)' \/ row'[r].state = "cancelled"
      BY <1>5 DEF Active
    <3> QED
      BY <1>2, <1>5, <1>6, <2>1, <3>1
         DEF Undisturbed, ChainInv, CleansUp
  <2>3. IntentInv(r)' /\ MarkInv(r)'
    BY <1>1, <1>6, PollFacts DEF IntentInv, MarkInv
  <2>4. SentInv(r)'
    BY <1>1, <1>2, <1>5, <2>1, PollFacts DEF Undisturbed, SentInv, Sent
  <2>5. ShareInv(r)'
    <3>1. /\ \A d : Alone(r, d)' <=> Alone(r, d)
          /\ run' = run /\ chain' = chain
          /\ row'[r].res = row[r].res /\ row'[r].del = row[r].del
      BY <1>1, <1>2, <1>5, PollFacts
    <3>2. /\ Foreign(r, row[r].res) => Foreign(r, row[r].res)'
          /\ Foreign(r, chain[r].id) => Foreign(r, chain[r].id)'
      BY <3>1 DEF Foreign
    <3>3. (chain[r].pc = "reserved")' => chain[r].pc = "reserved"
      BY <1>2
    <3>4. \A d, e \in Deliveries :
            (d # e /\ run[r][d].res # NoId /\ run[r][d].res = run[r][e].res
               => \E c \in Deliveries \ {d, e} : Recorded(r, c))'
      BY <1>1, <1>2, <2>1, PollFacts DEF Undisturbed, ShareInv
    <3> QED
      BY <2>1, <3>2, <3>3, <3>4 DEF Undisturbed, ShareInv
  <2> QED
    BY <2>2, <2>3, <2>4, <2>5 DEF Undisturbed
<1>12. RequestsInv'
  <2>1. ASSUME NEW q \in Ids \ {r}
        PROVE  Harmless(q)
    <3>1. ~Deleting(q)' /\ ~LoopReleasing(q)' /\ ~Acquiring(q)'
      BY <1>1, <1>2, PollFacts DEF EndOf
    <3> QED
      BY <1>2, <1>4, <1>5, <1>6, <3>1
         DEF Harmless, SameLease, Kept3, Late, Recorded, IsCancelled
  <2>2. NotResumed' <=> NotResumed
    BY <1>1, PollFacts
  <2> QED
    BY <1>1, <1>10, <1>11, <2>1, <2>2, OneRequest
<1> QED
  BY <1>7, <1>8, <1>9, <1>12 DEF DispatchInv

LEMMA PollMessageKeeps ==
  ASSUME DispatchInv, NEW m \in Messages, PollMessage(m)
  PROVE  DispatchInv'
<1>1. Types /\ PhaseInv /\ OrderInv
  BY DEF DispatchInv
<1>2. Polls(m)
  BY DEF PollMessage, Polls, LoopGoes
<1>3. PICK r \in Requests : r = queue[m].req /\ r \in Ids
  BY <1>1, <1>2, PollFacts
<1>4. intent[r] \in IntentType /\ intent[r].del \in Deliveries
  BY <1>1, <1>3, Unchains DEF IntentType
<1>5. CASE queue[m].kind = "offer"
  <2>1. UNCHANGED cancelled /\ CommitOffer(r, m)
    BY <1>3, <1>5 DEF PollMessage, CommitOffer
  <2>2. CASE intent[r] = NoIntent
    <3> DEFINE i == [state |-> IF IsCancelled(r) THEN "cancelled"
                                                 ELSE "intended",
                     msg |-> m, del |-> 0]
    <3>1. i \in IntentType /\ i.state \in {"intended", "cancelled"}
          /\ (IsCancelled(r) => i.state = "cancelled")
      BY ConstantTypes DEF IntentType
    <3>2. /\ intent' = [intent EXCEPT ![r] = i]
          /\ age' = [age EXCEPT ![r] = "fresh"] /\ UNCHANGED row
      BY <2>1, <2>2 DEF CommitOffer
    <3> HIDE DEF i
    <3> QED
      BY <1>2, <1>3, <1>5, <2>1, <2>2, <3>1, <3>2, OfferKeeps
  <2>3. CASE intent[r] # NoIntent /\ Redeliverable(r, m)
    <3> DEFINE i == [state |-> "intended", msg |-> m,
                     del |-> intent[r].del + 1]
    <3>1. i \in IntentType /\ i.state = "intended"
      <4>1. intent[r].del + 1 \in Deliveries
        BY <1>4, <2>3, ConstantTypes DEF Redeliverable, Deliveries
      <4> QED
        BY <4>1 DEF IntentType
    <3>2. /\ intent' = [intent EXCEPT ![r] = i]
          /\ age' = [age EXCEPT ![r] = "fresh"]
          /\ row' = [row EXCEPT ![r] = NoRow]
      BY <2>1, <2>3 DEF CommitOffer
    <3>3. /\ ~Unreleased(r) /\ ~IsCancelled(r)
          /\ row[r].state \in {"absent", "failed"}
      BY <2>3 DEF Redeliverable
    <3> HIDE DEF i
    <3> QED
      BY <1>2, <1>3, <1>5, <2>1, <3>1, <3>2, <3>3, OfferKeeps
  <2>4. CASE intent[r] # NoIntent /\ ~Redeliverable(r, m)
    BY <1>2, <1>5, <2>1, <2>4, RefusedKeeps DEF CommitOffer
  <2> QED
    BY <2>2, <2>3, <2>4
<1>6. CASE queue[m].kind # "offer"
  BY <1>1, <1>2, <1>6, PollFacts, EndKeeps DEF PollMessage
<1> QED
  BY <1>5, <1>6

-----------------------------------------------------------------------------
(***************************************************************************)
(* The surroundings and the eviction.                                      *)
(***************************************************************************)
LEMMA GitHubSendsKeeps ==
  ASSUME DispatchInv, NEW m \in Messages, NEW kind \in {"offer", "end"},
         NEW r \in Requests, GitHubSends(m, kind, r)
  PROVE  DispatchInv'
<1>1. Types /\ PhaseInv /\ OrderInv /\ EndInv /\ RequestsInv
  BY DEF DispatchInv
<1>2. /\ UNCHANGED <<mode, inbox, intent, cancelled, row, chain, phase, loop,
                     drain, age, lease, drawn, run, evictions, drains>>
      /\ queue[m].kind = "unsent"
      /\ \A n \in Messages : queue[n].kind = "unsent" => m <= n
      /\ ~ \E n \in Messages : queue[n].kind = "end" /\ queue[n].req = r
      /\ queue' = [queue EXCEPT ![m] =
                     [kind |-> kind, req |-> r, held |-> TRUE]]
  BY DEF GitHubSends, Outside, tables, memory
<1>3. /\ queue' \in [Messages -> [kind : {"unsent", "offer", "end"},
                                  req : Requests \cup {NoId}, held : BOOLEAN]]
      /\ queue'[m].kind = kind /\ queue'[m].req = r
      /\ \A n \in Messages \ {m} : queue'[n] = queue[n]
      /\ inbox[m] = "none"
  <2>1. queue \in [Messages -> [kind : {"unsent", "offer", "end"},
                                req : Requests \cup {NoId}, held : BOOLEAN]]
    BY <1>1 DEF Types, QueueOK
  <2>2. [kind |-> kind, req |-> r, held |-> TRUE]
          \in [kind : {"unsent", "offer", "end"}, req : Requests \cup {NoId},
               held : BOOLEAN]
    OBVIOUS
  <2> QED
    BY <1>1, <1>2, <2>1, <2>2 DEF OrderInv
<1>4. loop.pc = "delete" => loop.msg \in Messages \ {m}
  BY <1>1, <1>2, LoopFrameFacts DEF Types, FramesOK, QueueOK
<1>5. Types'
  <2>1. QueueOK'
    BY <1>1, <1>2, <1>3, <1>4 DEF Types, QueueOK
  <2> QED
    BY <1>1, <1>2, <2>1 DEF Types, DispatchTypeOK, FramesOK
<1>6. PhaseInv'
  BY <1>1, <1>2 DEF PhaseInv, NotResumed, Settling
<1>7. OrderInv'
  <2>1. \A n \in Messages \ {m} : queue[n].kind = "unsent" => m < n
    BY <1>2, ConstantTypes
  <2>2. \A n \in Messages \ {m} : queue[n].kind # "unsent" => n < m
    BY <1>1, <1>2 DEF OrderInv
  <2>3. ASSUME NEW k \in Messages, NEW n \in Messages,
               queue'[k].kind # "unsent", queue'[n].kind = "unsent"
        PROVE  k < n
    BY <1>1, <1>3, <2>1, <2>3 DEF OrderInv
  <2>4. ASSUME NEW k \in Messages, NEW n \in Messages, NEW q \in Requests,
               EndOf(k, q)', queue'[n].kind # "unsent", queue'[n].req = q
        PROVE  n <= k
    <3>1. CASE k = m
      BY <1>3, <2>2, <2>4, <3>1, ConstantTypes DEF EndOf
    <3>2. CASE k # m
      <4>1. EndOf(k, q) /\ n # m
        BY <1>2, <1>3, <2>4, <3>2 DEF EndOf
      <4> QED
        BY <1>1, <1>3, <2>4, <4>1 DEF OrderInv
    <3> QED
      BY <3>1, <3>2
  <2>5. ASSUME NEW k \in Messages, NEW n \in Messages, inbox'[k] # "none",
               queue'[k].kind = "end", n < k
        PROVE  ~queue'[n].held
    <3>1. k # m /\ queue[k].kind = "end"
      BY <1>2, <1>3, <2>5
    <3>2. n # m
      BY <2>2, <2>5, <3>1, ConstantTypes
    <3> QED
      BY <1>1, <1>2, <1>3, <2>5, <3>1, <3>2 DEF OrderInv
  <2>6. \A k \in Messages : inbox'[k] # "none" => queue'[k].kind # "unsent"
    BY <1>1, <1>2, <1>3 DEF OrderInv
  <2>7. loop'.pc = "delete" => /\ (queue[loop.msg].held)'
                               /\ (inbox[loop.msg] # "none")'
    BY <1>1, <1>2, <1>3, <1>4 DEF OrderInv
  <2> QED
    BY <2>3, <2>4, <2>5, <2>6, <2>7 DEF OrderInv
<1>8. EndInv'
  <2>1. \A q : Ended(q)' => Ended(q)
    BY <1>2, <1>3 DEF Ended, EndOf
  <2> QED
    BY <1>1, <1>2, <2>1 DEF EndInv, Acquiring, IsCancelled, Active
<1>9. ASSUME NEW q \in Ids
      PROVE  Harmless(q)
  <2>1. Deleting(q)' => Deleting(q)
    BY <1>2, <1>3, <1>4 DEF Deleting, EndOf
  <2> QED
    BY <1>2, <2>1, SameHarmless DEF SameLease
<1>10. RequestsInv'
  BY <1>1, <1>2, <1>9, NoRequest DEF NotResumed
<1> QED
  BY <1>5, <1>6, <1>7, <1>8, <1>10 DEF DispatchInv

\* Clocks, the ledger's expiry, the Worker and GitHub's runners
LEMMA SurroundingsKeep ==
  ASSUME DispatchInv, UNCHANGED <<mode, inbox, intent, cancelled, row, chain,
           phase, loop, drain, queue, drawn, evictions, drains>>,
         age' \in [Ids -> {"unborn", "fresh", "late", "aged"}],
         lease' \in [Ids -> [id : 0 .. MaxLeases, used : BOOLEAN]],
         run' \in [Ids -> [Deliveries -> RunType]],
         \A q \in Ids :
           /\ Late(q) => Late(q)'
           /\ age'[q] = "unborn" => age[q] = "unborn"
           /\ SameLease(q)
           /\ \A d \in Deliveries : /\ run'[q][d].res = run[q][d].res
                                    /\ Recorded(q, d) => Recorded(q, d)'
  PROVE  DispatchInv'
<1>1. Types /\ PhaseInv /\ OrderInv /\ EndInv /\ RequestsInv
  BY DEF DispatchInv
<1>2. Types'
  BY <1>1 DEF Types, DispatchTypeOK, FramesOK, QueueOK
<1>3. PhaseInv' /\ OrderInv'
  BY <1>1 DEF PhaseInv, NotResumed, Settling, OrderInv, EndOf
<1>4. EndInv'
  BY <1>1, LoopKeepsEnds DEF Acquiring
<1>5. \A q \in Ids : Harmless(q)
  BY DEF Harmless, Kept3, Deleting, EndOf
<1>6. RequestsInv'
  BY <1>1, <1>5, NoRequest DEF NotResumed
<1> QED
  BY <1>2, <1>3, <1>4, <1>6 DEF DispatchInv

LEMMA WorldKeeps ==
  ASSUME DispatchInv, NEW r \in Ids, NEW d \in Deliveries,
         \/ GrowsLate(r) \/ GrowsOld(r) \/ LeaseExpires(r)
         \/ WorkerAnswers(r, d, "recorded") \/ WorkerAnswers(r, d, "refused")
         \/ WorkerStarts(r, d) \/ RunnerEnds(r, d) \/ WorkerReleases(r, d)
  PROVE  DispatchInv'
<1>1. Types
  BY DEF DispatchInv
<1>2. UNCHANGED <<mode, inbox, intent, cancelled, row, chain, phase, loop,
                  drain, queue, drawn, evictions, drains>>
  BY DEF GrowsLate, GrowsOld, LeaseExpires, WorkerAnswers, WorkerStarts,
         RunnerEnds, WorkerReleases, Outside, tables, memory
<1>3. /\ age' \in [Ids -> {"unborn", "fresh", "late", "aged"}]
      /\ \A q \in Ids : /\ Late(q) => Late(q)'
                        /\ age'[q] = "unborn" => age[q] = "unborn"
  <2>1. age \in [Ids -> {"unborn", "fresh", "late", "aged"}]
    BY <1>1 DEF Types, DispatchTypeOK
  <2>2. CASE UNCHANGED age
    BY <2>1, <2>2 DEF Late
  <2>3. CASE GrowsLate(r) \/ GrowsOld(r)
    BY <2>1, <2>3 DEF GrowsLate, GrowsOld, Late
  <2> QED
    BY <2>2, <2>3
       DEF LeaseExpires, WorkerAnswers, WorkerStarts, RunnerEnds,
           WorkerReleases
<1>4. /\ lease' \in [Ids -> [id : 0 .. MaxLeases, used : BOOLEAN]]
      /\ \A q \in Ids : SameLease(q)
  <2>1. /\ lease \in [Ids -> [id : 0 .. MaxLeases, used : BOOLEAN]]
        /\ NoLease \in [id : 0 .. MaxLeases, used : BOOLEAN]
        /\ TRUE \in BOOLEAN
    BY <1>1, ConstantTypes DEF Types, DispatchTypeOK, NoLease, NoId
  <2>2. CASE UNCHANGED lease
    BY <2>1, <2>2 DEF SameLease
  <2>3. CASE lease' = [lease EXCEPT ![r] = NoLease]
    BY <2>1, <2>3 DEF SameLease
  <2>4. CASE lease[r] # NoLease
             /\ lease' = [lease EXCEPT ![r] = [lease[r] EXCEPT !.used = TRUE]]
    <3>1. /\ [lease[r] EXCEPT !.used = TRUE]
               \in [id : 0 .. MaxLeases, used : BOOLEAN]
          /\ [lease[r] EXCEPT !.used = TRUE].id = lease[r].id
      BY <2>1
    <3> QED
      BY <2>1, <2>4, <3>1 DEF SameLease
  <2>5. ASSUME WorkerStarts(r, d)
        PROVE  \/ UNCHANGED lease
               \/ /\ lease[r] # NoLease
                  /\ lease' = [lease EXCEPT ![r].used = TRUE]
    <3>1. CASE Holds(r, d) /\ ~lease[r].used
      <4>1. lease' = [lease EXCEPT ![r].used = TRUE]
        BY <2>5, <3>1, Zenon DEF WorkerStarts
      <4> QED
        BY <3>1, <4>1 DEF Holds
    <3>2. CASE ~(Holds(r, d) /\ ~lease[r].used)
      BY <2>5, <3>2 DEF WorkerStarts
    <3> QED
      BY <3>1, <3>2
  <2>6. [lease EXCEPT ![r].used = TRUE]
          = [lease EXCEPT ![r] = [lease[r] EXCEPT !.used = TRUE]]
    OBVIOUS
  <2>7. ASSUME ~WorkerStarts(r, d)
        PROVE  UNCHANGED lease \/ lease' = [lease EXCEPT ![r] = NoLease]
    BY <2>7 DEF GrowsLate, GrowsOld, LeaseExpires, WorkerAnswers, RunnerEnds,
                WorkerReleases
  <2> QED
    BY <2>2, <2>3, <2>4, <2>5, <2>6, <2>7
<1>5. /\ run' \in [Ids -> [Deliveries -> RunType]]
      /\ \A q \in Ids, e \in Deliveries :
           /\ run'[q][e].res = run[q][e].res
           /\ Recorded(q, e) => Recorded(q, e)'
  <2>1. run \in [Ids -> [Deliveries -> RunType]] /\ run[r][d] \in RunType
    BY <1>1, Unchains
  <2>2. CASE UNCHANGED run
    BY <2>1, <2>2 DEF Recorded
  <2>3. ASSUME NEW state \in {"refused", "recorded", "live", "undelivered",
                              "ended"},
               run' = [run EXCEPT ![r][d] = [run[r][d] EXCEPT !.state = state]],
               run[r][d].state = "flying"
                 \/ state \in {"recorded", "live", "undelivered", "ended"}
        PROVE  /\ run' \in [Ids -> [Deliveries -> RunType]]
               /\ \A q \in Ids, e \in Deliveries :
                    /\ run'[q][e].res = run[q][e].res
                    /\ Recorded(q, e) => Recorded(q, e)'
    <3>1. /\ [run[r][d] EXCEPT !.state = state] \in RunType
          /\ [run[r][d] EXCEPT !.state = state].res = run[r][d].res
          /\ [run[r][d] EXCEPT !.state = state].state = state
      BY <2>1 DEF RunType
    <3> QED
      BY <2>1, <2>3, <3>1 DEF Recorded
  <2>4. \/ UNCHANGED run
        \/ \E state \in {"refused", "recorded", "live", "undelivered", "ended"} :
             /\ run' = [run EXCEPT ![r][d] = [run[r][d] EXCEPT !.state = state]]
             /\ \/ run[r][d].state = "flying"
                \/ state \in {"recorded", "live", "undelivered", "ended"}
    BY DEF GrowsLate, GrowsOld, LeaseExpires, WorkerAnswers, WorkerStarts,
           RunnerEnds, WorkerReleases
  <2> QED
    BY <2>2, <2>3, <2>4
<1> QED
  BY <1>2, <1>3, <1>4, <1>5, SurroundingsKeep

\* The object is evicted.
LEMMA EvictKeeps ==
  ASSUME DispatchInv, EvictListener
  PROVE  DispatchInv'
<1>1. Types /\ PhaseInv /\ OrderInv /\ EndInv /\ RequestsInv
  BY DEF DispatchInv
<1>2. /\ UNCHANGED <<mode, inbox, intent, cancelled, row, queue, age, lease,
                     drawn, run, drains>>
      /\ evictions' = evictions + 1
      /\ chain' = [r \in Ids |-> Idle] /\ phase' = "none"
      /\ loop' = Idle /\ drain' = Idle
  BY DEF EvictListener, tables, world
<1>3. Types'
  <2>1. Idle \in ChainFrames /\ Idle \in LoopFrames /\ Idle.pc # "delete"
    BY DEF ChainFrames, LoopFrames, Idle
  <2> QED
    BY <1>1, <1>2, <2>1, PlainDrainFrames
       DEF Types, DispatchTypeOK, FramesOK, QueueOK
<1>4. PhaseInv' /\ OrderInv'
  BY <1>1, <1>2 DEF PhaseInv, Settling, OrderInv, EndOf, Idle
<1>5. ASSUME NEW q \in Ids
      PROVE  /\ chain'[q] = Idle /\ ~CleansUp(chain[q])'
             /\ ~ChainReleasing(q)' /\ ~LoopReleasing(q)'
             /\ ~DrainReleasing(q)' /\ ~Acquiring(q)' /\ ~Deleting(q)'
  BY <1>2 DEF CleansUp, ChainReleasing, LoopReleasing, DrainReleasing,
              Acquiring, Deleting, Idle, Releases
<1>6. EndInv'
  BY <1>1, <1>2, <1>5
     DEF EndInv, Ended, EndOf, IsCancelled, Active, Ids
<1>7. RequestsInv'
  <2> SUFFICES ASSUME NEW q \in Ids
               PROVE  Always(q)' /\ (NotResumed' => Undisturbed(q)')
    BY DEF RequestsInv
  <2>1. /\ Always(q) /\ (NotResumed => Undisturbed(q))
        /\ NotResumed' <=> NotResumed
    BY <1>1, <1>2 DEF RequestsInv, NotResumed
  <2>2. /\ \A d : Recorded(q, d)' <=> Recorded(q, d)
        /\ Unrecorded(q)' <=> Unrecorded(q)
        /\ \A d : Alone(q, d)' <=> Alone(q, d)
    BY <1>2, SameRecords
  <2>3. RowInv(q)'
    BY <1>2, <2>1, <2>2 DEF Always, RowInv, IsCancelled, Recorded
  <2>4. LeaseInv(q)' /\ CleanupInv(q)'
    BY <1>2, <1>5, <2>1
       DEF Always, LeaseInv, CleanupInv, ChainReleasing, Idle
  <2>5. ASSUME NotResumed
        PROVE  Undisturbed(q)'
    <3>1. Undisturbed(q)
      BY <2>1, <2>5
    <3>2. ChainInv(q)'
      BY <1>5 DEF ChainInv, Idle
    <3>3. IntentInv(q)' /\ MarkInv(q)'
      BY <1>2, <1>5, <2>2, <3>1
         DEF Undisturbed, IntentInv, MarkInv, Active, Late, IsCancelled
    <3>4. SentInv(q)'
      BY <1>2, <1>5, <2>2, <3>1 DEF Undisturbed, SentInv, Sent
    <3>5. ShareInv(q)'
      BY <1>2, <1>5, <2>2, <3>1 DEF Undisturbed, ShareInv, Foreign, Idle
    <3> QED
      BY <3>2, <3>3, <3>4, <3>5 DEF Undisturbed
  <2> QED
    BY <2>1, <2>3, <2>4, <2>5 DEF Always
<1> QED
  BY <1>3, <1>4, <1>6, <1>7 DEF DispatchInv

-----------------------------------------------------------------------------
(***************************************************************************)
(* The invariant.                                                          *)
(***************************************************************************)
LEMMA InitHolds == DispatchInit => DispatchInv
<1> SUFFICES ASSUME DispatchInit
             PROVE  DispatchInv
  OBVIOUS
<1>1. /\ NoIntent \in IntentType /\ NoIntent.state = "none"
      /\ NoRow \in RowType /\ NoRow.state = "absent" /\ NoRow.res = NoId
      /\ ~NoRow.released
      /\ NoLease \in [id : 0 .. MaxLeases, used : BOOLEAN]
      /\ NoLease.id = NoId
      /\ NoRun \in RunType /\ NoRun.res = NoId /\ NoRun.state = "none"
      /\ NoId = 0 /\ 0 \in 0 .. MaxLeases
  BY NewRows, ConstantTypes
     DEF NoIntent, IntentType, NoLease, NoId, NoRun, RunType
<1>2. Idle \in ChainFrames /\ Idle \in LoopFrames /\ Idle \in DrainFrames
      /\ Idle.pc = "idle"
  BY PlainDrainFrames DEF ChainFrames, LoopFrames
<1>3. Types
  <2>1. QueueOK
    BY <1>1, <1>2 DEF DispatchInit, QueueOK
  <2>2. age \in [Ids -> {"unborn", "fresh", "late", "aged"}]
    BY DEF DispatchInit
  <2>3. run \in [Ids -> [Deliveries -> RunType]]
    BY <1>1 DEF DispatchInit
  <2> QED
    BY <1>1, <1>2, <2>1, <2>2, <2>3
       DEF Types, DispatchInit, DispatchTypeOK, FramesOK
<1>4. PhaseInv /\ OrderInv
  BY <1>2 DEF DispatchInit, PhaseInv, OrderInv, EndOf, Settling
<1>5. EndInv
  BY DEF DispatchInit, EndInv, Ended
<1>6. ASSUME NEW q \in Ids
      PROVE  Always(q) /\ Undisturbed(q)
  <2>1. /\ row[q] = NoRow /\ intent[q] = NoIntent /\ lease[q] = NoLease
        /\ drawn[q] = 0 /\ chain[q] = Idle /\ loop = Idle /\ drain = Idle
        /\ ~IsCancelled(q) /\ \A d \in Deliveries : run[q][d] = NoRun
        /\ age[q] = "unborn" => q \notin Requests
        /\ ~Active(q)
    BY <1>1, ConstantTypes
       DEF DispatchInit, IsCancelled, Active, ActiveStates
  <2>2. /\ ~LoopReleasing(q) /\ ~DrainReleasing(q) /\ ~ChainReleasing(q)
        /\ ~Acquiring(q) /\ ~Deleting(q) /\ ~CleansUp(chain[q])
    BY <1>2, <2>1
       DEF LoopReleasing, DrainReleasing, ChainReleasing, Acquiring, Deleting,
           CleansUp, Releases
  <2>3. Always(q)
    BY <1>1, <1>2, <2>1, <2>2
       DEF Always, RowInv, LeaseInv, CleanupInv, ChainReleasing, Releases
  <2>4. ChainInv(q) /\ IntentInv(q) /\ MarkInv(q) /\ ShareInv(q)
    BY <1>1, <1>2, <2>1, <2>2
       DEF ChainInv, IntentInv, MarkInv, ShareInv, Foreign
  <2>5. SentInv(q)
    BY <1>1, <2>1 DEF SentInv, Sent
  <2> QED
    BY <2>3, <2>4, <2>5 DEF Undisturbed
<1> QED
  BY <1>3, <1>4, <1>5, <1>6 DEF DispatchInv, RequestsInv

LEMMA NextKeeps ==
  ASSUME DispatchInv, [DispatchNext]_vars
  PROVE  DispatchInv'
<1>1. ASSUME NEW r \in Ids, ChainStep(r)
      PROVE  DispatchInv'
  BY <1>1, ChainKeepsInv
<1>2. CASE MessageStep
  BY <1>2, PollMessageKeeps, MessageDeletedKeeps, AcquisitionBegins,
     AnsweredKeeps DEF MessageStep
<1>3. CASE PassStep
  <2>1. HandlerMoves("polling", "working") \/ HandlerMoves("polled", "working")
        \/ HandlerMoves("working", "polling") \/ HandlerCloses \/ HandlerEnds
          => DispatchInv'
    BY HandlerKeeps DEF InFlight
  <2> QED
    BY <1>3, <2>1, AcquisitionBegins, ReleaseBegins, ProbeBusyKeeps,
       ProbeIdleKeeps, LoopReleaseAtLedgerKeeps, LoopReleasedKeeps,
       LoopThrowsKeeps, ScaleUpKeeps, ChainKeepsInv, HandlerStartsKeeps
       DEF PassStep
<1>4. CASE DrainStep
  BY <1>4, DrainCalledKeeps, SettleBeginsKeeps, SettleKeeps, SettleLookupKeeps,
     SettleReleaseAtLedgerKeeps, SettleReleasedKeeps, SettleEndsKeeps,
     DrainThrowsKeeps, ResumeKeeps DEF DrainStep
<1>5. CASE WorldStep
  <2>1. Deliveries # {}
    BY ConstantTypes
  <2> QED
    BY <1>5, <2>1, GitHubSendsKeeps, WorldKeeps DEF WorldStep
<1>6. CASE EvictListener
  BY <1>6, EvictKeeps
<1>7. CASE UNCHANGED vars
  <2>1. UNCHANGED <<mode, inbox, intent, cancelled, row, chain, phase, loop,
                    drain, queue, age, lease, drawn, run, evictions, drains>>
    BY <1>7 DEF vars, tables, memory, world
  <2>2. Types
    BY DEF DispatchInv
  <2> QED
    BY <2>1, <2>2, SurroundingsKeep
       DEF SameLease, Late, Recorded, Types, DispatchTypeOK
<1> QED
  BY <1>1, <1>2, <1>3, <1>4, <1>5, <1>6, <1>7 DEF DispatchNext

LEMMA InvariantHolds == DispatchSpec => []DispatchInv
<1>1. DispatchInv /\ [DispatchNext]_vars => DispatchInv'
  BY NextKeeps
<1> QED
  BY <1>1, InitHolds, PTL DEF DispatchSpec

-----------------------------------------------------------------------------
(***************************************************************************)
(* The theorems.                                                           *)
(***************************************************************************)

\* The tables and the surroundings keep their types.
THEOREM DispatchTypes == DispatchSpec => []DispatchTypeOK
<1>1. DispatchInv => DispatchTypeOK
  BY DEF DispatchInv, Types
<1> QED
  BY <1>1, InvariantHolds, PTL

\* A started row has a recorded start, of its own delivery.
THEOREM StartedIsRecorded == DispatchSpec => []StartedMeansRecorded
<1>1. DispatchInv => StartedMeansRecorded
  BY DEF DispatchInv, RequestsInv, Always, RowInv, StartedMeansRecorded
<1> QED
  BY <1>1, InvariantHolds, PTL

\* A granted acquisition has its row until the row is finished.
THEOREM GrantedIsKept == DispatchSpec => []GrantedHasRow
<1>1. DispatchInv => GrantedHasRow
  BY DEF DispatchInv, RequestsInv, Always, RowInv, GrantedHasRow
<1> QED
  BY <1>1, InvariantHolds, PTL

\* Two deliveries that send the same reservation follow a recorded third one.
THEOREM ReservationsAreNotShared == DispatchSpec => []OneDeliveryPerReservation
<1>1. DispatchInv => OneDeliveryPerReservation
  BY DEF DispatchInv, RequestsInv, Undisturbed, ShareInv,
         OneDeliveryPerReservation
<1> QED
  BY <1>1, InvariantHolds, PTL

\* The consumed reservation of the only recorded start is the row's.
THEOREM ConsumedIsTracked == DispatchSpec => []ConsumedLeaseIsTracked
<1>1. ASSUME DispatchInv, NotResumed, NEW r \in Ids, NEW d \in Deliveries,
             lease[r].used, run[r][d].res = lease[r].id,
             \A c \in Deliveries \ {d} : ~Recorded(r, c)
      PROVE  row[r].res = lease[r].id /\ ~row[r].released
  <2>1. LeaseInv(r) /\ SentInv(r)
    BY <1>1 DEF DispatchInv, RequestsInv, Always, Undisturbed
  <2>2. lease[r].id # NoId
    BY <1>1, <2>1 DEF LeaseInv, NoLease
  <2>3. Sent(r, d)
    BY <1>1, <2>2 DEF Sent, Alone
  <2> QED
    BY <2>1, <2>3 DEF SentInv
<1>2. DispatchInv => ConsumedLeaseIsTracked
  BY <1>1 DEF ConsumedLeaseIsTracked
<1> QED
  BY <1>2, InvariantHolds, PTL

-----------------------------------------------------------------------------
(***************************************************************************)
(* What no step does.                                                      *)
(***************************************************************************)
Sends(r, d) == run'[r][d].state = "flying" /\ run[r][d].state # "flying"

\* Only a chain sends a start, and only one that is not cancelled.
LEMMA SenderWorks ==
  ASSUME DispatchInv, DispatchNext, NEW r \in Ids, NEW d \in Deliveries,
         Sends(r, d)
  PROVE  chain[r].pc = "control" /\ ~IsCancelled(r)
<1>1. Types
  BY DEF DispatchInv
<1>2. ASSUME NEW q \in Ids, ChainStep(q) \/ DispatchOne(q)
      PROVE  chain[r].pc = "control" /\ ~IsCancelled(r)
  <2>1. Elsewhere(q) /\ SendMoves(q)
    BY <1>1, <1>2, ChainHasEffect DEF ChainEffect
  <2>2. q = r
    BY <1>1, <2>1 DEF Elsewhere, OnlyAt, Sends, Types, DispatchTypeOK
  <2> QED
    BY <2>1, <2>2 DEF SendMoves, Sends
<1>3. ASSUME UNCHANGED run
      PROVE  FALSE
  BY <1>3 DEF Sends
<1>4. ASSUME MessageStep
      PROVE  UNCHANGED run
  BY <1>4 DEF MessageStep, PollMessage, MessageDeleted, GateOpen, Granted,
              NotGranted, LoopFrame
<1>5. ASSUME PassStep, ~ \E q \in Ids : DispatchOne(q)
      PROVE  UNCHANGED run
  BY <1>5 DEF PassStep, ResumeIntended, RunnerCompleted, SettleExpired,
              ReclaimUndelivered, ProbeAbsent, ProbeBusy, ProbeIdle,
              LoopReleaseAtLedger, LoopReleased, LoopThrows, ScaleUp,
              HandlerStarts, HandlerMoves, HandlerCloses, HandlerEnds,
              LoopFrame, world
<1>6. ASSUME DrainStep
      PROVE  UNCHANGED run
  BY <1>6 DEF DrainStep, DrainCalled, SettleBegins, Settle, SettleLookup,
              SettleReleaseAtLedger, SettleReleased, SettleEnds, DrainThrows,
              Resume, DrainFrame, world
<1>7. ASSUME WorldStep
      PROVE  FALSE
  <2>1. ASSUME NEW q \in Ids, NEW e \in Deliveries,
               \/ WorkerAnswers(q, e, "recorded")
               \/ WorkerAnswers(q, e, "refused")
               \/ WorkerStarts(q, e) \/ RunnerEnds(q, e)
        PROVE  FALSE
    <3>1. \E state \in {"refused", "recorded", "live", "undelivered", "ended"} :
            run' = [run EXCEPT ![q][e].state = state]
      BY <2>1 DEF WorkerAnswers, WorkerStarts, RunnerEnds
    <3>2. run \in [Ids -> [Deliveries -> RunType]]
      BY <1>1, Unchains
    <3> QED
      BY <3>1, <3>2 DEF Sends, RunType
  <2>2. ASSUME ~ \E q \in Ids, e \in Deliveries :
                   \/ WorkerAnswers(q, e, "recorded")
                   \/ WorkerAnswers(q, e, "refused")
                   \/ WorkerStarts(q, e) \/ RunnerEnds(q, e)
        PROVE  UNCHANGED run
    BY <1>7, <2>2 DEF WorldStep, GitHubSends, GrowsLate, GrowsOld,
                      LeaseExpires, WorkerReleases
  <2> QED
    BY <1>3, <2>1, <2>2
<1>8. ASSUME EvictListener
      PROVE  UNCHANGED run
  BY <1>8 DEF EvictListener, world
<1> QED
  BY <1>2, <1>3, <1>4, <1>5, <1>6, <1>7, <1>8 DEF DispatchNext

\* No start is sent for a request whose end is committed.
THEOREM NoStartAfterTheEnd == DispatchSpec => NoStartOnceEnded
<1> DEFINE Quiets ==
      \A r \in Ids, d \in Deliveries :
        run'[r][d].state = "flying" /\ run[r][d].state # "flying"
          => ~ \E m \in Messages : /\ queue[m].kind = "end"
                                  /\ queue[m].req = r /\ inbox[m] # "none"
<1>1. ASSUME DispatchInv, DispatchNext
      PROVE  Quiets
  <2> SUFFICES ASSUME NEW r \in Ids, NEW d \in Deliveries, Sends(r, d),
                      NEW m \in Messages, EndOf(m, r), inbox[m] # "none"
               PROVE  FALSE
    BY DEF Sends, EndOf
  <2>1. chain[r].pc = "control" /\ ~IsCancelled(r)
    BY <1>1, SenderWorks
  <2>2. r \in Requests /\ Ended(r)
    BY <1>1 DEF DispatchInv, Types, QueueOK, EndOf, Ended
  <2> QED
    BY <1>1, <2>1, <2>2 DEF DispatchInv, EndInv, Idle
<1>2. DispatchInv /\ [DispatchNext]_vars => [Quiets]_vars
  BY <1>1
<1>3. DispatchSpec => [][Quiets]_vars
  BY <1>2, InvariantHolds, PTL DEF DispatchSpec
<1> QED
  BY <1>3 DEF NoStartOnceEnded

\* Outside its own steps a chain's row stays, whatever else goes on.
RowStays(r) == row'[r].state # "absent" /\ row'[r].del = row[r].del

LEMMA RowsStay ==
  ASSUME DispatchInv, DispatchNext, NotResumed', NEW r \in Ids,
         chain[r] # Idle, ~CleansUp(chain[r])
  PROVE  RowStays(r) /\ NotResumed
<1>1. Types /\ PhaseInv /\ Always(r)
  BY DEF DispatchInv, RequestsInv
<1>2. NotResumed
  <2>1. CASE Resume \/ DrainCalled
    BY <1>1, <2>1 DEF Resume, DrainCalled, NotResumed, PhaseInv, FramesOK, Types
  <2>2. CASE ~Resume /\ ~DrainCalled
    <3>1. ASSUME NEW q \in Ids, ChainStep(q) \/ DispatchOne(q)
          PROVE  UNCHANGED <<mode, drains>>
      BY <1>1, <3>1, ChainHasEffect DEF ChainEffect, Elsewhere
    <3>2. UNCHANGED <<mode, drains>>
      BY <2>2, <3>1
         DEF DispatchNext, MessageStep, PollMessage, MessageDeleted, GateOpen,
             Granted, NotGranted, LoopFrame, PassStep, ResumeIntended,
             RunnerCompleted, SettleExpired, ReclaimUndelivered, ProbeAbsent,
             ProbeBusy, ProbeIdle, LoopReleaseAtLedger, LoopReleased,
             LoopThrows, ScaleUp, HandlerStarts, HandlerMoves, HandlerCloses,
             HandlerEnds, DrainStep, SettleBegins, Settle, SettleLookup,
             SettleReleaseAtLedger, SettleReleased, SettleEnds, DrainThrows,
             DrainFrame, WorldStep, GitHubSends, GrowsLate, GrowsOld,
             LeaseExpires, WorkerAnswers, WorkerStarts, RunnerEnds,
             WorkerReleases, Outside, EvictListener, tables
    <3> QED
      BY <3>2 DEF NotResumed
  <2> QED
    BY <2>1, <2>2
<1> SUFFICES RowStays(r)
  BY <1>2
<1>3. /\ Active(r) \/ row[r].state = "cancelled"
      /\ row \in [Ids -> RowType]
  <2>1. ChainInv(r)
    BY <1>2 DEF DispatchInv, RequestsInv, Undisturbed
  <2> QED
    BY <1>1, <2>1 DEF ChainInv, Types, DispatchTypeOK
<1>4. row[r].state \notin {"absent", "failed"} /\ row[r] # NoRow
  BY <1>3, NewRows DEF Active, ActiveStates
<1>5. ASSUME UNCHANGED row \/ row'[r] = row[r]
      PROVE  RowStays(r)
  BY <1>4, <1>5 DEF RowStays
<1>6. ASSUME NEW q \in Ids, ChainStep(q) \/ DispatchOne(q)
      PROVE  RowStays(r)
  <2>1. Elsewhere(q) /\ RowMoves(q)
    BY <1>1, <1>6, ChainHasEffect DEF ChainEffect
  <2>2. CASE q = r
    BY <1>4, <2>1, <2>2 DEF RowMoves, RowStays
  <2>3. CASE q # r
    BY <1>3, <1>5, <2>1, <2>3 DEF Elsewhere, OnlyAt
  <2> QED
    BY <2>2, <2>3
<1>7. ASSUME NEW q, NEW rec,
             row' = [row EXCEPT ![q] = rec],
             q = r => rec.state # "absent" /\ rec.del = row[r].del
      PROVE  RowStays(r)
  BY <1>3, <1>5, <1>7 DEF RowStays
<1>8. ASSUME NEW q, NEW rec, Put(q, rec),
             q = r => rec.state # "absent" /\ rec.del = row[r].del
      PROVE  RowStays(r)
  BY <1>3, <1>4, <1>8 DEF Put, RowStays
<1>9. /\ row[r] \in RowType
      /\ CancelledRow(row[r]).state = "cancelled"
      /\ FailedRow(row[r]).state = "failed"
      /\ CancelledRow(row[r]).del = row[r].del
      /\ FailedRow(row[r]).del = row[r].del
  BY <1>3, RowEdits DEF Kept3
<1>10. CASE MessageStep
  <2>1. ASSUME NEW m \in Messages, PollMessage(m)
        PROVE  RowStays(r)
    <3>1. CASE CommitOffer(queue[m].req, m)
      <4>1. UNCHANGED row \/ (/\ Redeliverable(queue[m].req, m)
                              /\ row' = [row EXCEPT ![queue[m].req] = NoRow])
        BY <3>1 DEF CommitOffer
      <4> QED
        BY <1>3, <1>4, <1>5, <4>1 DEF Redeliverable
    <3>2. CASE CommitEnd(queue[m].req)
      <4>1. row' = [row EXCEPT ![queue[m].req] =
                      IF row[queue[m].req].state \in Cancellable
                        THEN CancelledRow(row[queue[m].req])
                        ELSE row[queue[m].req]]
        BY <3>2 DEF CommitEnd
      <4> QED
        BY <1>4, <1>7, <1>9, <4>1
    <3> QED
      BY <2>1, <3>1, <3>2 DEF PollMessage
  <2>2. CASE Granted
    <3>1. row' = [row EXCEPT ![loop.req] =
             IF row[loop.req] # NoRow THEN row[loop.req]
             ELSE NewRow(IF IsCancelled(loop.req) THEN "cancelled"
                                                  ELSE "pending", loop.del)]
      BY <2>2 DEF Granted
    <3> QED
      BY <1>4, <1>7, <3>1
  <2> QED
    BY <1>5, <1>10, <2>1, <2>2
       DEF MessageStep, MessageDeleted, GateOpen, NotGranted
<1>11. CASE PassStep /\ ~ \E q \in Ids : DispatchOne(q)
  <2>1. ASSUME NEW q \in Ids, ProbeBusy(q)
        PROVE  RowStays(r)
    <3>1. row' = [row EXCEPT ![q] = [row[q] EXCEPT !.spawned = TRUE]]
      BY <2>1 DEF ProbeBusy
    <3>2. /\ [row[r] EXCEPT !.spawned = TRUE].state = row[r].state
          /\ [row[r] EXCEPT !.spawned = TRUE].del = row[r].del
      BY <1>9 DEF RowType
    <3> QED
      BY <1>4, <1>7, <3>1, <3>2
  <2>2. ASSUME NEW q \in Ids, ProbeIdle(q)
        PROVE  RowStays(r)
    BY <1>7, <1>9, <2>2 DEF ProbeIdle
  <2>3. CASE LoopReleased
    <3>1. /\ [row[r] EXCEPT !.released = TRUE].state = row[r].state
          /\ [row[r] EXCEPT !.released = TRUE].del = row[r].del
      BY <1>9 DEF RowType
    <3> QED
      BY <1>4, <1>8, <2>3, <3>1 DEF LoopReleased
  <2>4. ASSUME NEW q \in Surplus, ScaleUp(q)
        PROVE  RowStays(r)
    <3>1. q # r
      BY <1>1, <1>4, <2>4 DEF ScaleUp, Always, RowInv
    <3> QED
      BY <1>7, <2>4, <3>1 DEF ScaleUp
  <2>5. ~HandlerStarts
    BY <1>1 DEF HandlerStarts, PhaseInv
  <2> QED
    BY <1>5, <1>11, <2>1, <2>2, <2>3, <2>4, <2>5
       DEF PassStep, ResumeIntended, RunnerCompleted, SettleExpired,
           ReclaimUndelivered, ProbeAbsent, LoopReleaseAtLedger, LoopThrows,
           HandlerMoves, HandlerCloses, HandlerEnds, tables
<1>12. CASE DrainStep
  <2>1. ~SettleEnds
    BY <1>1, <1>2, SettlingAlone DEF SettleEnds, Settling
  <2>2. ASSUME NEW q \in Ids, Settle(q)
        PROVE  RowStays(r)
    <3>1. UNCHANGED row \/ row' = [row EXCEPT ![q] = CancelledRow(row[q])]
      BY <2>2 DEF Settle, Active, ActiveStates, Cancellable
    <3> QED
      BY <1>5, <1>7, <1>9, <3>1
  <2>3. CASE SettleLookup
    BY <1>8, <1>9, <2>3 DEF SettleLookup
  <2>4. ~SettleReleased
    BY <1>1, <1>2, SettlingAlone DEF SettleReleased, Settling
  <2> QED
    BY <1>5, <1>12, <2>1, <2>2, <2>3, <2>4
       DEF DrainStep, DrainCalled, SettleBegins, SettleReleaseAtLedger,
           DrainThrows, Resume
<1>13. CASE WorldStep \/ EvictListener
  BY <1>5, <1>13
     DEF WorldStep, GitHubSends, GrowsLate, GrowsOld, LeaseExpires,
         WorkerAnswers, WorkerStarts, RunnerEnds, WorkerReleases, Outside,
         EvictListener, tables
<1> QED
  BY <1>2, <1>6, <1>10, <1>11, <1>12, <1>13 DEF DispatchNext

\* A chain that has something to decide keeps its row, of its own delivery.
THEOREM ChainsKeepTheirRows == DispatchSpec => ChainKeepsItsRow
<1> DEFINE Keeps ==
      NotResumed' => \A r \in Ids :
        chain[r] # Idle /\ chain'[r] # Idle /\ ~CleansUp(chain[r])
          => row'[r] # NoRow /\ row'[r].del = row[r].del
<1>1. ASSUME DispatchInv, DispatchNext
      PROVE  Keeps
  BY <1>1, RowsStay, NewRows DEF RowStays
<1>2. DispatchInv /\ [DispatchNext]_vars => [Keeps]_vars
  BY <1>1
<1>3. DispatchSpec => [][Keeps]_vars
  BY <1>2, InvariantHolds, PTL DEF DispatchSpec
<1> QED
  BY <1>3 DEF ChainKeepsItsRow
=============================================================================
