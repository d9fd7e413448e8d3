--------------------------- MODULE AdmissionProofs ---------------------------
(***************************************************************************)
(* Proofs about the ledger composed with the outage gate: the gate is the  *)
(* environment the ledger assumes, so what AutopilotControlProofs shows    *)
(* holds of the composition, and closing the gate alone ends the starts.   *)
(***************************************************************************)
EXTENDS Admission, AutopilotControlProofs

\* The suspended /permit calls: each read the clock in the past, and signs for
\* a time after that reading and within the TTL from it.
PermitCallsBounded ==
  /\ permitCall \in [PermitCalls -> PermitFrame]
  /\ \A c \in PermitCalls :
       permitCall[c] # Resting =>
         /\ permitCall[c].at <= now
         /\ permitCall[c].expires <= permitCall[c].at + PermitTTL
         /\ permitCall[c].stage = "insert" =>
              permitCall[c].expires > permitCall[c].at

SignedPermits ==
  /\ now \in Nat /\ closedAt \in Nat
  /\ issued \in [Permits -> [request : Requests \cup {None}, expires : Nat]]
  /\ \A p \in Permits : issued[p].expires <= now + PermitTTL
  /\ outage = "closed" =>
       \A p \in Permits : issued[p].expires <= closedAt + PermitTTL

AdmissionInv == PermitCallsBounded /\ SignedPermits

-----------------------------------------------------------------------------
LEMMA AdmissionInvInit == AdmissionInit => AdmissionInv
BY ConstantsAssumption
   DEF AdmissionInit, Init, GateInit, AdmissionInv, PermitCallsBounded,
       SignedPermits, Unsigned, PermitFrame

\* The ledger's own steps leave the clock and the permits alone.
LEMMA LedgerStep == Step => now' = now /\ issued' = issued
BY DEF Step, ReserveCall, ReserveCommit, MarkStartCreated, ConsumeCall,
       ConsumeCommit, Compensate, ReleaseBySandbox, RunAlarm, CloseGate,
       OpenGate, RecordCapacityApproval, SetActiveWave, Evict

\* A suspended call as a record.
LEMMA SuspendedPermitCall ==
  ASSUME PermitCallsBounded, NEW c \in PermitCalls,
         permitCall[c].stage \in {"lookup", "insert"}
  PROVE  /\ permitCall[c] # Resting
         /\ permitCall[c] \in [stage : {"lookup", "insert"},
                               request : Requests, at : Nat, expires : Nat]
<1>1. permitCall[c] # Resting
  BY DEF Resting
<1> QED
  BY <1>1 DEF PermitCallsBounded, PermitFrame

LEMMA PermitRequestStep ==
  ASSUME AdmissionInv, NEW c \in PermitCalls, NEW q \in Requests,
         PermitRequest(c, q)
  PROVE  AdmissionInv'
<1>1. PICK e \in now .. now + PermitTTL :
        permitCall' = [permitCall EXCEPT
                         ![c] = [stage |-> "lookup", request |-> q,
                                 at |-> now, expires |-> e]]
  BY DEF PermitRequest
<1>2. now \in Nat /\ e \in Nat /\ e <= now + PermitTTL
  BY <1>1, ConstantsAssumption DEF AdmissionInv, SignedPermits
<1>3. [stage |-> "lookup", request |-> q, at |-> now, expires |-> e]
        \in PermitFrame
  BY <1>2 DEF PermitFrame
<1>4. PermitCallsBounded'
  BY <1>1, <1>2, <1>3
     DEF AdmissionInv, PermitCallsBounded, PermitRequest
<1> QED
  BY <1>4 DEF AdmissionInv, SignedPermits, PermitRequest

LEMMA PermitLookupStep ==
  ASSUME AdmissionInv, NEW c \in PermitCalls, PermitLookup(c)
  PROVE  AdmissionInv'
<1> DEFINE f == permitCall[c]
<1>1. /\ f # Resting
      /\ f \in [stage : {"lookup", "insert"}, request : Requests, at : Nat,
                expires : Nat]
      /\ f.expires > f.at
  BY SuspendedPermitCall DEF AdmissionInv, PermitLookup
<1>2. PICK g \in {[f EXCEPT !.stage = "insert"], Resting} :
        permitCall' = [permitCall EXCEPT ![c] = g]
  BY DEF PermitLookup
<1>3. g \in PermitFrame
  BY <1>1, <1>2 DEF PermitFrame
<1>4. g # Resting => g.at = f.at /\ g.expires = f.expires
  BY <1>1, <1>2
<1>5. PermitCallsBounded'
  BY <1>1, <1>2, <1>3, <1>4
     DEF AdmissionInv, PermitCallsBounded, PermitLookup
<1> QED
  BY <1>5 DEF AdmissionInv, SignedPermits, PermitLookup

\* What the gate signs, the ledger's SignPermit allows.
LEMMA InsertSigns ==
  ASSUME AdmissionInv, NEW c \in PermitCalls, PermitInsert(c)
  PROVE  /\ now' = now
         /\ \/ issued' = issued
            \/ \E p \in Permits, q \in Requests :
                 \E e \in 1 .. now + PermitTTL :
                   /\ outage = "open"
                   /\ issued[p] = Unsigned
                   /\ issued' = [issued EXCEPT ![p] = [request |-> q,
                                                       expires |-> e]]
<1> DEFINE f == permitCall[c]
<1>1. /\ f # Resting
      /\ f \in [stage : {"lookup", "insert"}, request : Requests, at : Nat,
                expires : Nat]
      /\ f.stage = "insert"
  BY SuspendedPermitCall DEF AdmissionInv, PermitInsert
<1>2. f.at <= now /\ f.expires <= f.at + PermitTTL /\ f.expires > f.at
  BY <1>1 DEF AdmissionInv, PermitCallsBounded
<1>3. f.expires \in 1 .. now + PermitTTL /\ f.request \in Requests
  BY <1>1, <1>2, ConstantsAssumption DEF AdmissionInv, SignedPermits
<1>4. \/ issued' = issued
      \/ \E p \in Permits :
           /\ outage = "open" /\ issued[p] = Unsigned
           /\ issued' = [issued EXCEPT ![p] = [request |-> f.request,
                                               expires |-> f.expires]]
  BY DEF PermitInsert, MaySign, Unsigned, Unsigned
<1> QED
  BY <1>3, <1>4 DEF PermitInsert

LEMMA PermitInsertStep ==
  ASSUME AdmissionInv, NEW c \in PermitCalls, PermitInsert(c)
  PROVE  AdmissionInv'
<1>1. PermitCallsBounded'
  BY DEF AdmissionInv, PermitCallsBounded, PermitInsert, PermitFrame
<1>2. CASE issued' = issued
  BY <1>1, <1>2 DEF AdmissionInv, SignedPermits, PermitInsert
<1>3. ASSUME NEW p \in Permits, NEW q \in Requests,
             NEW e \in 1 .. now + PermitTTL, outage = "open",
             issued' = [issued EXCEPT ![p] = [request |-> q, expires |-> e]]
      PROVE  AdmissionInv'
  <2>1. e \in Nat /\ e <= now + PermitTTL
    BY ConstantsAssumption DEF AdmissionInv, SignedPermits
  <2> QED
    BY <1>1, <1>3, <2>1 DEF AdmissionInv, SignedPermits, PermitInsert
<1> QED
  BY <1>2, <1>3, InsertSigns

LEMMA AdmissionInvStep ==
  AdmissionInv /\ [AdmissionNext]_admissionVars => AdmissionInv'
<1> SUFFICES ASSUME AdmissionInv, [AdmissionNext]_admissionVars
             PROVE  AdmissionInv'
  OBVIOUS
<1>1. ASSUME NEW c \in PermitCalls, PermitRefused(c)
      PROVE  AdmissionInv'
  BY <1>1 DEF AdmissionInv, PermitCallsBounded, SignedPermits,
              PermitRefused, PermitFrame
<1>2. CASE Close
  BY <1>2 DEF AdmissionInv, PermitCallsBounded, SignedPermits, Close
<1>3. CASE Open
  BY <1>3 DEF AdmissionInv, PermitCallsBounded, SignedPermits, Open
<1>4. CASE EvictGate
  BY <1>4 DEF AdmissionInv, PermitCallsBounded, SignedPermits,
              EvictGate, PermitFrame
<1>5. CASE Step /\ UNCHANGED gateVars
  BY <1>5, LedgerStep
     DEF AdmissionInv, PermitCallsBounded, SignedPermits, gateVars
<1>6. CASE Tick /\ UNCHANGED gateVars
  <2>1. PermitCallsBounded'
    <3>1. ASSUME NEW c \in PermitCalls, permitCall[c] # Resting
          PROVE  permitCall[c].at \in Nat
      BY <3>1 DEF AdmissionInv, PermitCallsBounded, PermitFrame
    <3> QED
      BY <1>6, <3>1
         DEF Tick, AdmissionInv, PermitCallsBounded, SignedPermits,
             gateVars
  <2>2. SignedPermits'
    <3>1. \A p \in Permits : issued[p].expires \in Nat
      BY DEF AdmissionInv, SignedPermits
    <3> QED
      BY <1>6, <3>1, ConstantsAssumption
         DEF Tick, AdmissionInv, SignedPermits, gateVars
  <2> QED
    BY <2>1, <2>2 DEF AdmissionInv
<1>7. CASE UNCHANGED admissionVars
  BY <1>7 DEF admissionVars, gateVars, AdmissionInv,
              PermitCallsBounded, SignedPermits
<1> QED
  BY <1>1, <1>2, <1>3, <1>4, <1>5, <1>6, <1>7, PermitRequestStep,
     PermitLookupStep, PermitInsertStep DEF AdmissionNext, GateStep

LEMMA AdmissionCorrect == AdmissionSpec => []AdmissionInv
BY AdmissionInvInit, AdmissionInvStep, PTL DEF AdmissionSpec

-----------------------------------------------------------------------------
\* A step of the composition is a step of the ledger's specification.
LEMMA StepRefines ==
  AdmissionInv /\ [AdmissionNext]_admissionVars => [Next]_vars
<1> SUFFICES ASSUME AdmissionInv, [AdmissionNext]_admissionVars
             PROVE  [Next]_vars
  OBVIOUS
<1>1. CASE GateStep /\ UNCHANGED ledgerVars
  <2>1. ASSUME NEW c \in PermitCalls, PermitInsert(c)
        PROVE  [Next]_vars
    <3>1. CASE issued' = issued
      BY <1>1, <2>1, <3>1, InsertSigns DEF ledgerVars, vars
    <3>2. CASE \E p \in Permits, q \in Requests : SignPermit(p, q)
      BY <3>2 DEF Next
    <3> QED
      BY <1>1, <2>1, <3>1, <3>2, InsertSigns DEF SignPermit, ledgerVars
  <2>2. CASE now' = now /\ issued' = issued
    BY <1>1, <2>2 DEF ledgerVars, vars
  <2> QED
    BY <1>1, <2>1, <2>2
       DEF GateStep, PermitRequest, PermitRefused,
           PermitLookup, Close, Open, EvictGate
<1>2. CASE Step
  BY <1>2 DEF Next
<1>3. CASE Tick
  BY <1>3 DEF Next
<1>4. CASE UNCHANGED admissionVars
  BY <1>4 DEF admissionVars, ledgerVars, vars
<1> QED
  BY <1>1, <1>2, <1>3, <1>4 DEF AdmissionNext

\* The gate signs as the ledger assumes: the composition implements the
\* ledger's specification, for any number of permits, calls and closings.
THEOREM GateIsAsAssumed == AdmissionSpec => GateSignsAsAssumed
<1>1. AdmissionInit => Init
  BY DEF AdmissionInit
<1> QED
  BY <1>1, StepRefines, AdmissionCorrect, PTL
     DEF AdmissionSpec, GateSignsAsAssumed, Spec

\* A row that becomes consumed was started by a call that had read the clock
\* before the row's permit expired.
LEMMA StartsWithinPermit ==
  ASSUME TypeInv, PermitInv, [Next]_vars, NEW r \in Ids, Starts(r)
  PROVE  \E p \in Permits, c \in Calls :
           call[c].op = "consume" /\ call[c].at < issued[p].expires
<1>1. RowStep(r) /\ rows[r] \in Row
  BY RowSteps DEF TypeInv, TypeOK
<1>2. PICK c \in Calls : Started(r, c)
  <2>1. ~ \E c \in Calls : Admitted(r, c)
    BY AdmittedRow DEF Starts
  <2>2. ~Marked(r)
    BY <1>1 DEF Marked, Row, Starts
  <2>3. ~Finished(r)
    BY <1>1 DEF Finished, Ended, Row, Starts
  <2>4. ~Dropped(r)
    BY <1>1 DEF Dropped, Forgotten, Unborn, Starts
  <2>5. rows'[r] # rows[r]
    BY DEF Starts
  <2>6. RowStep(r)
    BY <1>1
  <2> QED
    BY <2>1, <2>2, <2>3, <2>4, <2>5, <2>6, Zenon DEF RowStep
<1>3. /\ rows[r].state \in Waiting /\ rows[r].expires > call[c].at
      /\ call[c].op = "consume"
  <2>1. call[c].op = "consume"
    BY <1>2 DEF Started, ConsumeCommit
  <2> QED
    BY <1>2, <2>1 DEF Started, Waiting
<1>4. rows[r].permit # None /\ rows[r].permit \in Permits
  BY <1>1, <1>3 DEF PermitInv, Row
<1>5. rows[r].expires <= issued[rows[r].permit].expires
  BY <1>4 DEF PermitInv
<1>6. /\ rows[r].expires \in Nat /\ call[c].at \in Nat
      /\ issued[rows[r].permit].expires \in Nat
  BY <1>1, <1>3, <1>4, FrameFields DEF TypeInv, TypeOK, Row
<1> QED
  BY <1>3, <1>4, <1>5, <1>6

\* The calls of consume() in flight after a step are those in flight before
\* it, or have just read the clock.
LEMMA ConsumesInFlight ==
  ASSUME TypeInv, [Next]_vars, NEW c \in Calls, call'[c].op = "consume"
  PROVE  call'[c] = call[c] \/ call'[c].at = now
<1>0. call \in [Calls -> Frame] /\ Idle.op # "consume"
  BY DEF TypeInv, TypeOK, Idle
<1>1. ASSUME NEW d \in Calls, NEW q \in Requests, NEW w \in Waves,
             NEW p \in Permits, ReserveCall(d, q, w, p)
      PROVE  call'[c] = call[c] \/ call'[c].at = now
  BY <1>0, <1>1 DEF ReserveCall
<1>2. ASSUME NEW d \in Calls, ReserveCommit(d) \/ ConsumeCommit(d)
      PROVE  call'[c] = call[c]
  BY <1>0, <1>2 DEF ReserveCommit, ConsumeCommit
<1>3. ASSUME NEW d \in Calls, NEW r \in Ids, ConsumeCall(d, r)
      PROVE  call'[c] = call[c] \/ call'[c].at = now
  BY <1>0, <1>3 DEF ConsumeCall
<1>4. CASE Evict
  BY <1>0, <1>4 DEF Evict
<1>5. CASE call' = call
  BY <1>5
<1> QED
  BY <1>1, <1>2, <1>3, <1>4, <1>5
     DEF Next, Step, SignPermit, MarkStartCreated, Compensate,
         ReleaseBySandbox, RunAlarm, CloseGate, OpenGate,
         RecordCapacityApproval, SetActiveWave, Tick, vars

\* The clock of the platform never goes back.
LEMMA ClockAdvances ==
  TypeInv /\ [Next]_vars => now \in Nat /\ now' \in Nat /\ now' >= now
<1> SUFFICES ASSUME TypeInv, [Next]_vars
             PROVE  now \in Nat /\ now' \in Nat /\ now' >= now
  OBVIOUS
<1>1. now \in Nat
  BY DEF TypeInv, TypeOK
<1>2. CASE Step
  BY <1>1, <1>2, LedgerStep
<1>3. CASE Tick
  BY <1>1, <1>3 DEF Tick
<1>4. ASSUME NEW p \in Permits, NEW q \in Requests, SignPermit(p, q)
      PROVE  now' = now
  BY <1>4 DEF SignPermit
<1>5. CASE UNCHANGED vars
  BY <1>1, <1>5 DEF vars
<1> QED
  BY <1>1, <1>2, <1>3, <1>4, <1>5 DEF Next

\* Only a closing moves the time of the last closing, and it finds the outage
\* gate open.
LEMMA ClosedAtStep ==
  ASSUME [AdmissionNext]_admissionVars, outage = "closed"
  PROVE  closedAt' = closedAt
BY DEF AdmissionNext, GateStep, PermitRequest, PermitRefused, PermitLookup,
       PermitInsert, Close, Open, EvictGate, gateVars, admissionVars

\* Closing the outage gate alone ends the starts: none is committed once
\* PERMIT_TTL_MS have passed since the closing and the calls of consume()
\* from before that have returned, and this stays so until it is opened.
THEOREM ClosingDrainsStarts == AdmissionSpec => ClosedGateDrainsStarts
<1>1. TypeInv /\ PermitInv /\ AdmissionInv
        /\ [AdmissionNext]_admissionVars
        => [ Drained => /\ \A r \in Ids : ~Starts(r)
                        /\ outage' = "closed" => Drained' ]_admissionVars
  <2> SUFFICES ASSUME TypeInv, PermitInv, AdmissionInv,
                      [AdmissionNext]_admissionVars, Drained
               PROVE  /\ \A r \in Ids : ~Starts(r)
                      /\ outage' = "closed" => Drained'
    OBVIOUS
  <2>1. [Next]_vars
    BY StepRefines
  <2>2. closedAt + PermitTTL \in Nat
    BY ConstantsAssumption DEF AdmissionInv, SignedPermits
  <2>3. ASSUME NEW r \in Ids, Starts(r)
        PROVE  FALSE
    <3>1. PICK p \in Permits, c \in Calls :
            call[c].op = "consume" /\ call[c].at < issued[p].expires
      BY <2>1, <2>3, StartsWithinPermit
    <3>2. call[c].at >= closedAt + PermitTTL /\ call[c].at \in Nat
      BY <3>1, FrameFields DEF Drained, TypeInv, TypeOK
    <3>3. /\ issued[p].expires \in Nat
          /\ issued[p].expires <= closedAt + PermitTTL
      BY DEF Drained, AdmissionInv, SignedPermits
    <3> QED
      BY <2>2, <3>1, <3>2, <3>3
  <2>4. ASSUME outage' = "closed"
        PROVE  Drained'
    <3>1. closedAt' = closedAt
      BY ClosedAtStep DEF Drained
    <3>2. now' >= closedAt + PermitTTL /\ now >= closedAt + PermitTTL
      <4>1. now \in Nat /\ now' \in Nat /\ now' >= now
        BY <2>1, ClockAdvances
      <4> QED
        BY <2>2, <4>1 DEF Drained
    <3>3. ASSUME NEW c \in Calls, call'[c].op = "consume"
          PROVE  call'[c].at >= closedAt + PermitTTL
      BY <2>1, <3>2, <3>3, ConsumesInFlight DEF Drained
    <3> QED
      BY <2>4, <3>1, <3>2, <3>3 DEF Drained
  <2> QED
    BY <2>3, <2>4
<1> QED
  BY <1>1, AdmissionCorrect, GateIsAsAssumed, TypeCorrect, PermitsBacked, PTL
     DEF AdmissionSpec, ClosedGateDrainsStarts, GateSignsAsAssumed
=============================================================================
