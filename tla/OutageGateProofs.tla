-------------------------- MODULE OutageGateProofs --------------------------
(***************************************************************************)
(* Proofs about the outage gate, for every value of its constants.         *)
(***************************************************************************)
EXTENDS OutageGate, TLAPS

GateNext == [GateStep \/ TickGate]_outageVars

\* A suspended call read the clock in the past, and asks for no more than the
\* permit TTL from there.
CallsBounded ==
  \A c \in PermitCalls :
    permitCall[c] # Resting =>
      /\ permitCall[c].at <= now
      /\ permitCall[c].expires <= permitCall[c].at + PermitTTL

\* No permit is valid for longer than the TTL.
PermitsBounded == \A p \in Permits : issued[p].expires <= now + PermitTTL

\* The row of a request is the permit it may still use: pruning with an old
\* clock deletes no valid permit, and nothing is inserted over one.
ValidPermitHasRow ==
  \A p \in Permits :
    issued[p].expires > now =>
      /\ issued[p].request \in Requests
      /\ permitRow[issued[p].request] = p

GateInv ==
  OutageTypeOK /\ CallsBounded /\ PermitsBounded /\ ValidPermitHasRow
    /\ PermitsEndAfterClose

-----------------------------------------------------------------------------
\* Pruning keeps the table's type and touches no permit that is still valid.
LEMMA PruneKeepsValid ==
  ASSUME OutageTypeOK, NEW t \in Nat, t <= now
  PROVE  /\ PrunedPermits(t) \in [Requests -> Permits \cup {None}]
         /\ \A q \in Requests :
              permitRow[q] # None /\ issued[permitRow[q]].expires > now
                => PrunedPermits(t)[q] = permitRow[q]
<1>1. ASSUME NEW q \in Requests, permitRow[q] # None
      PROVE  permitRow[q] \in Permits /\ issued[permitRow[q]].expires \in Nat
  BY <1>1 DEF OutageTypeOK
<1> QED
  BY <1>1 DEF OutageTypeOK, PrunedPermits

\* A suspended call is a frame of one of the two stages.
LEMMA SuspendedCall ==
  ASSUME OutageTypeOK, NEW c \in PermitCalls,
         permitCall[c].stage \in {"lookup", "insert"}
  PROVE  /\ permitCall[c] # Resting
         /\ permitCall[c] \in [stage : {"lookup", "insert"},
                               request : Requests, at : Nat, expires : Nat]
<1>1. permitCall[c] # Resting
  BY DEF Resting
<1> QED
  BY <1>1 DEF OutageTypeOK, PermitFrame

\* A permit the prune leaves in place when its holder is still valid.
LEMMA PruneKeepsRows ==
  ASSUME OutageTypeOK, ValidPermitHasRow, NEW t \in Nat, t <= now,
         NEW p \in Permits, issued[p].expires > now
  PROVE  /\ issued[p].request \in Requests
         /\ PrunedPermits(t)[issued[p].request] = p
<1>1. issued[p].request \in Requests /\ permitRow[issued[p].request] = p
  BY DEF ValidPermitHasRow
<1>2. p # None
  BY OutageGateAssumption
<1> QED
  BY <1>1, <1>2, PruneKeepsValid

-----------------------------------------------------------------------------
LEMMA GateInvInit == InitOutage => GateInv
<1> SUFFICES ASSUME InitOutage PROVE GateInv
  OBVIOUS
<1>1. OutageTypeOK
  BY OutageGateAssumption
     DEF InitOutage, GateInit, OutageTypeOK, Unsigned, PermitFrame
<1>2. \A p \in Permits : issued[p].expires = 0
  BY DEF InitOutage, Unsigned
<1>3. CallsBounded
  BY DEF InitOutage, GateInit, CallsBounded
<1>4. PermitsBounded /\ ValidPermitHasRow /\ PermitsEndAfterClose
  BY <1>2, OutageGateAssumption
     DEF InitOutage, GateInit, PermitsBounded, ValidPermitHasRow,
         PermitsEndAfterClose
<1> QED
  BY <1>1, <1>3, <1>4 DEF GateInv

\* A step that issues nothing, keeps the valid permits' rows, does not move
\* the clock and changes no call but to one that is bounded.
LEMMA QuietStep ==
  ASSUME GateInv, OutageTypeOK', CallsBounded',
         now' = now, issued' = issued, outage' = outage, closedAt' = closedAt,
         \/ permitRow' = permitRow
         \/ \E t \in Nat : t <= now /\ permitRow' = PrunedPermits(t)
  PROVE  GateInv'
<1>1. PermitsBounded' /\ PermitsEndAfterClose'
  BY DEF GateInv, PermitsBounded, PermitsEndAfterClose
<1>2. ASSUME NEW p \in Permits, issued[p].expires > now
      PROVE  /\ issued[p].request \in Requests
             /\ permitRow'[issued[p].request] = p
  <2>1. CASE permitRow' = permitRow
    BY <1>2, <2>1 DEF GateInv, ValidPermitHasRow
  <2>2. CASE \E t \in Nat : t <= now /\ permitRow' = PrunedPermits(t)
    BY <1>2, <2>2, PruneKeepsRows DEF GateInv
  <2> QED
    BY <2>1, <2>2
<1>3. ValidPermitHasRow'
  BY <1>2 DEF ValidPermitHasRow
<1> QED
  BY <1>1, <1>3 DEF GateInv

LEMMA RequestStep ==
  ASSUME GateInv, NEW c \in PermitCalls, NEW q \in Requests,
         PermitRequest(c, q)
  PROVE  GateInv'
<1>1. PICK e \in now .. now + PermitTTL :
        permitCall' = [permitCall EXCEPT
                         ![c] = [stage |-> "lookup", request |-> q,
                                 at |-> now, expires |-> e]]
  BY DEF PermitRequest
<1>2. now \in Nat /\ e \in Nat /\ e <= now + PermitTTL
  BY <1>1, OutageGateAssumption DEF GateInv, OutageTypeOK
<1> DEFINE frame == [stage |-> "lookup", request |-> q, at |-> now,
                     expires |-> e]
<1>3. frame \in PermitFrame
  BY <1>2 DEF PermitFrame
<1>4. permitRow' = PrunedPermits(now)
  BY DEF PermitRequest
<1>5. OutageTypeOK'
  BY <1>1, <1>2, <1>3, <1>4, PruneKeepsValid
     DEF GateInv, OutageTypeOK, PermitRequest
<1>6. CallsBounded'
  BY <1>1, <1>2 DEF GateInv, OutageTypeOK, CallsBounded, PermitRequest
<1> QED
  BY <1>2, <1>4, <1>5, <1>6, QuietStep DEF PermitRequest

LEMMA LookupStep ==
  ASSUME GateInv, NEW c \in PermitCalls, PermitLookup(c)
  PROVE  GateInv'
<1> DEFINE f == permitCall[c]
<1>1. /\ f # Resting
      /\ f \in [stage : {"lookup", "insert"}, request : Requests, at : Nat,
                expires : Nat]
  BY SuspendedCall DEF GateInv, PermitLookup
<1>2. f.at \in Nat /\ f.at <= now
  BY <1>1 DEF GateInv, CallsBounded
<1>3. permitRow' = PrunedPermits(f.at)
  BY DEF PermitLookup
<1>4. PICK g \in {[f EXCEPT !.stage = "insert"], Resting} :
        permitCall' = [permitCall EXCEPT ![c] = g]
  BY DEF PermitLookup
<1>5. g \in PermitFrame
  BY <1>1, <1>4 DEF PermitFrame
<1>6. g # Resting => g.at = f.at /\ g.expires = f.expires
  BY <1>1, <1>4
<1>7. OutageTypeOK'
  BY <1>2, <1>3, <1>4, <1>5, PruneKeepsValid
     DEF GateInv, OutageTypeOK, PermitLookup
<1>8. CallsBounded'
  BY <1>1, <1>4, <1>6 DEF GateInv, OutageTypeOK, CallsBounded, PermitLookup
<1> QED
  BY <1>2, <1>3, <1>7, <1>8, QuietStep DEF PermitLookup

\* The second transaction: what it inserts is the only valid permit of its
\* request, and it inserts only while the gate is open.
LEMMA InsertStep ==
  ASSUME GateInv, NEW c \in PermitCalls, PermitInsert(c)
  PROVE  GateInv'
<1> DEFINE f == permitCall[c]
           table == PrunedPermits(f.at)
<1>1. /\ f # Resting
      /\ f \in [stage : {"lookup", "insert"}, request : Requests, at : Nat,
                expires : Nat]
  BY SuspendedCall DEF GateInv, PermitInsert
<1>2. /\ f.at \in Nat /\ f.at <= now /\ f.request \in Requests
      /\ f.expires \in Nat /\ f.expires <= now + PermitTTL
  BY <1>1, OutageGateAssumption DEF GateInv, CallsBounded, OutageTypeOK
<1>3. /\ permitCall' = [permitCall EXCEPT ![c] = Resting]
      /\ now' = now /\ outage' = outage /\ closedAt' = closedAt
      /\ epoch' = epoch
  BY DEF PermitInsert
<1>4. table \in [Requests -> Permits \cup {None}]
  BY <1>2, PruneKeepsValid DEF GateInv
<1>5. CallsBounded'
  BY <1>3 DEF GateInv, OutageTypeOK, CallsBounded
<1>6. CASE ~MaySign(f.request, table) /\ permitRow' = table
             /\ issued' = issued
  <2>1. OutageTypeOK'
    BY <1>3, <1>4, <1>6 DEF GateInv, OutageTypeOK, PermitFrame
  <2> QED
    BY <1>2, <1>3, <1>5, <1>6, <2>1, QuietStep
<1>7. ASSUME MaySign(f.request, table), NEW p \in Permits,
             issued[p] = Unsigned,
             permitRow' = [table EXCEPT ![f.request] = p],
             issued' = [issued EXCEPT ![p] = [request |-> f.request,
                                              expires |-> f.expires]]
      PROVE  GateInv'
  <2>1. outage = "open" /\ table[f.request] = None
    BY <1>7 DEF MaySign
  <2>2. OutageTypeOK'
    <3>1. permitRow' \in [Requests -> Permits \cup {None}]
      BY <1>2, <1>4, <1>7
    <3>2. issued' \in [Permits -> [request : Requests \cup {None},
                                   expires : Nat]]
      BY <1>2, <1>7 DEF GateInv, OutageTypeOK
    <3> QED
      BY <1>3, <3>1, <3>2 DEF GateInv, OutageTypeOK, PermitFrame
  <2>3. PermitsBounded'
    BY <1>2, <1>3, <1>7 DEF GateInv, OutageTypeOK, PermitsBounded
  <2>4. PermitsEndAfterClose'
    BY <1>3, <2>1 DEF PermitsEndAfterClose
  <2>5. ASSUME NEW x \in Permits, issued'[x].expires > now'
        PROVE  /\ issued'[x].request \in Requests
               /\ permitRow'[issued'[x].request] = x
    <3>1. CASE x = p
      BY <1>2, <1>4, <1>7, <3>1 DEF GateInv, OutageTypeOK
    <3>2. CASE x # p
      <4>1. issued'[x] = issued[x]
        BY <1>7, <3>2 DEF GateInv, OutageTypeOK
      <4>2. issued[x].request \in Requests /\ table[issued[x].request] = x
        BY <1>2, <1>3, <2>5, <4>1, PruneKeepsRows DEF GateInv
      <4>3. issued[x].request # f.request
        BY <2>1, <4>2, OutageGateAssumption
      <4> QED
        BY <1>4, <1>7, <4>1, <4>2, <4>3
    <3> QED
      BY <3>1, <3>2
  <2>6. ValidPermitHasRow'
    BY <2>5 DEF ValidPermitHasRow
  <2> QED
    BY <1>5, <2>2, <2>3, <2>4, <2>6 DEF GateInv
<1> QED
  BY <1>6, <1>7 DEF PermitInsert

LEMMA GateInvStep == GateInv /\ GateNext => GateInv'
<1> SUFFICES ASSUME GateInv, GateNext PROVE GateInv'
  OBVIOUS
<1>1. ASSUME NEW c \in PermitCalls, PermitRefused(c) PROVE GateInv'
  <2>1. OutageTypeOK'
    BY <1>1 DEF GateInv, OutageTypeOK, PermitRefused, PermitFrame
  <2>2. CallsBounded'
    BY <1>1 DEF GateInv, OutageTypeOK, CallsBounded, PermitRefused
  <2> QED
    BY <1>1, <2>1, <2>2, QuietStep DEF PermitRefused
<1>2. CASE Close
  BY <1>2 DEF Close, GateInv, OutageTypeOK, CallsBounded, PermitsBounded,
              ValidPermitHasRow, PermitsEndAfterClose
<1>3. CASE Open
  BY <1>3 DEF Open, GateInv, OutageTypeOK, CallsBounded, PermitsBounded,
              ValidPermitHasRow, PermitsEndAfterClose
<1>4. CASE EvictGate
  <2>1. OutageTypeOK'
    BY <1>4 DEF GateInv, OutageTypeOK, EvictGate, PermitFrame
  <2>2. CallsBounded'
    BY <1>4 DEF CallsBounded, EvictGate
  <2> QED
    BY <1>4, <2>1, <2>2, QuietStep DEF EvictGate
<1>5. CASE TickGate
  <2>1. OutageTypeOK'
    BY <1>5 DEF TickGate, gateVars, GateInv, OutageTypeOK
  <2>2. CallsBounded'
    <3>1. ASSUME NEW c \in PermitCalls, permitCall[c] # Resting
          PROVE  permitCall[c].at \in Nat
      BY <3>1 DEF GateInv, OutageTypeOK, PermitFrame
    <3> QED
      BY <1>5, <3>1 DEF TickGate, gateVars, GateInv, OutageTypeOK, CallsBounded
  <2>3. PermitsBounded' /\ ValidPermitHasRow' /\ PermitsEndAfterClose'
    <3>1. \A p \in Permits : issued[p].expires \in Nat
      BY DEF GateInv, OutageTypeOK
    <3> QED
      BY <1>5, <3>1, OutageGateAssumption
         DEF TickGate, gateVars, GateInv, OutageTypeOK, PermitsBounded,
             ValidPermitHasRow, PermitsEndAfterClose
  <2> QED
    BY <2>1, <2>2, <2>3 DEF GateInv
<1>6. CASE UNCHANGED outageVars
  BY <1>6 DEF outageVars, gateVars, GateInv, OutageTypeOK, CallsBounded,
              PermitsBounded, ValidPermitHasRow, PermitsEndAfterClose
<1> QED
  BY <1>1, <1>2, <1>3, <1>4, <1>5, <1>6, RequestStep, LookupStep, InsertStep
     DEF GateNext, GateStep

-----------------------------------------------------------------------------
\* The invariant of the gate holds in every behaviour.
THEOREM GateCorrect == OutageSpec => []GateInv
BY GateInvInit, GateInvStep, PTL DEF OutageSpec, GateNext

\* The gate's variables keep their types.
THEOREM OutageTypes == OutageSpec => []OutageTypeOK
<1>1. GateInv => OutageTypeOK
  BY DEF GateInv
<1> QED
  BY <1>1, GateCorrect, PTL

\* Closing ends the permits: none outlives the last closing by more than the
\* TTL, for any number of calls that were signing at that moment.
THEOREM ClosingEndsPermits == OutageSpec => []PermitsEndAfterClose
<1>1. GateInv => PermitsEndAfterClose
  BY DEF GateInv
<1> QED
  BY <1>1, GateCorrect, PTL

\* Overlapping /permit calls never leave a request with two valid permits.
THEOREM OnePermit == OutageSpec => []OneValidPermitPerRequest
<1>1. GateInv => OneValidPermitPerRequest
  BY DEF GateInv, ValidPermitHasRow, OneValidPermitPerRequest
<1> QED
  BY <1>1, GateCorrect, PTL
=============================================================================
