----------------------------- MODULE OutageGate -----------------------------
(***************************************************************************)
(* The OutageGate Durable Object (src/outage-gate/src/gate.js), deployed   *)
(* apart from the fleet: it signs the permits that reserve() asks for, and *)
(* an operator closes it to stop the fleet.                                *)
(*                                                                         *)
(* A permit request reads the clock once, then awaits its body and the     *)
(* signing key, then looks the request up in a transaction, awaits the     *)
(* signature, and looks it up again before it inserts: two transactions    *)
(* that use a clock reading older than both.                               *)
(***************************************************************************)
EXTENDS OutagePermits

CONSTANTS
  PermitCalls,     \* concurrent invocations of /permit
  MaxEpoch         \* bound of the gate's generation

ASSUME OutageGateAssumption ==
  /\ None \notin Requests \cup Permits
  /\ PermitTTL \in Nat \ {0}
  /\ MaxNow \in Nat
  /\ MaxEpoch \in Nat

VARIABLES
  outage,      \* gate_state.state
  epoch,       \* gate_state.generation
  closedAt,    \* history: the time of the last closing
  permitRow,   \* issued_permits, by runner request
  permitCall   \* the suspended invocations of /permit

gateVars == <<outage, epoch, closedAt, permitRow, permitCall>>
outageVars == <<now, issued, gateVars>>

Resting == [stage |-> "resting"]

\* #prunePermits
PrunedPermits(t) ==
  [q \in Requests |-> IF permitRow[q] # None /\ issued[permitRow[q]].expires <= t
                        THEN None ELSE permitRow[q]]

\* Mutant: the caller's deadline is taken without the limit.
PermitRequestUncapped(c, q) ==
  /\ permitCall[c] = Resting
  /\ permitRow' = PrunedPermits(now)
  /\ \E e \in now .. now + PermitTTL + 1 :
       permitCall' = [permitCall EXCEPT
                        ![c] = [stage |-> "lookup", request |-> q, at |-> now,
                                expires |-> e]]
  /\ UNCHANGED <<now, outage, epoch, closedAt, issued>>

\* The clock is read, rows are pruned, and the body is awaited.
PermitRequest(c, q) ==
  /\ permitCall[c] = Resting
  /\ permitRow' = PrunedPermits(now)
  /\ \E e \in now .. now + PermitTTL :
       permitCall' = [permitCall EXCEPT
                        ![c] = [stage |-> "lookup", request |-> q, at |-> now,
                                expires |-> e]]
  /\ UNCHANGED <<now, outage, epoch, closedAt, issued>>

\* A body that asks for a deadline already passed, or is invalid.
PermitRefused(c) ==
  /\ permitCall[c].stage = "lookup"
  /\ permitCall[c].expires <= permitCall[c].at
  /\ permitCall' = [permitCall EXCEPT ![c] = Resting]
  /\ UNCHANGED <<now, outage, epoch, closedAt, permitRow, issued>>

\* Mutant: the row another call inserted meanwhile is overwritten.
MaySignAgain(q, table) == outage = "open"

\* Neither closed nor answered with the permit there is.
MaySign(q, table) == outage = "open" /\ table[q] = None

\* The first transaction decides whether there is a permit to sign.
PermitLookup(c) ==
  LET f == permitCall[c] IN
  /\ f.stage = "lookup" /\ f.expires > f.at
  /\ permitRow' = PrunedPermits(f.at)
  /\ permitCall' = [permitCall EXCEPT
                      ![c] = IF outage = "open" /\ permitRow'[f.request] = None
                               THEN [f EXCEPT !.stage = "insert"] ELSE Resting]
  /\ UNCHANGED <<now, outage, epoch, closedAt, issued>>

\* The second one, after the signature, decides again and inserts.
PermitInsert(c) ==
  LET f == permitCall[c]
      table == PrunedPermits(f.at)
  IN
  /\ f.stage = "insert"
  /\ \/ /\ MaySign(f.request, table)
        /\ \E p \in Permits :
             /\ issued[p] = Unsigned
             /\ permitRow' = [table EXCEPT ![f.request] = p]
             /\ issued' = [issued EXCEPT ![p] = [request |-> f.request,
                                                 expires |-> f.expires]]
     \/ /\ ~MaySign(f.request, table)
        /\ permitRow' = table
        /\ UNCHANGED issued
  /\ permitCall' = [permitCall EXCEPT ![c] = Resting]
  /\ UNCHANGED <<now, outage, epoch, closedAt>>

\* #close raises the generation only when the gate was open, #open always.
Close ==
  /\ outage = "open" /\ epoch < MaxEpoch
  /\ outage' = "closed"
  /\ epoch' = epoch + 1
  /\ closedAt' = now
  /\ UNCHANGED <<now, permitRow, issued, permitCall>>

Open ==
  /\ epoch < MaxEpoch
  /\ outage' = "open"
  /\ epoch' = epoch + 1
  /\ UNCHANGED <<now, closedAt, permitRow, issued, permitCall>>

\* The object is evicted: suspended invocations are lost, storage is kept.
EvictGate ==
  /\ permitCall' = [c \in PermitCalls |-> Resting]
  /\ UNCHANGED <<now, outage, epoch, closedAt, permitRow, issued>>

TickGate ==
  /\ now < MaxNow
  /\ now' = now + 1
  /\ UNCHANGED <<gateVars, issued>>

-----------------------------------------------------------------------------
GateInit ==
  /\ outage = "closed" /\ epoch = 0 /\ closedAt = 0
  /\ permitRow = [q \in Requests |-> None]
  /\ permitCall = [c \in PermitCalls |-> Resting]

InitOutage ==
  /\ now = 0
  /\ issued = [p \in Permits |-> Unsigned]
  /\ GateInit

\* What the object does; time comes from outside.
GateStep ==
  \/ \E c \in PermitCalls, q \in Requests : PermitRequest(c, q)
  \/ \E c \in PermitCalls :
        PermitRefused(c) \/ PermitLookup(c) \/ PermitInsert(c)
  \/ Close
  \/ Open
  \/ EvictGate

OutageSpec == InitOutage /\ [][GateStep \/ TickGate]_outageVars

-----------------------------------------------------------------------------
(***************************************************************************)
(* Properties.                                                             *)
(***************************************************************************)
PermitFrame ==
  {Resting} \cup [stage : {"lookup", "insert"}, request : Requests, at : Nat,
                  expires : Nat]

\* The variables keep their types.
OutageTypeOK ==
  /\ now \in Nat
  /\ outage \in {"open", "closed"} /\ epoch \in Nat /\ closedAt \in Nat
  /\ permitRow \in [Requests -> Permits \cup {None}]
  /\ issued \in [Permits -> [request : Requests \cup {None}, expires : Nat]]
  /\ permitCall \in [PermitCalls -> PermitFrame]

\* A runner request never holds two permits that are both still valid, though
\* two calls may sign for it at once and each prunes with its own old clock.
OneValidPermitPerRequest ==
  \A p1, p2 \in Permits :
    /\ issued[p1].expires > now /\ issued[p2].expires > now
    /\ issued[p1].request = issued[p2].request
    => p1 = p2

\* Once the gate is closed the permits run out: none is valid longer than
\* PERMIT_TTL_MS past the closing, whatever was being signed at that moment.
PermitsEndAfterClose ==
  outage = "closed" =>
    \A p \in Permits : issued[p].expires <= closedAt + PermitTTL
=============================================================================
