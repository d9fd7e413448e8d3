----------------------------- MODULE Admission ------------------------------
(***************************************************************************)
(* The reservation ledger together with the outage gate that signs its     *)
(* permits: they share what OutagePermits declares, nothing else.          *)
(***************************************************************************)
EXTENDS AutopilotControl, OutageGate

ledgerVars == <<control, rows, spent, alarm, call>>
admissionVars == <<now, issued, ledgerVars, gateVars>>

AdmissionInit == Init /\ GateInit

AdmissionNext ==
  \/ GateStep /\ UNCHANGED ledgerVars
  \/ Step /\ UNCHANGED gateVars
  \/ Tick /\ UNCHANGED gateVars

AdmissionSpec == AdmissionInit /\ [][AdmissionNext]_admissionVars

-----------------------------------------------------------------------------
Starts(r) == rows[r].state # "consumed" /\ rows'[r].state = "consumed"

\* The last permits have run out, and so have the calls of consume() that read
\* the clock before they did.
Drained ==
  /\ outage = "closed"
  /\ now >= closedAt + PermitTTL
  /\ \A c \in Calls :
       call[c].op = "consume" => call[c].at >= closedAt + PermitTTL

\* An operator who closes the outage gate stops the fleet without touching
\* it, whatever was being signed or reserved: PERMIT_TTL_MS later, once the
\* calls of consume() from before have returned, nothing starts until the
\* gate is opened.  Such a call is the only thing that may start a runner
\* later than that: consume() compares the row with its caller's clock.
ClosedGateDrainsStarts ==
  [][ Drained => /\ \A r \in Ids : ~Starts(r)
                 /\ outage' = "closed" => Drained' ]_admissionVars

\* The gate is the environment AutopilotControl assumes: the composition
\* implements the ledger's own specification, its SignPermit included.
GateSignsAsAssumed == Spec
=============================================================================
