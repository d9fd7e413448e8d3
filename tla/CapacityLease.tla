--------------------------- MODULE CapacityLease ----------------------------
(***************************************************************************)
(* What the ledger promises whoever starts runners: leases that are        *)
(* granted to a request, started once and given back.  It has no clock, no *)
(* permit, no gate and no message; a lease may be called in at any time,   *)
(* also while another one is granted.                                      *)
(***************************************************************************)
EXTENDS Integers, FiniteSets

CONSTANTS
  Leases,     \* lease identifiers, each used once
  Requests,   \* who a lease is granted to
  Nobody,     \* the holder of a lease that is not held
  Limit       \* how many leases may be held at a time

VARIABLES stage, holder

leaseVars == <<stage, holder>>

Held == {l \in Leases : stage[l] \in {"granted", "started"}}

LeaseInit ==
  /\ stage = [l \in Leases |-> "free"]
  /\ holder = [l \in Leases |-> Nobody]

CallsIn(late) == [l \in Leases |-> IF l \in late THEN "over" ELSE stage[l]]
Vacates(late) == [l \in Leases |-> IF l \in late THEN Nobody ELSE holder[l]]

\* A request is granted a free lease, once those called in have made room.
Grant(l, q, late) ==
  /\ stage[l] = "free"
  /\ Cardinality(Held \ late) < Limit
  /\ \A k \in Held \ late : holder[k] # q
  /\ stage' = [CallsIn(late) EXCEPT ![l] = "granted"]
  /\ holder' = [Vacates(late) EXCEPT ![l] = q]

\* The runner of a lease starts; it does so once.
Start(l) ==
  /\ stage[l] = "granted"
  /\ stage' = [stage EXCEPT ![l] = "started"]
  /\ UNCHANGED holder

GiveBack(late) ==
  /\ stage' = CallsIn(late)
  /\ holder' = Vacates(late)

LeaseNext ==
  \/ \E late \in SUBSET Held :
       \/ GiveBack(late)
       \/ \E l \in Leases, q \in Requests : Grant(l, q, late)
  \/ \E l \in Leases : Start(l)

LeaseSpec == LeaseInit /\ [][LeaseNext]_leaseVars
=============================================================================
