-------------------------- MODULE LedgerRefinement --------------------------
(***************************************************************************)
(* The ledger implements CapacityLease: a reservation is a lease, started  *)
(* when it is consumed and over when it is compensated.  A reservation     *)
(* that is marked start-created has not started anything yet.              *)
(***************************************************************************)
EXTENDS AutopilotControl

Stage(row) ==
  CASE row.state = "unborn"                        -> "free"
    [] row.state \in {"reserved", "start-created"} -> "granted"
    [] row.state = "consumed"                      -> "started"
    [] OTHER                                       -> "over"

Holder(row) == IF Live(row) THEN row.request ELSE None

Abstract ==
  INSTANCE CapacityLease
    WITH Leases <- Ids, Nobody <- None, Limit <- MaxActiveRunners,
         stage  <- [r \in Ids |-> Stage(rows[r])],
         holder <- [r \in Ids |-> Holder(rows[r])]

\* Whatever the clocks, the permits and the interleavings, the ledger grants
\* at most MAX_ACTIVE_RUNNERS leases at a time and one to a request, starts
\* each at most once, and never takes a lease back into use.
GrantsLeases == Abstract!LeaseSpec
=============================================================================
