------------------------- MODULE MCAutopilotControl -------------------------
(* A small instance of the ledger for TLC, and of the refinement it makes of *)
(* CapacityLease: see Autopilot.cfg.                                         *)
EXTENDS LedgerRefinement
=============================================================================
