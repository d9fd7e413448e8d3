--------------------------- MODULE MCRunnerCleanup ---------------------------
(* A small instance of RunnerCleanup for TLC: see RunnerCleanup.cfg and      *)
(* CleanupRegistration.cfg.                                                  *)
EXTENDS RunnerCleanup
=============================================================================
