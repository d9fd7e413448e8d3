------------------------- MODULE MCListenerDispatch -------------------------
(* Small instances of ListenerDispatch for TLC. *)
EXTENDS ListenerDispatch
=============================================================================
