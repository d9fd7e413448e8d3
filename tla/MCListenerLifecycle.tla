------------------------ MODULE MCListenerLifecycle ------------------------
(* Small instances of ListenerLifecycle for TLC. *)
EXTENDS ListenerLifecycle
=============================================================================
