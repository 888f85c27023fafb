--------------------------- MODULE MCStoreSession ---------------------------
(* Two goroutines query the store: a background one (the daemon, a queue   *)
(* watcher or an MQTT handler) and, in the runs that include it, a REST    *)
(* handler whose panic net/http recovers.                                  *)
EXTENDS StoreSession

CONSTANTS daemon, rest

MCCallers == {daemon, rest}

MCRecovering == {rest}

=============================================================================
