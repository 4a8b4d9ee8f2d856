--------------------------- MODULE MCEventConsumer ---------------------------
(* EventConsumer with a few events, one of which is malformed.              *)
EXTENDS EventConsumer
=============================================================================
