--------------------------- MODULE MCSenderOutbox ---------------------------
(* Small constants for SenderOutbox (see SenderOutbox.cfg).                *)
EXTENDS SenderOutbox
=============================================================================
