----------------------------- MODULE MCPolling -----------------------------
(***************************************************************************)
(* Small instances of Polling for TLC.                                     *)
(***************************************************************************)
EXTENDS Polling

Everything == {"connection", "registration", "Heartbeat"}
=============================================================================
