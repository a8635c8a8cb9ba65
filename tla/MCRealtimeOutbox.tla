-------------------------- MODULE MCRealtimeOutbox --------------------------
(* Instances of RealtimeOutbox for TLC.                                      *)
EXTENDS RealtimeOutbox

CONSTANTS cron, drain
=============================================================================
