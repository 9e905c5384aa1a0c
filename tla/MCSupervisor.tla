---------------------------- MODULE MCSupervisor -----------------------------
(* Instances of Supervisor for TLC. *)
EXTENDS Supervisor

CONSTANTS monitor, admin, server

\* The order of PowerGSLB.main, and a single server.
MCOrder == <<monitor, admin, server>>
OneServer == <<monitor, server>>
=============================================================================
