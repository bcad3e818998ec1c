-------------------------- MODULE MCSingleInstance --------------------------
(* Three runs of one job, one plain, one with require_lock, one under       *)
(* -W error, and another user of the machine.                               *)
EXTENDS SingleInstance

CONSTANTS plain, requiring, strict
=============================================================================
