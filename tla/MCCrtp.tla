------------------------------- MODULE MCCrtp -------------------------------
(* Two senders, a port whose callback may wait for a lock (the setpoint     *)
(* port) and one with only a task's queue (the log port).                   *)
EXTENDS Crtp

CONSTANTS log, console, setpoint
=============================================================================
