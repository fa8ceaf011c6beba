---------------------------- MODULE MCHighLevel ----------------------------
(* The high-level task and an application give commands and start            *)
(* trajectories.                                                             *)
EXTENDS Trajectories

CONSTANTS task, app, hover, figure, plain, ground
=============================================================================
