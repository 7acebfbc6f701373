---------------------------- MODULE MCDriverTasks ---------------------------
(* One stage thread with its verifier children, two drivers and one or two  *)
(* sweepers; the sets and bounds are given by the configurations.           *)
EXTENDS DriverTasks
=============================================================================
