---------------------------- MODULE MCManagedRun ----------------------------
(* Runs of one tenant; the probes the configurations choose from.           *)
EXTENDS ManagedRun

CONSTANTS tenant

OneTenant == [r \in Runs |-> tenant]

Probe(calls, wait, cap) == [calls |-> calls, wait |-> wait, cap |-> cap]

Throttled == {Probe(1, TRUE, "throttle_queue")}
HardStopped == {Probe(1, FALSE, "hard_stop")}
BothCaps == Throttled \cup HardStopped
=============================================================================
