---------------------------- MODULE MCLifecycle ----------------------------
EXTENDS Lifecycle

(* A runtime is brought up or recovered, told to leave, and met again.       *)
Sessions == <<{"start", "restart"},
              {"start", "stop", "restart", "shutdown", "transition"},
              {"stop", "observe", "force"}>>
CutShort == <<{"start"}, {"shutdown"}>>
BothOrigins == {"none", "recovered"}
FreshOrigin == {"none"}
=============================================================================
