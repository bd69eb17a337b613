-------------------------- MODULE NodeLifecycleMC --------------------------
(* Small instances of NodeLifecycle for TLC, and the runs' properties.      *)
EXTENDS NodeLifecycle

StarterThreads == {"setup", "doctor"}
WaiterThreads == {"doctor"}
ResetterThreads == {"slow", "lag", "lag2"}
StopperThreads == ResetterThreads \cup {"fast", "ui", "shutdown"}
Nobody == "nobody"

=============================================================================
