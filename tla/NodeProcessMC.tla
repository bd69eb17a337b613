--------------------------- MODULE NodeProcessMC ---------------------------
(* Small instances of NodeProcess for TLC.                                  *)
EXTENDS NodeProcess

DoctorOnly == {"doctor"}
StarterThreads == {"setup", "doctor"}
ResetterThreads == {"slow"}
AllStoppers == {"shutdown", "slow"}
Nobody == "nobody"
=============================================================================
