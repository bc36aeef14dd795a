------------------------- MODULE MCRunnerLifecycle -------------------------
(* Instances of RunnerLifecycle for TLC. *)
EXTENDS RunnerLifecycle, TLC

Requesting == {"send", "stop", "restart"}
Housekeeping == {"send", "watchdog", "reap", "delete", "deleteEmpty"}
SendAndStop == {"send", "stop"}
SendOnly == {"send"}
SendAndWatchdog == {"send", "watchdog"}
SendAndDeleteEmpty == {"send", "deleteEmpty"}

Symmetry == Permutations(Commands) \cup Permutations(Runners)
=============================================================================
