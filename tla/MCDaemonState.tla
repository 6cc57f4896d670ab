---------------------------- MODULE MCDaemonState ----------------------------
(* Small instances of DaemonState.  Devices, requests and observers are     *)
(* interchangeable, so the runs may identify their permutations.            *)
EXTENDS DaemonState, TLC

Symmetry == Permutations(Devices) \cup Permutations(Requests) \cup Permutations(Observers)
=============================================================================
