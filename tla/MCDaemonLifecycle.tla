-------------------------- MODULE MCDaemonLifecycle --------------------------
(* Small instances of DaemonLifecycle.  Processes are interchangeable, so   *)
(* runs that check safety only may identify their permutations.             *)
EXTENDS DaemonLifecycle, TLC

Symmetry == Permutations(Daemons) \cup Permutations(Clients)
=============================================================================
