---------------------------- MODULE MCLogManager ----------------------------
(* Small instances of LogManager.  Devices and subscribers are              *)
(* interchangeable, so safety runs may identify their permutations.         *)
EXTENDS LogManager, TLC

Symmetry == Permutations(Devices) \cup Permutations(Subs)
=============================================================================
