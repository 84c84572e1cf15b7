---------------------------- MODULE MCSupervisor ----------------------------
(* Instances of Supervisor for TLC. *)
EXTENDS Supervisor, TLC

ObserverSymmetry == Permutations(Observers)
=============================================================================
