----------------------------- MODULE MCSandboxPool -----------------------------
(* Small instances of SandboxPool for TLC. *)
EXTENDS SandboxPool, TLC

CONSTANTS a, b, k1, k2, k3, k4

TwoCommands == {a, b}
ThreeBoxes  == {k1, k2, k3}
FourBoxes   == {k1, k2, k3, k4}

(* Sound in the runs that check invariants and step properties only. *)
PoolSymmetry == Permutations(Commands) \cup Permutations(Containers)

DaemonFaults == {"create", "start", "remove"}
AllFaults   == FaultKinds
=============================================================================
