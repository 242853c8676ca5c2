------------------------------ MODULE MCWsSession ------------------------------
(* Small instances of WsSession for TLC. *)
EXTENDS WsSession

CONSTANTS f1, f2, f3

TwoFrames   == {f1, f2}
ThreeFrames == {f1, f2, f3}

AllFaults     == FaultKinds
NoFault       == {}
=============================================================================
