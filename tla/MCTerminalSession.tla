--------------------------- MODULE MCTerminalSession ---------------------------
(* Small instances of TerminalSession for TLC. *)
EXTENDS TerminalSession

CONSTANTS f1, f2, f3

TwoFrames   == {f1, f2}
ThreeFrames == {f1, f2, f3}

AuditFault == {"audit"}
=============================================================================
