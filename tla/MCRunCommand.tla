------------------------------ MODULE MCRunCommand ------------------------------
(* Small instances of RunCommand for TLC. *)
EXTENDS RunCommand

SmallAndBig == {1, 2}
=============================================================================
