---------------------------- MODULE MCLocServer ----------------------------
(* Instances of LocServer for TLC.                                         *)
EXTENDS LocServer

CONSTANTS f1, f2

TwoFds == {f1, f2}
=============================================================================
