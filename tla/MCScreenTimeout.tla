-------------------------- MODULE MCScreenTimeout --------------------------
(* Instances of ScreenTimeout for TLC.                                     *)
EXTENDS ScreenTimeout

FourEightNever == {4, 8, 0}
=============================================================================
