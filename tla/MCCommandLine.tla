---------------------------- MODULE MCCommandLine ----------------------------
(***************************************************************************)
(* Instances of CommandLine for TLC.                                       *)
(***************************************************************************)
EXTENDS CommandLine, TLC

CONSTANTS p1, p2, l1, l2, weak, strong

MCImages == Image
=============================================================================
