--------------------------- MODULE MCHardwareSlots ---------------------------
(***************************************************************************)
(* HardwareSlots for TLC: the three platforms, four random names (a half   *)
(* failed creation and the blobs of the next) and three generations of the *)
(* root.                                                                   *)
(***************************************************************************)
EXTENDS HardwareSlots
=============================================================================
