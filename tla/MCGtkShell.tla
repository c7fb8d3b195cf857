----------------------------- MODULE MCGtkShell -----------------------------
(***************************************************************************)
(* Instances of GtkShell for TLC, in units of 30 seconds: POST_COPY_SECS   *)
(* is 1; the session of 4 units is shortened to 2 to keep it small.        *)
(***************************************************************************)
EXTENDS GtkShell

CONSTANTS s1, s2
=============================================================================
