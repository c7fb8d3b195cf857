---------------------------- MODULE MCBindingCall ----------------------------
(***************************************************************************)
(* Instances of BindingCall for TLC: an interface thread and a background  *)
(* thread, one secret, sessions of one or two units of time.               *)
(***************************************************************************)
EXTENDS BindingCall, TLC

CONSTANTS t1, t2, s1

MCSymmetry == Permutations(Threads)
=============================================================================
