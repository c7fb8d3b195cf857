---------------------------- MODULE MCPassmanApp ----------------------------
(***************************************************************************)
(* Instances of PassmanApp for TLC.                                        *)
(***************************************************************************)
EXTENDS PassmanApp, TLC

CONSTANTS a1, a2, p1, p2

MCSymmetry == Permutations(Apps)

\* No window at all
MCOpenWindow == [n \in 0 .. 0 |-> 0]
\* A short schedule: one free failure, then 1 unit, then 2
MCShortWindow == [n \in 0 .. 3 |-> IF n < 2 THEN 0 ELSE n - 1]
=============================================================================
