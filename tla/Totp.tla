-------------------------------- MODULE Totp --------------------------------
(***************************************************************************)
(* The TOTP verifier of passman-totp (verifier.rs).  A code is represented *)
(* by the time step it was generated for, or by BadCode when it matches no *)
(* step of the seed (a wrong, malformed or foreign code).                  *)
(***************************************************************************)
EXTENDS Integers

CONSTANTS
    Period,     \* seconds in a time step, in the instance's unit
    SkewSteps   \* accepted distance from the current step

ASSUME TotpAssumption == Period \in Nat \ {0} /\ SkewSteps \in Nat

BadCode  == -1    \* matches no step
NoStep   == -1    \* last_accepted_step = None

CurrentStep(now) == now \div Period

\* The steps verify scans; the low end saturates at step 0.
SkewWindow(now) ==
    {s \in (CurrentStep(now) - SkewSteps) .. (CurrentStep(now) + SkewSteps) : s >= 0}

\* Mutant: the step accepted last is accepted again.
AcceptsAgain(last_accepted_step, code, now) ==
    code \in SkewWindow(now) /\ code >= last_accepted_step

\* TotpVerifier::verify succeeds: a step of the window, later than the last
\* accepted one.  On success the verifier's new state is the step itself.
Accepts(last_accepted_step, code, now) ==
    /\ code \in SkewWindow(now)
    /\ code > last_accepted_step
=============================================================================
