------------------------------- MODULE Lockout -------------------------------
(***************************************************************************)
(* The advisory lockout of passman-core (lockout.rs): a pair of the number *)
(* of consecutive failures and the time of the last one, kept in the vault *)
(* header and, merged with it, in the memory of the process.               *)
(* Times are natural numbers of the unit the instance chooses; time 0 is   *)
(* the code's "no recorded failure".                                       *)
(***************************************************************************)
EXTENDS Integers

CONSTANTS
    CapAtAttempts,  \* CAP_AT_ATTEMPTS: from this count on the window is constant
    Window,         \* the schedule, count |-> length of the window (0 = none)
    CounterMax      \* u64::MAX, where the count saturates

ASSUME LockoutAssumption ==
    /\ CapAtAttempts \in Nat
    /\ Window \in [0 .. CapAtAttempts -> Nat]
    /\ Window[0] = 0
    /\ \A m, n \in 0 .. CapAtAttempts : m <= n => Window[m] <= Window[n]
    /\ CounterMax \in Nat \ {0}

LockoutState == [counter : 0 .. CounterMax, last : Nat]

\* LockoutState::reset
NoFailures == [counter |-> 0, last |-> 0]

Greater(a, b) == IF a >= b THEN a ELSE b
Lesser(a, b)  == IF a <= b THEN a ELSE b

\* lockout_minutes
LockoutWindow(counter) == Window[Lesser(counter, CapAtAttempts)]

\* Mutant: a clock behind the last failure opens the window.
RemainingRewound(s, now) ==
    LET window == LockoutWindow(s.counter)
    IN  IF now >= s.last /\ now < s.last + window THEN s.last + window - now ELSE 0

\* LockoutState::remaining; 0 stands for None.  A clock behind the last failure
\* is answered with the whole window.
Remaining(s, now) ==
    LET window == LockoutWindow(s.counter)
    IN  IF s.last = 0 \/ now >= s.last + window THEN 0
        ELSE IF now < s.last THEN window
        ELSE s.last + window - now

LockedOut(s, now) == Remaining(s, now) > 0

\* Mutant: the count wraps past the type instead of saturating.
AfterFailureUnbounded(s, now) == [counter |-> s.counter + 1, last |-> now]

\* LockoutState::after_failure
AfterFailure(s, now) ==
    [counter |-> Lesser(s.counter + 1, CounterMax), last |-> now]

\* Mutants: only one of the two records is consulted.
MergeLockoutDiskOnly(disk, mem) == disk
MergeLockoutMemOnly(disk, mem) == mem

\* App::merge_lockout, the greater of each field
MergeLockout(disk, mem) ==
    [counter |-> Greater(disk.counter, mem.counter),
     last    |-> Greater(disk.last, mem.last)]
=============================================================================
