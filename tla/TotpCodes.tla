----------------------------- MODULE TotpCodes -----------------------------
(***************************************************************************)
(* The codes behind the steps of module Totp: HOTP values and their digits *)
(* (hotp.rs of passman-totp), the parsing of what the user typed, and the  *)
(* search of verify (verifier.rs) through steps whose codes may collide.   *)
(*                                                                         *)
(* HMAC and its truncation are an arbitrary function of the step, since    *)
(* the seed does not change.  Base and Digits stand for 10 and 6.          *)
(***************************************************************************)
EXTENDS Naturals, SequencesExt

CONSTANTS
    Base, Digits,
    StepLength, Skew,    \* period and skew_steps of TotpConfig
    MaxTruncated,        \* the largest truncated HMAC
    MaxTime

ASSUME CodeAssumption ==
    /\ {Base, Digits, StepLength} \subseteq Nat \ {0} /\ {Skew, MaxTruncated, MaxTime} \subseteq Nat
    /\ Base ^ 0 = 1 /\ \A k \in 1 .. Digits : Base ^ k = Base * Base ^ (k - 1)    \* POW10

\* current_step
StepAt(time) == time \div StepLength

MaxStep == StepAt(MaxTime) + Skew

VARIABLES
    hmac,    \* the truncated HMAC of each step; <<>> until the seed is chosen
    time,    \* the verifying host's clock
    last     \* last_accepted_step: the empty set for None

codeVars == <<hmac, time, last>>

CodeInit == hmac = <<>> /\ time = 0 /\ last = {}

\* The seed of the vault
Seeded ==
    /\ hmac = <<>>
    /\ hmac' \in [0 .. MaxStep -> 0 .. MaxTruncated]
    /\ UNCHANGED <<time, last>>

\* POW10 and hotp_value
HotpValue(step) == hmac[step] % (Base ^ Digits)

\* format_padded: the least significant digit is the last.
FormatPadded(value) == [i \in 1 .. Digits |-> (value \div Base ^ (Digits - i)) % Base]

CodeOf(step) == FormatPadded(HotpValue(step))

\* parse_code, where Base stands for a character that is no digit
Parsed(code) == Len(code) = Digits /\ \A i \in DOMAIN code : code[i] \in 0 .. Base - 1

\* The steps of first ..= last, both ends saturating
Window == {s \in 0 .. MaxStep : s + Skew >= StepAt(time) /\ s =< StepAt(time) + Skew}

Matching(code) == {s \in Window : CodeOf(s) = code}

\* Mutant: the search stops at the first step that matches.
FirstMatched(code) == CHOOSE s \in Matching(code) : \A m \in Matching(code) : m >= s

\* The match that the loop of verify recorded last
Matched(code) == CHOOSE s \in Matching(code) : \A m \in Matching(code) : m =< s

\* verify succeeds
Verifies(code) ==
    /\ Parsed(code)
    /\ Matching(code) # {}
    /\ \A s \in last : Matched(code) > s

Verify ==
    \E n \in 0 .. Digits + 1 : \E code \in [1 .. n -> 0 .. Base] :
        /\ hmac # <<>>
        /\ Verifies(code)
        /\ last' = {Matched(code)}
        /\ UNCHANGED <<hmac, time>>

Tick == hmac # <<>> /\ time < MaxTime /\ time' = time + 1 /\ UNCHANGED <<hmac, last>>

CodeNext == Seeded \/ Verify \/ Tick

CodeSpec == CodeInit /\ [][CodeNext]_codeVars

-----------------------------------------------------------------------------
\* Read from the left, the digits make the number n[1], n[2] .. up to the value.
Reads(code, value) ==
    \E n \in [0 .. Digits -> 0 .. Base ^ Digits - 1] :
        /\ n[0] = 0 /\ n[Digits] = value
        /\ \A i \in 1 .. Digits : n[i] = n[i - 1] * Base + code[i]

\* What an authenticator shows: the digits whose number is the value
Shown(step) ==
    CHOOSE code \in [1 .. Digits -> 0 .. Base - 1] : Reads(code, hmac[step] % (Base ^ Digits))

\* An authenticator within the skew of this clock shows the digits of its
\* step: they are accepted when no code of that step or a later one has been,
\* even where the steps of the window share their digits.
FreshCodeAccepted ==
    hmac # <<>> =>
        \A s \in Window : (\A l \in last : s > l) => Verifies(Shown(s))
=============================================================================
